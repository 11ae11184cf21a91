----------------------------- MODULE ConfigEdits -----------------------------
(***************************************************************************)
(* Edits of the configuration through the management API                   *)
(* (internal/api/handlers/management: config_lists.go, config_basic.go,    *)
(* handler.go), beside the watcher's reloads and restarts.                 *)
(*                                                                         *)
(* A handler changes the configuration in memory, which it shares with     *)
(* everyone, without a lock; only the save is under Handler.mu.  One       *)
(* section of the configuration is modelled at a time ("section"), with    *)
(* one scalar whose default is not zero.  An entry of a list of keys has   *)
(* its name, a base URL and a set of headers.                              *)
(***************************************************************************)
EXTENDS ConfigTree

CONSTANTS
    Editors,   \* requests under way at one time (bound)
    MaxEdits,  \* changes in all (bound)
    Sections,  \* the sections that are edited
    Names, Bases, Headers, \* values, "" aside
    Assume,    \* what is assumed of edits and timing, see Assumptions
    None

Assumptions ==
    {"edits_apart",   \* one edit or reload at a time
     "saves_whole",   \* no crash between the file's truncation and its writing
     "headers_whole", \* no edit takes some of an entry's headers away and leaves others
     "lists_kept",    \* no edit empties ampcode.upstream-api-keys
     "limit_listed"}  \* the file names error-logs-max-files

VARIABLES
    section,  \* the section of this behaviour
    file,     \* the document in config.yaml, None: truncated
    mem,      \* the configuration h.cfg points to
    edit,     \* the requests
    edits,    \* changes so far
    loaded,   \* what a reload has read and not yet handed to SetConfig
    seen,     \* the document the watcher has loaded last
    promised, \* the configuration by the edits answered with success (history)
    owed      \* a save has failed: memory is ahead of the file

vars == <<section, file, mem, edit, edits, loaded, seen, promised, owed>>

-----------------------------------------------------------------------------
(* The sections, by what their handlers and sanitizers differ in.            *)

KeyList(id, needs, unique, removedBy, tells) ==
    [kind |-> "keys", id |-> id, needs |-> needs, unique |-> unique,
     removedBy |-> removedBy, tells |-> tells]

\* needs: fields without which the sanitizer drops an entry; unique: those by
\* which it drops a second one; removedBy: those a patch may empty to delete;
\* tells: deleting nothing is a 404.
GeminiKeys == KeyList("api-key", {"name"}, {"name"}, {"name"}, TRUE)
ClaudeKeys == KeyList("api-key", {}, {}, {}, FALSE)
OpenAICompat == KeyList("name", {"base"}, {}, {"base"}, FALSE)
VertexCompatKeys ==
    KeyList("api-key", {"name", "base"}, {"name", "base"}, {"name", "base"}, FALSE)
CodexKeys == KeyList("api-key", {"base"}, {}, {"base"}, FALSE)

\* Lists of pairs under "ampcode", changed by upserts.
AmpModelMappings == [kind |-> "pairs", id |-> "from", value |-> "to", omitted |-> FALSE]
AmpUpstreamAPIKeys ==
    [kind |-> "pairs", id |-> "upstream-api-key", value |-> "api-keys", omitted |-> TRUE]

\* Mappings from a provider or channel to a list.
OAuthExcludedModels == [kind |-> "channels"]
OAuthModelAlias == [kind |-> "channels"]

APIKeys == [kind |-> "strings"]

S ==
    CASE section = "gemini-api-key" -> GeminiKeys
      [] section = "claude-api-key" -> ClaudeKeys
      [] section = "openai-compatibility" -> OpenAICompat
      [] section = "vertex-api-key" -> VertexCompatKeys
      [] section = "codex-api-key" -> CodexKeys
      [] section = "model-mappings" -> AmpModelMappings
      [] section = "upstream-api-keys" -> AmpUpstreamAPIKeys
      [] section = "oauth-excluded-models" -> OAuthExcludedModels
      [] section = "oauth-model-alias" -> OAuthModelAlias
      [] section = "api-keys" -> APIKeys

AllSections == {"gemini-api-key", "claude-api-key", "openai-compatibility", "vertex-api-key",
                "codex-api-key", "model-mappings", "upstream-api-keys", "oauth-excluded-models",
                "oauth-model-alias", "api-keys"}

\* A configuration: its limit of error logs and the section's items.
Config(limit, items) == [limit |-> limit, items |-> items]

-----------------------------------------------------------------------------
(* Sanitizers *)

\* By what entries are the same, and the first of those that are.
Key(e) == IF S.kind = "keys" THEN Restrict(e, S.unique) ELSE e

Unique(items) ==
    FoldLeft(LAMBDA out, e :
                 IF \E i \in DOMAIN out : Key(out[i]) = Key(e) THEN out ELSE Append(out, e),
             <<>>, items)

SanitizeKeys(items) ==
    LET kept == SelectSeq(items, LAMBDA e : \A f \in S.needs : e[f] # "")
    IN IF S.unique = {} THEN kept ELSE Unique(kept)

\* A channel without entries goes, and so does an entry listed twice.
NormalizeChannels(items) ==
    [c \in {c \in DOMAIN items : items[c] # <<>>} |-> Unique(items[c])]

Sanitize(items) ==
    CASE S.kind = "keys" -> SanitizeKeys(items)
      [] S.kind = "channels" -> NormalizeChannels(items)
      [] S.kind \in {"pairs", "strings"} -> items

-----------------------------------------------------------------------------
(* The document: rendered from a configuration, and loaded.                  *)

NoKeys == [k \in {} |-> Null]

RenderEntry(e) ==
    Mapping((S.id :> Scalar(e.name))
        @@ (IF section = "gemini-api-key" /\ e.base = "" THEN NoKeys
            ELSE "base-url" :> Scalar(e.base))
        @@ (IF e.headers = {} THEN NoKeys
            ELSE "headers" :> Mapping([h \in e.headers |-> Scalar("on")])))

RenderItem(e) ==
    CASE S.kind = "keys" -> RenderEntry(e)
      [] S.kind = "pairs" ->
           Mapping((S.id :> Scalar(e.name)) @@
               (S.value :> IF S.omitted THEN Sequence(<<Scalar(e.value)>>) ELSE Scalar(e.value)))
      [] section = "oauth-model-alias" ->
           Mapping("name" :> Scalar("model") @@ "alias" :> Scalar(e))
      [] OTHER -> Scalar(e)

RenderList(list) == Sequence([i \in DOMAIN list |-> RenderItem(list[i])])

\* yaml.Marshal: what is tagged omitempty and empty has no key.
RenderSection(items) ==
    CASE S.kind \in {"keys", "strings"} -> section :> RenderList(items)
      [] S.kind = "pairs" ->
           "ampcode" :> Mapping(IF S.omitted /\ items = <<>> THEN "upstream-url" :> Scalar("")
                                ELSE section :> RenderList(items))
      [] S.kind = "channels" ->
           IF DOMAIN items = {} THEN NoKeys
           ELSE section :> Mapping([c \in DOMAIN items |-> RenderList(items[c])])

Render(cfg) ==
    Mapping("error-logs-max-files" :> Scalar(cfg.limit) @@ RenderSection(cfg.items))

Text(n, key) == IF key \in DOMAIN n.map THEN n.map[key].val ELSE ""

LoadItem(n) ==
    CASE S.kind = "keys" ->
           [name |-> Text(n, S.id), base |-> Text(n, "base-url"),
            headers |-> IF "headers" \in DOMAIN n.map THEN DOMAIN n.map["headers"].map ELSE {}]
      [] S.kind = "pairs" ->
           [name |-> Text(n, S.id),
            value |-> IF S.omitted THEN n.map[S.value].seq[1].val ELSE Text(n, S.value)]
      [] section = "oauth-model-alias" -> Text(n, "alias")
      [] OTHER -> n.val

LoadList(map, key) ==
    IF key \in DOMAIN map /\ IsSequence(map[key])
    THEN [i \in DOMAIN map[key].seq |-> LoadItem(map[key].seq[i])] ELSE <<>>

LoadSection(map) ==
    CASE S.kind \in {"keys", "strings"} -> LoadList(map, section)
      [] S.kind = "pairs" -> IF "ampcode" \in DOMAIN map THEN LoadList(map["ampcode"].map, section) ELSE <<>>
      [] S.kind = "channels" ->
           IF section \in DOMAIN map /\ IsMapping(map[section])
           THEN [c \in DOMAIN map[section].map |-> LoadList(map[section].map, c)] ELSE NoKeys

\* An empty file is a configuration of defaults.
LoadConfig(doc) ==
    LET map == IF doc = None THEN NoKeys ELSE doc.map
    IN Config(IF "error-logs-max-files" \in DOMAIN map THEN map["error-logs-max-files"].val ELSE "10",
              Sanitize(LoadSection(map)))

-----------------------------------------------------------------------------
(* What the handlers may make of the items.                                  *)

Entries == [name : Names \cup {""}, base : Bases \cup {""}, headers : SUBSET Headers]
FullEntries == [name : Names, base : Bases, headers : {Headers}]
Pairs == [name : Names, value : Names]
Lists(set) == {<<>>} \cup {<<e>> : e \in set} \cup {<<e, f>> : e \in set, f \in set}

ShortLists(set) == {<<>>} \cup {<<e>> : e \in set}
ChannelLists == [Names -> ShortLists(Names)]

\* PUT: the list of the request, sanitized.
PutKeys == {SanitizeKeys(list) : list \in {<<e>> : e \in Entries} \cup Lists(FullEntries)}

\* PATCH of the entry at index or with a name: each of its fields.
Patched(items, i, f, v) ==
    IF f \in S.removedBy /\ v = "" THEN RemoveAt(items, i) ELSE [items EXCEPT ![i][f] = v]

PatchKey(items) ==
    {SanitizeKeys(Patched(items, i, "name", v)) : i \in DOMAIN items, v \in Names \cup {""}}
    \cup {SanitizeKeys(Patched(items, i, "base", v)) : i \in DOMAIN items, v \in Bases \cup {""}}
    \cup {SanitizeKeys([items EXCEPT ![i].headers = h]) : i \in DOMAIN items, h \in SUBSET Headers}

\* DELETE by name or by index; a name nobody has is an error where "tells".
DeleteKey(items) ==
    {SanitizeKeys(SelectSeq(items, LAMBDA e : e.name # n)) :
        n \in {n \in Names : S.tells => \E i \in DOMAIN items : items[i].name = n}}
    \cup {SanitizeKeys(RemoveAt(items, i)) : i \in DOMAIN items}

\* Upserts by name; DELETE takes the names away, all of them without any.
Upserted(items, e) ==
    LET at == {i \in DOMAIN items : items[i].name = e.name}
    IN IF at = {} THEN Append(items, e) ELSE [items EXCEPT ![Max(at)] = e]

PatchPairs(items) == {Upserted(items, e) : e \in Pairs}

DeletePairs(items) ==
    {SelectSeq(items, LAMBDA e : e.name # n) : n \in Names} \cup {<<>>}

DeleteChannel(items) == {Restrict(items, DOMAIN items \ {c}) : c \in DOMAIN items}

\* PATCH with an empty list is a DELETE; a channel nobody has is an error.
PatchChannel(items) ==
    {c :> list @@ items : c \in Names, list \in Lists(Names) \ {<<>>}}
    \cup DeleteChannel(items)

patchStringList(items) ==
    {[items EXCEPT ![i] = v] : i \in DOMAIN items, v \in Names}
    \cup {LET at == {i \in DOMAIN items : items[i] = old}
          IN IF at = {} THEN Append(items, new) ELSE [items EXCEPT ![Min(at)] = new] :
             old \in Names, new \in Names}

deleteFromStringList(items) ==
    {RemoveAt(items, i) : i \in DOMAIN items}
    \cup {SelectSeq(items, LAMBDA v : v # w) : w \in Names}

Edited(items) ==
    CASE S.kind = "keys" -> PutKeys \cup PatchKey(items) \cup DeleteKey(items)
      [] S.kind = "pairs" -> Lists(Pairs) \cup PatchPairs(items) \cup DeletePairs(items)
      [] S.kind = "channels" ->
           ChannelLists \cup PatchChannel(items)
      [] S.kind = "strings" ->
           Lists(Names) \cup patchStringList(items) \cup deleteFromStringList(items)

-----------------------------------------------------------------------------
(* The files to begin with, and those PUT /config.yaml may bring.            *)

FirstItems ==
    CASE S.kind = "keys" -> Lists(FullEntries)
      [] S.kind = "pairs" -> ShortLists(Pairs)
      [] S.kind = "channels" -> {NormalizeChannels(f) : f \in ChannelLists}
      [] S.kind = "strings" -> Lists(Names)

Limits == {"0", "5", "10"}

\* The section named, absent or null, the limit named or absent.
Documents ==
    LET whole(items) == Render(Config("5", items)).map
        null == IF S.kind = "pairs" THEN {} ELSE {section :> Null @@ whole(<<>>)}
        maps == {whole(items) : items \in {Sanitize(i) : i \in FirstItems}} \cup null
    IN {Mapping(m) : m \in maps}
       \cup (IF "limit_listed" \in Assume THEN {}
             ELSE {Mapping(Restrict(m, DOMAIN m \ {"error-logs-max-files"})) : m \in maps})

Init ==
    /\ section \in Sections
    /\ file \in Documents
    /\ mem = LoadConfig(file) /\ promised = mem
    /\ edit = [e \in Editors |-> [pc |-> "idle", doc |-> None, after |-> None]]
    /\ edits = 0 /\ loaded = None /\ seen = file /\ owed = FALSE

-----------------------------------------------------------------------------
Quiet == (\A e \in Editors : edit[e].pc = "idle") /\ loaded = None
KeptApart == "edits_apart" \in Assume => Quiet
Writing == \E e \in Editors : edit[e].pc = "opened"  \* Handler.mu is held

\* What some edits do that the save does not follow.
HeadersWhole(old, new) ==
    "headers_whole" \in Assume /\ S.kind = "keys" =>
        \A i \in DOMAIN old, j \in DOMAIN new :
            sequenceElementIdentity(RenderEntry(old[i])) = sequenceElementIdentity(RenderEntry(new[j]))
            => new[j].headers = {} \/ old[i].headers \subseteq new[j].headers

ListsKept(old, new) ==
    "lists_kept" \in Assume /\ section = "upstream-api-keys" => new # <<>> \/ old = <<>>

\* A handler has parsed its request and changes the configuration in memory.
Change(e, cfg) ==
    /\ edit[e].pc = "idle" /\ KeptApart /\ edits < MaxEdits
    /\ file # None => HeadersWhole(LoadConfig(file).items, cfg.items)
    /\ ListsKept(mem.items, cfg.items)
    /\ mem' = cfg
    /\ edit' = [edit EXCEPT ![e] = [pc |-> "changed", doc |-> None, after |-> cfg]]
    /\ edits' = edits + 1
    /\ UNCHANGED <<section, file, loaded, seen, promised, owed>>

ChangeItems(e) == \E items \in Edited(mem.items) : Change(e, Config(mem.limit, Sanitize(items)))

PutErrorLogsMaxFiles(e) == \E limit \in Limits : Change(e, Config(limit, mem.items))

\* persist: Handler.mu, the merge of h.cfg as it is by now, os.Create.
Persist(e) ==
    /\ edit[e].pc = "changed" /\ ~Writing /\ file # None
    /\ edit' = [edit EXCEPT ![e].pc = "opened", ![e].doc = SaveConfigPreserveComments(file, Render(mem))]
    /\ file' = None
    /\ UNCHANGED <<section, mem, edits, loaded, seen, promised, owed>>

\* The document cannot be read or parsed: the request is answered with an
\* error, and its change stays in memory.
PersistFails(e) ==
    /\ edit[e].pc = "changed" /\ ~Writing
    /\ edit' = [edit EXCEPT ![e] = [pc |-> "idle", doc |-> None, after |-> None]]
    /\ owed' = TRUE
    /\ UNCHANGED <<section, file, mem, edits, loaded, seen, promised>>

\* PUT /config.yaml: the body replaces the document.
PutConfigYAML(e) == \E doc \in Documents :
    /\ edit[e].pc = "idle" /\ KeptApart /\ ~Writing /\ edits < MaxEdits
    /\ edit' = [edit EXCEPT ![e] = [pc |-> "opened", doc |-> doc, after |-> None]]
    /\ file' = None /\ edits' = edits + 1
    /\ UNCHANGED <<section, mem, loaded, seen, promised, owed>>

\* The document is in the file and the request answered with success.
WriteConfig(e) ==
    /\ edit[e].pc = "opened"
    /\ file' = edit[e].doc
    /\ IF edit[e].after = None THEN mem' = LoadConfig(file') /\ promised' = mem'
       ELSE promised' = edit[e].after /\ UNCHANGED mem
    /\ owed' = FALSE
    /\ edit' = [edit EXCEPT ![e] = [pc |-> "idle", doc |-> None, after |-> None]]
    /\ UNCHANGED <<section, edits, loaded, seen>>

\* The watcher has noticed another content (ConfigReload) and loads it; an
\* empty file is passed over.
reloadConfig ==
    /\ KeptApart /\ loaded = None /\ file \notin {seen, None}
    /\ loaded' = LoadConfig(file) /\ seen' = file
    /\ UNCHANGED <<section, file, mem, edit, edits, promised, owed>>

SetConfig ==
    /\ loaded # None
    /\ mem' = loaded /\ loaded' = None /\ owed' = FALSE
    /\ UNCHANGED <<section, file, edit, edits, seen, promised>>

Restart ==
    /\ "saves_whole" \in Assume => ~Writing
    /\ mem' = LoadConfig(file) /\ seen' = file /\ loaded' = None /\ owed' = FALSE
    /\ edit' = [e \in Editors |-> [pc |-> "idle", doc |-> None, after |-> None]]
    /\ UNCHANGED <<section, file, edits, promised>>

EditorStep(e) ==
    \/ ChangeItems(e) \/ PutErrorLogsMaxFiles(e) \/ Persist(e) \/ PersistFails(e)
    \/ PutConfigYAML(e) \/ WriteConfig(e)

Next == (\E e \in Editors : EditorStep(e)) \/ reloadConfig \/ SetConfig \/ Restart

Spec == Init /\ [][Next]_vars

-----------------------------------------------------------------------------
(* The limit, the requests and the flag are what they should be.             *)
TypeOK ==
    /\ section \in Sections /\ Sections \subseteq AllSections
    /\ mem.limit \in Limits /\ promised.limit \in Limits
    /\ \A e \in Editors : edit[e].pc \in {"idle", "changed", "opened"}
    /\ edits \in 0..MaxEdits /\ owed \in BOOLEAN

(* An edit answered with success stays: what the file says, when no edit is  *)
(* under way, is the configuration as those edits have made it, through the  *)
(* merge into the file's tree, reloads and restarts; and so is what is in    *)
(* memory, unless a change is there that could not be saved.                 *)
EditStays == Quiet =>
    /\ LoadConfig(file) = promised
    /\ owed \/ mem = promised

(* "If 'value' is an empty array, clears all entries"                        *)
(* (DeleteAmpUpstreamAPIKeys): once that is answered with success they do    *)
(* not come back.                                                            *)
ClearedStays ==
    section = "upstream-api-keys" /\ Quiet /\ ~owed /\ promised.items = <<>> => mem.items = <<>>
=============================================================================
