--------------------------- MODULE RequestTranslators ---------------------------
(***************************************************************************)
(* The request translators of internal/translator: functions from what a   *)
(* client sends, in its format, to what a provider is sent.                *)
(*                                                                         *)
(* A conversation is a sequence of messages [role, parts]; an item of the  *)
(* Responses format is a message too, of the parts it holds.  A part is    *)
(* [kind, n, call, id, name]: n is its number, a result has the number of  *)
(* the call it answers in "call", as far as the format can say so only by  *)
(* id and name.  Names and ids are the sequence of what stands between     *)
(* their dashes; of an image or a text, name is how it is spelled.  A tool *)
(* is [name, type].  Texts, arguments, schemas, sampling and thinking      *)
(* parameters and signatures are left out.                                 *)
(***************************************************************************)
EXTENDS Integers, Sequences, FiniteSets, SequencesExt, TLC

Each(s, F(_)) == FlattenSeq([i \in DOMAIN s |-> F(s[i])])
Msg(role, parts) == [role |-> role, parts |-> parts]
Of(kinds, parts) == SelectSeq(parts, LAMBDA p : p.kind \in kinds)
Side(role) == IF role = "assistant" THEN "model" ELSE role
Unside(role) == IF role = "model" THEN "assistant" ELSE role
NoId(p) == [p EXCEPT !.id = <<>>]

\* A new id; the letters are random, no two are the same.
FreshId(p) == <<"fresh_" \o ToString(p.n)>>

-----------------------------------------------------------------------------
(* Names of tools for Codex.  A name of more than 64 characters is cut, and *)
(* those that are then the same get a suffix.                               *)
shortenNameIfNeeded(name) == IF name[1] \in {"long_a", "long_b"} THEN <<"cut">> ELSE name

Suffixed(name, i) == <<"cut", "_" \o ToString(i)>>

buildShortNameMapUnsuffixed(names) ==  \* mutant: names cut alike stay alike
    [name \in ToSet(names) |-> shortenNameIfNeeded(name)]

buildShortNameMap(names) ==
    FoldLeft(LAMBDA m, name :
                LET used == {m[x] : x \in DOMAIN m}
                    short == shortenNameIfNeeded(name)
                    unique == IF short \notin used THEN short
                              ELSE Suffixed(short, CHOOSE i \in 1..(Len(names) + 1) :
                                     /\ Suffixed(short, i) \notin used
                                     /\ \A j \in 1..(i - 1) : Suffixed(short, j) \in used)
                IN  (name :> unique) @@ m,
             <<>>, names)

ShortName(map, name) == IF name \in DOMAIN map THEN map[name] ELSE shortenNameIfNeeded(name)

NamesOf(tools) == [i \in DOMAIN tools |-> tools[i].name]
FunctionsOf(tools) == SelectSeq(tools, LAMBDA t : t.type = "function")
Shortened(map, tools) == [i \in DOMAIN tools |-> [tools[i] EXCEPT !.name = ShortName(map, @)]]

\* What the converters of Codex's answers take a short name for.
buildReverseMap(tools) ==
    LET map == buildShortNameMap(NamesOf(tools))
    IN  [short \in {map[name] : name \in DOMAIN map} |->
            CHOOSE name \in DOMAIN map : map[name] = short]

-----------------------------------------------------------------------------
(* Claude to the Gemini formats.  A result does not name its tool: the name *)
(* is taken from the id, as the proxy's own ids begin with it.              *)
toolNameFromClaudeToolUseID(id) == IF Len(id) <= 1 THEN <<>> ELSE Front(id)

ClaudeToGeminiPart(p) ==
    CASE p.kind = "text" -> <<p>>
      [] p.kind = "call" ->
            LET name == toolNameFromClaudeToolUseID(p.id)
            IN  <<NoId([p EXCEPT !.name = IF name # <<>> THEN name ELSE @])>>
      [] p.kind = "result" ->
            LET name == toolNameFromClaudeToolUseID(p.id)
            IN  <<NoId([p EXCEPT !.name = IF name # <<>> THEN name ELSE p.id])>>
      [] OTHER -> <<>>

ClaudeToGeminiCLIPart(p) ==
    CASE p.kind \in {"text", "image"} -> <<p>>
      [] p.kind = "call" -> <<NoId(p)>>
      [] p.kind = "result" ->
            <<NoId([p EXCEPT !.name = IF Len(p.id) > 1 THEN Front(p.id) ELSE p.id])>>
      [] OTHER -> <<>>

ClaudeToAntigravityPartOneSuffix(p) ==  \* mutant: the time in an id is taken for a part of the name
    CASE p.kind \in {"text", "image", "thought", "call"} -> <<p>>
      [] p.kind = "result" -> <<[p EXCEPT !.name = IF Len(p.id) > 1 THEN Front(p.id) ELSE p.id]>>
      [] OTHER -> <<>>

ClaudeToAntigravityPart(p) ==
    CASE p.kind \in {"text", "image", "thought", "call"} -> <<p>>
      [] p.kind = "result" ->
            <<[p EXCEPT !.name = IF Len(p.id) > 1 THEN SubSeq(p.id, 1, Len(p.id) - 2) ELSE p.id]>>
      [] OTHER -> <<>>

ThoughtsFirst(parts) == Of({"thought"}, parts) \o SelectSeq(parts, LAMBDA p : p.kind # "thought")

ToolsWithSchema(tools) == FunctionsOf(tools)

ConvertClaudeRequestToGemini(c) ==
    [messages |-> [i \in DOMAIN c.messages |->
        Msg(Side(c.messages[i].role), Each(c.messages[i].parts, ClaudeToGeminiPart))],
     tools |-> ToolsWithSchema(c.tools)]

ConvertClaudeRequestToCLI(c) ==
    [messages |-> [i \in DOMAIN c.messages |->
        Msg(Side(c.messages[i].role), Each(c.messages[i].parts, ClaudeToGeminiCLIPart))],
     tools |-> ToolsWithSchema(c.tools)]

ConvertClaudeRequestToAntigravity(c) ==
    LET Converted(m) ==
            LET parts == Each(m.parts, ClaudeToAntigravityPart)
            IN  IF parts = <<>> THEN <<>>
                ELSE <<Msg(Side(m.role), IF m.role = "assistant" THEN ThoughtsFirst(parts) ELSE parts)>>
    IN  [messages |-> Each(c.messages, Converted), tools |-> ToolsWithSchema(c.tools)]

-----------------------------------------------------------------------------
(* Chat completions to the Gemini formats.  Results are looked up by id in  *)
(* the whole conversation and placed after the message that has the calls.  *)
AllParts(messages) == Each(messages, LAMBDA m : m.parts)
WithId(kind, id, messages) ==
    SelectSeq(AllParts(messages), LAMBDA p : p.kind = kind /\ p.id = id)

tcID2Name(messages, id) == Last(WithId("call", id, messages)).name

ToolNode(messages, p, ids) ==
    LET found == WithId("result", p.id, messages)
    IN  [kind |-> "result", n |-> p.n, call |-> IF found = <<>> THEN 0 ELSE Last(found).call,
         id |-> IF ids THEN p.id ELSE <<>>, name |-> tcID2Name(messages, p.id)]

OpenAIToContents(messages, ids) ==
    LET Calls(m) == Of({"call"}, m.parts)
        Answers(m) == [i \in DOMAIN Calls(m) |-> ToolNode(messages, Calls(m)[i], ids)]
        Parts(m) == [i \in DOMAIN m.parts |-> IF ids THEN m.parts[i] ELSE NoId(m.parts[i])]
        Converted(m) ==
            CASE m.role \in {"system", "developer"} ->
                    <<Msg(IF Len(messages) > 1 THEN "system" ELSE "user", m.parts)>>
              [] m.role = "user" -> <<m>>
              [] m.role = "assistant" ->
                    <<Msg("model", Parts(m))>>
                        \o (IF Calls(m) = <<>> THEN <<>> ELSE <<Msg("user", Answers(m))>>)
              [] m.role = "tool" -> <<>>
    IN  Each(messages, Converted)

ConvertOpenAIRequestToGemini(c) ==
    [messages |-> OpenAIToContents(c.messages, FALSE), tools |-> FunctionsOf(c.tools)]
ConvertOpenAIRequestToGeminiCLI(c) ==
    [messages |-> OpenAIToContents(c.messages, FALSE), tools |-> FunctionsOf(c.tools)]
ConvertOpenAIRequestToAntigravity(c) ==
    [messages |-> OpenAIToContents(c.messages, TRUE), tools |-> FunctionsOf(c.tools)]

-----------------------------------------------------------------------------
(* Responses to the Gemini formats.  Each call of a run is followed by its  *)
(* output, and what is left of the outputs comes after.                     *)
HasKind(kind, m) == \E i \in DOMAIN m.parts : m.parts[i].kind = kind
SameRun(items, i, j) ==
    /\ i < j
    /\ \A k \in i..j : HasKind("call", items[k]) \/ HasKind("result", items[k])
    /\ \A k \in i..(j - 1) : ~(HasKind("result", items[k]) /\ HasKind("call", items[k + 1]))

NormalizedNot(items) == items  \* mutant: calls and outputs of a run stay apart

Normalized(items) ==
    LET Id(i) == items[i].parts[1].id
        Pair(i, j) == /\ SameRun(items, i, j) /\ Id(i) = Id(j)
                      /\ HasKind("call", items[i]) /\ HasKind("result", items[j])
        Outputs(i) == {j \in DOMAIN items : Pair(i, j)}
        Taken(i) == \E k \in DOMAIN items : k < i /\ Outputs(k) \cap Outputs(i) # {}
        At(i) ==
            IF HasKind("call", items[i])
            THEN IF Outputs(i) = {} \/ Taken(i) THEN <<items[i]>>
                 ELSE <<items[i], items[CHOOSE j \in Outputs(i) : \A k \in Outputs(i) : k <= j]>>
            ELSE IF HasKind("result", items[i]) /\ \E k \in DOMAIN items : Pair(k, i) THEN <<>>
            ELSE <<items[i]>>
    IN  FlattenSeq([i \in DOMAIN items |-> At(i)])

\* The first call with the id gives a result its name.
FunctionName(items, id) ==
    LET found == WithId("call", id, items)
    IN  IF found = <<>> THEN <<"unknown">> ELSE Head(found).name

ConvertOpenAIResponsesRequestToGemini(c) ==
    LET Converted(m) ==
            IF HasKind("result", m)
            THEN Msg("function", <<[m.parts[1] EXCEPT !.name = FunctionName(c.messages, m.parts[1].id)]>>)
            ELSE Msg(Side(m.role), m.parts)
        items == Normalized(c.messages)
    IN  [messages |-> [i \in DOMAIN items |-> Converted(items[i])], tools |-> FunctionsOf(c.tools)]

-----------------------------------------------------------------------------
(* Gemini to the Gemini formats.                                            *)
\* Roles other than "user" and "model" become what the one before is not.
\* The system instruction is not among the contents.
FixRoles(messages) ==
    FoldLeft(LAMBDA acc, m :
                LET valid == m.role \in {"user", "model"}
                    role == IF valid THEN m.role ELSE IF acc.prev = "user" THEN "model" ELSE "user"
                IN  IF m.role \in {"system_instruction", "systemInstruction", "system"}
                    THEN [acc EXCEPT !.out = Append(@, m)]
                    ELSE [prev |-> role, out |-> Append(acc.out, Msg(role, m.parts))],
             [prev |-> "", out |-> <<>>], messages).out

\* fixCLIToolResponse: the results of a message's calls, in one message.
Function(parts) == Msg("function", parts)

CollectResponsesEarly(acc, m) ==  \* mutant: a message's results are passed on as they come, the group stays
    [acc EXCEPT !.out = Append(@, Function(Of({"result"}, m.parts))),
                !.got = @ \o Of({"result"}, m.parts)]

CollectResponses(acc, m) ==
    LET got == acc.got \o Of({"result"}, m.parts)
        Complete == {i \in DOMAIN acc.groups : Len(got) >= acc.groups[i]}
        i == CHOOSE i \in Complete : \A j \in Complete : j <= i
        needed == acc.groups[i]
    IN  IF Complete = {} THEN [acc EXCEPT !.got = got]
        ELSE [out |-> Append(acc.out, Function(SubSeq(got, 1, needed))),
              groups |-> RemoveAt(acc.groups, i),
              got |-> SubSeq(got, needed + 1, Len(got))]

fixCLIToolResponse(messages) ==
    LET Step(acc, m) ==
            IF HasKind("result", m) THEN CollectResponses(acc, m)
            ELSE IF m.role = "model" /\ HasKind("call", m)
                 THEN [acc EXCEPT !.out = Append(@, m),
                                  !.groups = Append(@, Len(Of({"call"}, m.parts)))]
            ELSE [acc EXCEPT !.out = Append(@, m)]
        Rest(acc, needed) ==
            IF Len(acc.got) < needed THEN acc
            ELSE [acc EXCEPT !.out = Append(@, Function(SubSeq(acc.got, 1, needed))),
                             !.got = SubSeq(@, needed + 1, Len(@))]
        read == FoldLeft(Step, [out |-> <<>>, groups |-> <<>>, got |-> <<>>], messages)
    IN  FoldLeft(Rest, read, read.groups).out

ConvertGeminiRequestToGemini(c) == [c EXCEPT !.messages = FixRoles(@)]
ConvertGeminiRequestToGeminiCLI(c) == [c EXCEPT !.messages = FixRoles(fixCLIToolResponse(@))]
ConvertGeminiRequestToAntigravity(c) == [c EXCEPT !.messages = FixRoles(fixCLIToolResponse(@))]

\* Clients of gemini-cli wrap a request of Gemini; unwrapped, the system
\* instruction is spelled with an underscore.
ConvertGeminiCLIRequestToGemini(c) ==
    [c EXCEPT !.messages = [i \in DOMAIN @ |->
        IF @[i].role = "systemInstruction" THEN Msg("system_instruction", @[i].parts) ELSE @[i]]]

-----------------------------------------------------------------------------
(* To Claude.  The system prompt is a user's message.                       *)
ConvertOpenAIRequestToClaude(c) ==
    LET Converted(m) ==
            CASE m.role \in {"user", "assistant"} -> <<m>>
              [] m.role \in {"system", "tool"} -> <<Msg("user", m.parts)>>
              [] OTHER -> <<>>
    IN  [messages |-> Each(c.messages, Converted), tools |-> FunctionsOf(c.tools)]

ConvertOpenAIResponsesRequestToClaude(c) ==
    LET Converted(m) ==
            IF HasKind("thought", m) THEN <<>>
            ELSE <<Msg(IF m.role = "assistant" THEN "assistant" ELSE "user", m.parts)>>
        Tool(t) == IF t.type = "function" THEN t ELSE [name |-> <<>>, type |-> "function"]
    IN  [messages |-> Each(c.messages, Converted),
         tools |-> [i \in DOMAIN c.tools |-> Tool(c.tools[i])]]

PairByPositionReversed(acc, p) ==  \* mutant: the newest call is answered first
    CASE p.kind = "call" ->
            [acc EXCEPT !.pending = Append(@, FreshId(p)), !.out = Append(@, [p EXCEPT !.id = FreshId(p)])]
      [] p.kind = "result" /\ acc.pending # <<>> ->
            [acc EXCEPT !.pending = Front(@), !.out = Append(@, [p EXCEPT !.id = Last(acc.pending)])]
      [] OTHER -> [acc EXCEPT !.out = Append(@, p)]

\* Gemini's results have no ids: each takes the id of the oldest call that
\* has none.  "pending" are ids; a stray result gets a new one.
PairByPosition(acc, p) ==
    CASE p.kind = "call" ->
            [acc EXCEPT !.pending = Append(@, FreshId(p)), !.out = Append(@, [p EXCEPT !.id = FreshId(p)])]
      [] p.kind = "result" ->
            IF acc.pending = <<>>
            THEN [acc EXCEPT !.out = Append(@, [p EXCEPT !.id = FreshId(p)])]
            ELSE [acc EXCEPT !.pending = Tail(@), !.out = Append(@, [p EXCEPT !.id = Head(acc.pending)])]
      [] OTHER -> [acc EXCEPT !.out = Append(@, p)]

\* Of an image, and of a list of tools, the translators read one spelling.
Spelled(field, parts) == SelectSeq(parts, LAMBDA p : p.kind = "image" => p.name = <<field>>)
Declared(tools) ==
    LET found == SelectSeq(tools, LAMBDA t : t.type = "functionDeclarations")
    IN  [i \in DOMAIN found |-> [found[i] EXCEPT !.type = "function"]]

ConvertGeminiRequestToClaude(c) ==
    LET Step(acc, m) ==
            LET read == FoldLeft(PairByPosition, [pending |-> acc.pending, out |-> <<>>],
                                 Spelled("inline_data", m.parts))
            IN  IF m.role = "systemInstruction" THEN acc
                ELSE [pending |-> read.pending,
                      out |-> IF read.out = <<>> THEN acc.out
                              ELSE Append(acc.out, Msg(IF m.role = "model" THEN "assistant" ELSE "user", read.out))]
    IN  [messages |-> FoldLeft(Step, [pending |-> <<>>, out |-> <<>>], c.messages).out,
         tools |-> Declared(c.tools)]

-----------------------------------------------------------------------------
(* To Codex, which has items.                                               *)
CallItem(map, p) == Msg("assistant", <<[p EXCEPT !.name = ShortName(map, @)]>>)
ResultItem(p) == Msg("tool", <<p>>)
Developer(role) == IF role = "system" THEN "developer" ELSE role

ConvertOpenAIRequestToCodex(c) ==
    LET map == buildShortNameMap(NamesOf(FunctionsOf(c.tools)))
        Call(p) == <<CallItem(map, p)>>
        Result(p) == <<ResultItem(p)>>
        Said(m) == Of({"text"} \cup (IF m.role = "user" THEN {"image"} ELSE {}), m.parts)
        Converted(m) ==
            IF m.role = "tool" THEN Each(m.parts, Result)
            ELSE <<Msg(Developer(m.role), Said(m))>> \o Each(Of({"call"}, m.parts), Call)
    IN  [messages |-> Each(c.messages, Converted), tools |-> Shortened(map, c.tools)]

\* Text and images are collected until a call, a result or the end.
CollectContent(map, role, acc, p) ==
    CASE p.kind \in {"text", "image"} ->
            IF acc # <<>> /\ ~HasKind("call", Last(acc)) /\ ~HasKind("result", Last(acc))
            THEN [acc EXCEPT ![Len(acc)].parts = Append(@, p)]
            ELSE Append(acc, Msg(Developer(role), <<p>>))
      [] p.kind = "call" -> Append(acc, CallItem(map, p))
      [] p.kind = "result" -> Append(acc, ResultItem(p))
      [] OTHER -> acc

ConvertClaudeRequestToCodex(c) ==
    LET map == buildShortNameMap(NamesOf(c.tools))
        Content(m) == FoldLeft(LAMBDA acc, p : CollectContent(map, m.role, acc, p), <<>>, m.parts)
        \* a system prompt is read as an array only
        Converted(m) == IF m.role = "system" /\ m.parts[1].name = <<"string">> THEN <<>> ELSE Content(m)
    IN  [messages |-> Each(c.messages, Converted),
         tools |-> [i \in DOMAIN c.tools |->
                      IF c.tools[i].type = "function" THEN Shortened(map, c.tools)[i] ELSE c.tools[i]]]

ConvertGeminiRequestToCodex(c) ==
    LET map == buildShortNameMap(NamesOf(Declared(c.tools)))
        Step(acc, m) ==
            LET read == FoldLeft(PairByPosition, [pending |-> acc.pending, out |-> <<>>],
                                 Of({"text", "call", "result"}, m.parts))
                Item(p) == CASE p.kind = "call" -> <<CallItem(map, p)>>
                             [] p.kind = "result" -> <<ResultItem(p)>>
                             [] OTHER -> <<Msg(IF m.role = "system_instruction" THEN "developer"
                                               ELSE Unside(m.role), <<p>>)>>
            IN  IF m.role = "systemInstruction" THEN acc
                ELSE [pending |-> read.pending, out |-> acc.out \o Each(read.out, Item)]
    IN  [messages |-> FoldLeft(Step, [pending |-> <<>>, out |-> <<>>], c.messages).out,
         tools |-> Shortened(map, Declared(c.tools))]

ConvertOpenAIResponsesRequestToCodex(c) ==
    [c EXCEPT !.messages = [i \in DOMAIN @ |-> Msg(Developer(@[i].role), @[i].parts)]]

-----------------------------------------------------------------------------
(* To chat completions.  The results of a message of Claude come first.     *)
ConvertClaudeRequestToOpenAISaidFirst(c) ==  \* mutant: what is said beside results comes first
    LET Tool(p) == <<Msg("tool", <<p>>)>>
        Said(m) == SelectSeq(m.parts, LAMBDA p : p.kind # "result")
        Converted(m) == (IF Said(m) = <<>> THEN <<>> ELSE <<Msg(m.role, Said(m))>>)
                            \o Each(Of({"result"}, m.parts), Tool)
    IN  [messages |-> Each(c.messages, Converted), tools |-> c.tools]

ConvertClaudeRequestToOpenAI(c) ==
    LET Tool(p) == <<Msg("tool", <<p>>)>>
        Said(m) == SelectSeq(m.parts, LAMBDA p : p.kind # "result")
        Converted(m) == Each(Of({"result"}, m.parts), Tool)
                            \o (IF Said(m) = <<>> THEN <<>> ELSE <<Msg(m.role, Said(m))>>)
    IN  [messages |-> Each(c.messages, Converted),
         tools |-> [i \in DOMAIN c.tools |-> [c.tools[i] EXCEPT !.type = "function"]]]

\* A result of Gemini takes the id of the last call there has been; a message
\* of results alone leaves an empty one behind.
PairWithLast(acc, p) ==
    CASE p.kind = "call" -> [acc EXCEPT !.last = FreshId(p), !.said = Append(@, [p EXCEPT !.id = FreshId(p)])]
      [] p.kind = "result" ->
            [acc EXCEPT !.out = Append(@, Msg("tool", <<[p EXCEPT !.id =
                            IF acc.last = <<>> THEN FreshId(p) ELSE acc.last]>>))]
      [] OTHER -> [acc EXCEPT !.said = Append(@, p)]

ConvertGeminiRequestToOpenAI(c) ==
    LET Role(m) == IF m.role \in {"system_instruction", "systemInstruction"} THEN "system" ELSE Unside(m.role)
        Step(acc, m) ==
            LET read == FoldLeft(PairWithLast, [acc EXCEPT !.said = <<>>], Spelled("inlineData", m.parts))
            IN  [read EXCEPT !.out = Append(@, Msg(Role(m), read.said))]
    IN  [messages |-> FoldLeft(Step, [last |-> <<>>, out |-> <<>>, said |-> <<>>], c.messages).out,
         tools |-> Declared(c.tools)]

ConvertOpenAIResponsesRequestToOpenAI(c) ==
    LET Converted(m) == IF HasKind("thought", m) THEN <<>>
                        ELSE <<IF m.role = "developer" THEN Msg("user", m.parts) ELSE m>>
    IN  [messages |-> Each(c.messages, Converted), tools |-> FunctionsOf(c.tools)]

ConvertOpenAIRequestToOpenAI(c) == c

=============================================================================
