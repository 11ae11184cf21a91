--------------------------------- MODULE Requests --------------------------------
(***************************************************************************)
(* A conversation, sent through the proxy to a provider that speaks        *)
(* another format: the request translators of internal/translator, which   *)
(* are in RequestTranslators.  A client sends all of the conversation with *)
(* every request: who said what, the calls of tools and their results.     *)
(* The formats differ in where results stand, in how a result names its    *)
(* call (an id, a name, its position), and in the roles there are.         *)
(***************************************************************************)
EXTENDS RequestTranslators

CONSTANTS
    MaxTurns,   \* turns of a conversation (bound)
    MaxCalls,   \* calls in a conversation (bound)
    None        \* nothing is sent yet

BoundsAssumption == MaxTurns \in Nat \ {0} /\ MaxCalls \in Nat

VARIABLES
    client,     \* the format the client speaks
    provider,   \* the format of the provider
    habit,      \* what is particular about the client
    talk,       \* the conversation, a sequence of turns
    request     \* what is sent to the provider

vars == <<client, provider, habit, talk, request>>

(* The translators there are: the init.go of each package.                  *)
GeminiFamily == {"gemini", "gemini-cli", "antigravity"}

Registered ==
    ({"claude"} \X (GeminiFamily \cup {"codex", "openai"}))
    \cup ({"openai", "responses", "gemini"} \X (GeminiFamily \cup {"claude", "codex", "openai"}))
    \cup ({"gemini-cli"} \X {"gemini", "claude", "codex", "openai"})

(* Clients of one format differ.  Ids may stem from another provider, or    *)
(* begin anew with each answer; results may come in another order than the  *)
(* calls; the prompt may be a developer's message, or a string where an     *)
(* array is usual; fields of Gemini have two spellings, results two roles,  *)
(* and text may stand beside them; tools may have long names, or be ones    *)
(* the provider has built in.                                               *)
Habits(c, p) ==
    {"usual", "builtin"}
    \cup (IF p # "openai" \/ c = "claude" THEN {"shuffled"} ELSE {})
    \cup (IF c = "claude" THEN {"foreign_ids", "reused_ids", "string"} ELSE {})
    \cup (IF c \in {"openai", "responses"} THEN {"reused_ids", "developer"} ELSE {})
    \cup (IF c \in {"gemini", "gemini-cli"} THEN {"underscores", "function", "beside"} ELSE {})
    \cup (IF p = "codex" /\ c # "responses" THEN {"long"} ELSE {})

Tools ==
    LET Tool(name, type) == [name |-> name, type |-> type]
        function == CASE client \notin {"gemini", "gemini-cli"} -> "function"
                      [] habit = "underscores" -> "function_declarations"
                      [] OTHER -> "functionDeclarations"
    IN  CASE habit = "builtin" -> <<Tool(<<"v">>, function), Tool(<<"search">>, "builtin"), Tool(<<"w">>, function)>>
          [] habit = "long" -> <<Tool(<<"long_a">>, function), Tool(<<"cut", "_1">>, function), Tool(<<"long_b">>, function)>>
          [] OTHER -> <<Tool(<<"v">>, function), Tool(<<"w">>, function)>>

-----------------------------------------------------------------------------
(* The conversation.                                                        *)
Part(kind, n) == [kind |-> kind, n |-> n, call |-> 0, id |-> <<>>, name |-> <<>>]
OfKind(kind, parts) == Of({kind}, parts)
Counted(parts) == [i \in DOMAIN parts |-> [parts[i] EXCEPT !.n = Len(AllParts(talk)) + i]]
CallsMade == Len(OfKind("call", AllParts(talk)))
LastRole == IF talk = <<>> THEN "" ELSE Last(talk).role
LastCalls == IF talk = <<>> THEN <<>> ELSE OfKind("call", Last(talk).parts)

\* The tools take turns.
ToolOf(k) == IF habit = "long" THEN IF k % 2 = 1 THEN <<"long_a">> ELSE <<"long_b">>
             ELSE IF k % 2 = 1 THEN <<"v">> ELSE <<"w">>

\* The id the client has been given with the k-th call, the i-th of its
\* answer: by the proxy, or by a provider it was routed to before.
IdOf(k, i) ==
    CASE habit = "reused_ids" -> <<"tool_" \o ToString(i)>>
      [] client = "claude" /\ habit # "foreign_ids" /\ provider = "gemini" ->
            ToolOf(k) \o <<ToString(k)>>
      [] client = "claude" /\ habit # "foreign_ids" /\ provider \in {"gemini-cli", "antigravity"} ->
            ToolOf(k) \o <<"time", ToString(k)>>
      [] OTHER -> <<"id_" \o ToString(k)>>

Init ==
    /\ \E pair \in Registered : client = pair[1] /\ provider = pair[2]
    /\ habit \in Habits(client, provider)
    /\ talk \in {<<>>, <<Msg("system", <<[Part("text", 1) EXCEPT !.name =
                    IF habit = "string" THEN <<"string">> ELSE <<>>]>>)>>}
    /\ request = None

Room == Len(talk) < MaxTurns /\ request = None

SayUser(image) ==
    /\ Room /\ LastRole # "user" /\ LastCalls = <<>>
    /\ image => \A i \in DOMAIN talk : talk[i].role # "user"
    /\ talk' = Append(talk, Msg("user",
                Counted(<<Part("text", 0)>> \o (IF image THEN <<Part("image", 0)>> ELSE <<>>))))
    /\ UNCHANGED <<client, provider, habit, request>>

\* Thoughts are signed by the provider; one another provider thought is not.
Thoughts == CASE client = "claude" -> {<<>>, <<Part("thought", 0)>>, <<Part("unsigned", 0)>>}
              [] client = "responses" -> {<<>>, <<Part("thought", 0)>>}
              [] OTHER -> {<<>>}

SayAssistant(thought, text, calls) ==
    /\ Room /\ LastRole = "user"
    /\ (text \/ calls > 0) /\ CallsMade + calls <= MaxCalls
    /\ talk' = Append(talk, Msg("assistant",
                Counted(thought \o (IF text THEN <<Part("text", 0)>> ELSE <<>>)
                        \o [i \in 1..calls |-> [Part("call", 0) EXCEPT
                                !.id = IdOf(CallsMade + i, i), !.name = ToolOf(CallsMade + i)]])))
    /\ UNCHANGED <<client, provider, habit, request>>

AnswerCalls(more) ==
    /\ Room /\ LastCalls # <<>>
    /\ LET calls == IF habit = "shuffled" THEN Reverse(LastCalls) ELSE LastCalls
           Result(c) == [Part("result", 0) EXCEPT !.call = c.n, !.id = c.id, !.name = c.name]
       IN  talk' = Append(talk, Msg("user",
                Counted([i \in DOMAIN calls |-> Result(calls[i])]
                        \o (IF more THEN <<Part("text", 0)>> ELSE <<>>))))
    /\ UNCHANGED <<client, provider, habit, request>>

-----------------------------------------------------------------------------
(* How the client writes it down.                                           *)
NoName(p) == IF p.kind = "result" THEN [p EXCEPT !.name = <<>>] ELSE p
ResultsOf(turn) == OfKind("result", turn.parts)
Said(turn) == SelectSeq(turn.parts, LAMBDA p : p.kind # "result")
Written(role, parts) == IF parts = <<>> THEN <<>> ELSE <<Msg(role, parts)>>
Prompter(role) == IF role = "system" /\ habit = "developer" THEN "developer" ELSE role

InClaude == [i \in DOMAIN talk |->
    Msg(talk[i].role, [j \in DOMAIN talk[i].parts |-> NoName(talk[i].parts[j])])]

InOpenAI ==
    LET Tool(p) == <<Msg("tool", <<NoName(p)>>)>>
    IN  Each(talk, LAMBDA t : Each(ResultsOf(t), Tool) \o Written(Prompter(t.role), Said(t)))

InResponses ==
    LET Item(t, p) == CASE p.kind = "result" -> <<Msg("tool", <<NoName(p)>>)>>
                        [] p.kind \in {"call", "thought"} -> <<Msg("assistant", <<p>>)>>
                        [] OTHER -> <<>>
        Items(t, kinds) == Each(SelectSeq(t.parts, LAMBDA p : p.kind \in kinds), LAMBDA p : Item(t, p))
        Message(t) == Written(Prompter(t.role), SelectSeq(t.parts, LAMBDA p : p.kind \in {"text", "image"}))
    IN  Each(talk, LAMBDA t : Items(t, {"thought", "result"}) \o Message(t) \o Items(t, {"call"}))

InGemini ==
    LET role(r) == CASE r = "assistant" -> "model"
                     [] r = "system" -> IF habit = "underscores" THEN "system_instruction" ELSE "systemInstruction"
                     [] OTHER -> r
        Image == IF habit = "underscores" THEN <<"inline_data">> ELSE <<"inlineData">>
        Bare(parts) == [i \in DOMAIN parts |->
            [parts[i] EXCEPT !.id = <<>>, !.name = IF parts[i].kind = "image" THEN Image ELSE @]]
        Answer == IF habit = "function" THEN "function" ELSE "user"
    IN  Each(talk, LAMBDA t :
            IF habit = "beside" \/ ResultsOf(t) = <<>> THEN <<Msg(role(t.role), Bare(t.parts))>>
            ELSE <<Msg(Answer, Bare(ResultsOf(t)))>> \o Written(role(t.role), Bare(Said(t))))

Conversation ==
    [messages |-> CASE client = "claude" -> InClaude
                    [] client = "openai" -> InOpenAI
                    [] client = "responses" -> InResponses
                    [] OTHER -> InGemini,
     tools |-> Tools]

-----------------------------------------------------------------------------
(* The translation, as registered.                                          *)
FromClaude(c) ==
    CASE provider = "gemini" -> ConvertClaudeRequestToGemini(c)
      [] provider = "gemini-cli" -> ConvertClaudeRequestToCLI(c)
      [] provider = "antigravity" -> ConvertClaudeRequestToAntigravity(c)
      [] provider = "codex" -> ConvertClaudeRequestToCodex(c)
      [] provider = "openai" -> ConvertClaudeRequestToOpenAI(c)

FromOpenAI(c) ==
    CASE provider = "gemini" -> ConvertOpenAIRequestToGemini(c)
      [] provider = "gemini-cli" -> ConvertOpenAIRequestToGeminiCLI(c)
      [] provider = "antigravity" -> ConvertOpenAIRequestToAntigravity(c)
      [] provider = "claude" -> ConvertOpenAIRequestToClaude(c)
      [] provider = "codex" -> ConvertOpenAIRequestToCodex(c)
      [] provider = "openai" -> ConvertOpenAIRequestToOpenAI(c)

FromResponses(c) ==
    LET contents == ConvertOpenAIResponsesRequestToGemini(c)
    IN  CASE provider = "gemini" -> contents
          [] provider = "gemini-cli" -> ConvertGeminiRequestToGeminiCLI(contents)
          [] provider = "antigravity" -> ConvertGeminiRequestToAntigravity(contents)
          [] provider = "claude" -> ConvertOpenAIResponsesRequestToClaude(c)
          [] provider = "codex" -> ConvertOpenAIResponsesRequestToCodex(c)
          [] provider = "openai" -> ConvertOpenAIResponsesRequestToOpenAI(c)

FromGemini(c) ==
    CASE provider = "gemini" /\ client = "gemini-cli" -> c
      [] provider = "gemini" /\ client = "gemini" -> ConvertGeminiRequestToGemini(c)
      [] provider = "gemini-cli" -> ConvertGeminiRequestToGeminiCLI(c)
      [] provider = "antigravity" -> ConvertGeminiRequestToAntigravity(c)
      [] provider = "claude" -> ConvertGeminiRequestToClaude(c)
      [] provider = "codex" -> ConvertGeminiRequestToCodex(c)
      [] provider = "openai" -> ConvertGeminiRequestToOpenAI(c)

Translated ==
    CASE client = "claude" -> FromClaude(Conversation)
      [] client = "openai" -> FromOpenAI(Conversation)
      [] client = "responses" -> FromResponses(Conversation)
      [] client = "gemini" -> FromGemini(Conversation)
      [] client = "gemini-cli" -> FromGemini(ConvertGeminiCLIRequestToGemini(Conversation))

Send ==
    /\ request = None /\ LastRole = "user"
    /\ request' = Translated
    /\ UNCHANGED <<client, provider, habit, talk>>

Next ==
    \/ \E image \in BOOLEAN : SayUser(image)
    \/ \E thought \in Thoughts, text \in BOOLEAN, calls \in 0..2 : SayAssistant(thought, text, calls)
    \/ \E more \in BOOLEAN : AnswerCalls(more)
    \/ Send

-----------------------------------------------------------------------------
(* What is known to go wrong, by what the client does: <<feature, client,   *)
(* provider>>.  "always" is every client's, "parallel" one with two calls   *)
(* in an answer, "beside" one with text beside results.                     *)
Features ==
    {"always", habit}
    \cup (IF \E i \in DOMAIN talk : Len(OfKind("call", talk[i].parts)) > 1 THEN {"parallel"} ELSE {})

Troubled(troubles) == \E f \in Features : <<f, client, provider>> \in troubles

ResultTroubles ==
    ({"parallel"} \X {"gemini", "gemini-cli", "responses"} \X {"openai"})
    \cup {<<"always", "claude", "gemini-cli">>}
    \cup ({"foreign_ids", "reused_ids"} \X {"claude"} \X {"gemini", "antigravity"})
    \cup ({"reused_ids"} \X {"openai", "responses"} \X GeminiFamily)
    \cup ({"shuffled"} \X {"gemini", "gemini-cli"} \X {"claude", "codex"})

SpeechTroubles ==
    ({"beside"} \X {"gemini"} \X {"gemini-cli", "antigravity"})
    \cup {<<"developer", "openai", "claude">>, <<"developer", "responses", "gemini">>}
    \cup {<<"string", "claude", "codex">>}
    \cup ({"function"} \X {"gemini", "gemini-cli"} \X {"openai"})
    \cup ({"usual", "builtin", "shuffled", "function", "beside"} \X {"gemini"} \X {"claude", "codex"})
    \cup {<<"long", "gemini", "codex">>}

ToolTroubles ==
    {<<"builtin", "claude", "openai">>, <<"builtin", "responses", "claude">>}
    \cup ({"underscores"} \X {"gemini", "gemini-cli"} \X {"claude", "codex", "openai"})

\* The kinds a translator leaves out.
LeftOut ==
    CASE client = "claude" /\ provider = "gemini" -> {"image", "thought", "unsigned"}
      [] client = "claude" /\ provider \in {"gemini-cli", "codex"} -> {"thought", "unsigned"}
      [] client = "claude" /\ provider = "antigravity" -> {"unsigned"}
      [] client = "responses" /\ provider \in {"claude", "openai"} -> {"thought"}
      [] client \in {"gemini", "gemini-cli"} /\ provider = "codex" -> {"image"}
      [] client \in {"gemini", "gemini-cli"} /\ provider = "claude" /\ habit # "underscores" -> {"image"}
      [] client \in {"gemini", "gemini-cli"} /\ provider = "openai" /\ habit = "underscores" -> {"image"}
      [] OTHER -> {}

-----------------------------------------------------------------------------
(* What a provider requires.  Where it reads messages in groups, those that *)
(* have calls are followed by one that has their results.                   *)
Grouped ==
    LET Role(m) == CASE provider = "claude" -> m.role
                     [] provider = "openai" /\ m.role = "tool" -> "tool"
                     [] OTHER -> ""
        Step(acc, m) ==
            IF acc # <<>> /\ Role(m) # "" /\ Role(m) = Role(Last(acc))
            THEN [acc EXCEPT ![Len(acc)].parts = @ \o m.parts]
            ELSE Append(acc, m)
    IN  FoldLeft(Step, <<>>, request.messages)

\* What a result of the provider's names its call by.
Key(p) == CASE provider \in {"gemini", "gemini-cli"} -> p.name
            [] provider = "antigravity" -> <<p.name, p.id>>
            [] OTHER -> p.id

\* The results answer the calls: of those with a key, the i-th the i-th.
Answer(results, calls) ==
    \A key \in {Key(p) : p \in ToSet(results \o calls)} :
        LET Keyed(parts) == SelectSeq(parts, LAMBDA p : Key(p) = key)
        IN  /\ Len(Keyed(results)) = Len(Keyed(calls))
            /\ \A i \in DOMAIN Keyed(calls) : Keyed(results)[i].call = Keyed(calls)[i].n

AnswerInGroups ==
    LET groups == Grouped
        Calls(i) == IF i \in DOMAIN groups THEN OfKind("call", groups[i].parts) ELSE <<>>
        ResultsIn(i) == IF i \in DOMAIN groups THEN OfKind("result", groups[i].parts) ELSE <<>>
    IN  \A i \in 0..Len(groups) : Answer(ResultsIn(i + 1), Calls(i))

\* Of Codex's items with an id, calls and outputs take turns.
AnswerInTurn ==
    LET parts == SelectSeq(AllParts(request.messages), LAMBDA p : p.kind \in {"call", "result"})
    IN  \A id \in {p.id : p \in ToSet(parts)} :
            LET keyed == SelectSeq(parts, LAMBDA p : p.id = id)
            IN  /\ Len(keyed) % 2 = 0
                /\ \A i \in DOMAIN keyed : i % 2 = 1 =>
                       /\ keyed[i].kind = "call" /\ keyed[i + 1].kind = "result"
                       /\ keyed[i + 1].call = keyed[i].n

(* Every result reaches the provider as the answer to its own call: the      *)
(* messages that follow the calls have exactly their results, under the ids *)
(* or names by which this provider pairs them (the pairing by id, name or   *)
(* position in each translator).                                            *)
ResultsAnswerCalls ==
    ~Troubled(ResultTroubles) => IF provider = "codex" THEN AnswerInTurn ELSE AnswerInGroups

Roles ==
    CASE provider \in GeminiFamily -> {"user", "model", "function", "system", "system_instruction", "systemInstruction"}
      [] provider = "claude" -> {"user", "assistant"}
      [] provider = "openai" -> {"system", "developer", "user", "assistant", "tool"}
      [] provider = "codex" -> {"developer", "user", "assistant", "tool"}

Speech(messages, left) ==
    LET Parts(m) == SelectSeq(m.parts, LAMBDA p : p.kind # "result" /\ p.kind \notin left)
        By(m) == m.role \in {"assistant", "model"}
        Spoken(m) == [i \in DOMAIN Parts(m) |-> <<Parts(m)[i].kind, Parts(m)[i].n, By(m)>>]
    IN  FlattenSeq([i \in DOMAIN messages |-> Spoken(messages[i])])

(* What was said arrives, once and in order, from the same side, in a role  *)
(* the provider has; only the kinds in LeftOut are lost.                    *)
NothingUnsaid ==
    ~Troubled(SpeechTroubles) =>
        /\ Speech(request.messages, {}) = Speech(talk, LeftOut)
        /\ \A i \in DOMAIN request.messages : request.messages[i].role \in Roles

(* The tools arrive under names that differ and that lead back to the       *)
(* client's, and every call names one of them (buildShortNameMap and the    *)
(* converters of the declarations).                                         *)
ToolsRecognized ==
    ~Troubled(ToolTroubles) =>
        LET Real(tools) == SelectSeq(tools, LAMBDA t : t.type # "builtin")
            ToolNames(tools) == [i \in DOMAIN Real(tools) |-> Real(tools)[i].name]
            reverse == buildReverseMap(Real(Tools))
            Original(name) == IF provider = "codex" /\ name \in DOMAIN reverse THEN reverse[name] ELSE name
            calls == OfKind("call", AllParts(request.messages))
        IN  /\ IsInjective(ToolNames(request.tools))
            /\ [i \in DOMAIN ToolNames(request.tools) |-> Original(ToolNames(request.tools)[i])] = ToolNames(Tools)
            /\ \A c \in ToSet(calls) : \E p \in ToSet(AllParts(talk)) :
                    p.n = c.n /\ Original(c.name) = p.name /\ c.name \in ToSet(ToolNames(request.tools))

(* What is sent to a provider carries the conversation: results answer      *)
(* their calls, nothing is unsaid, the tools are recognized; except for what *)
(* the tables above name, each entry of which is a trouble the code has.    *)
RequestsCarried ==
    request # None => ResultsAnswerCalls /\ NothingUnsaid /\ ToolsRecognized

(* Conversations are in the client's format and within the bounds; a request *)
(* has messages and tools.                                                  *)
TypeOK ==
    /\ <<client, provider>> \in Registered /\ habit \in Habits(client, provider)
    /\ Len(talk) <= MaxTurns /\ CallsMade <= MaxCalls
    /\ \A p \in ToSet(AllParts(talk)) : p.kind \in {"text", "image", "thought", "unsigned", "call", "result"}
    /\ request # None => DOMAIN request = {"messages", "tools"}

Spec == Init /\ [][Next]_vars
=============================================================================
