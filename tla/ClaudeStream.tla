----------------------------- MODULE ClaudeStream -----------------------------
(***************************************************************************)
(* The answer of a provider, translated chunk by chunk into the events of  *)
(* the Claude API (internal/translator/<provider>/claude).  A translator   *)
(* is a state machine: what it remembers between two chunks is in "param", *)
(* and the events a chunk yields go to the client one after the other.     *)
(* Texts, arguments and token counts are left out; which blocks they go to *)
(* is kept.                                                                *)
(*                                                                         *)
(* The provider sends any chunks its grammar allows.  "Assume" names what  *)
(* is believed of it besides:                                              *)
(*   named_once      a tool is named in the first chunk about it and in no *)
(*                   other (openai)                                        *)
(*   one_usage       at most one chunk tells the usage (openai)            *)
(*   counted         the last chunk counts the tokens (gemini, gemini-cli) *)
(*   unbroken        the stream has its last chunk (gemini, gemini-cli)    *)
(*   no_empty_text   a text part before the last chunk is not empty        *)
(*                   (antigravity)                                         *)
(*   signed_thoughts a signature follows the thinking it signs             *)
(*                   (antigravity)                                         *)
(***************************************************************************)
EXTENDS Integers, Sequences, SequencesExt

CONSTANTS
    Providers,  \* the formats translated from: "openai", "codex", "gemini", ...
    Assume,     \* see above
    Tools,      \* indexes of the tool calls of an answer (openai)
    MaxChunks   \* chunks of an answer (bound)

VARIABLES
    from,    \* the provider's format
    param,   \* what its translator remembers
    fed,     \* chunks translated so far
    stage,   \* of the provider's stream: "streaming", "last" chunk sent, "done"
    item,    \* the output item the provider is sending (codex)
    out,     \* events translated and not sent to the client yet
    client   \* what the client was told

stream == <<from, param, fed, stage, item, out, client>>

Absent == -1

Event(type, i) == [type |-> type, index |-> i]

-----------------------------------------------------------------------------
(* The translator at work: its param, and the events of this chunk so far. *)

Work == [p |-> param, out |-> <<>>]

Emit(w, type, i) == [w EXCEPT !.out = Append(@, Event(type, i))]

StopBlockKept(w, kind) ==  \* mutant: the block is stopped and not forgotten
    IF w.p[kind] = Absent THEN w ELSE Emit(w, "content_block_stop", w.p[kind])

(* openai: a thinking or text block has the index under its name, if open. *)
StopBlock(w, kind) ==
    IF w.p[kind] = Absent THEN w
    ELSE [Emit(w, "content_block_stop", w.p[kind]) EXCEPT !.p[kind] = Absent]

BeginBlock(w, kind) ==
    IF w.p[kind] # Absent THEN w
    ELSE [Emit(w, "content_block_start", w.p.next) EXCEPT !.p[kind] = w.p.next, !.p.next = @ + 1]

Reasoning(w) ==
    LET b == BeginBlock(StopBlock(w, "text"), "thinking")
    IN  Emit(b, "content_block_delta", b.p.thinking)

Content(w) ==
    LET b == IF w.p.text # Absent THEN w ELSE BeginBlock(StopBlock(w, "thinking"), "text")
    IN  Emit(b, "content_block_delta", b.p.text)

ToolBlock(w, t) ==
    IF w.p.tool[t] # Absent THEN w
    ELSE [w EXCEPT !.p.tool[t] = w.p.next, !.p.next = @ + 1]

ToolCall(w, call) ==
    LET b == ToolBlock(w, call.tool)
        n == IF ~call.named THEN b
             ELSE Emit(StopBlock(StopBlock(b, "thinking"), "text"),
                       "content_block_start", b.p.tool[call.tool])
    IN  [n EXCEPT !.p.seen = @ \cup {call.tool},
                  !.p.args = IF call.args THEN @ \cup {call.tool} ELSE @]

CloseTool(w, t) ==
    LET b == ToolBlock(w, t)
        a == IF t \in b.p.args THEN Emit(b, "content_block_delta", b.p.tool[t]) ELSE b
    IN  [Emit(a, "content_block_stop", b.p.tool[t]) EXCEPT !.p.tool[t] = Absent]

(* The tool calls are closed once, in the order of a Go map. *)
CloseAll(w, order) ==
    LET b == StopBlock(StopBlock(w, "thinking"), "text")
    IN  IF b.p.stopped THEN b ELSE [FoldLeft(CloseTool, b, order) EXCEPT !.p.stopped = TRUE]

TellReason(w) == [Emit(w, "message_delta", 0) EXCEPT !.p.deltaSent = TRUE]

MessageStopOnce(w) ==
    IF w.p.stopSent THEN w ELSE [Emit(w, "message_stop", 0) EXCEPT !.p.stopSent = TRUE]

-----------------------------------------------------------------------------
(* gemini, gemini-cli and antigravity: one block at a time, of p.type, with  *)
(* p.index.                                                                  *)

Close(w) ==
    IF w.p.type = "none" THEN w
    ELSE [Emit(w, "content_block_stop", w.p.index) EXCEPT !.p.index = @ + 1]

Delta(w) == [Emit(w, "content_block_delta", w.p.index) EXCEPT !.p.content = TRUE]

Open(w, type) ==
    LET c == Close(w)
    IN  [Emit(c, "content_block_start", c.p.index) EXCEPT !.p.type = type, !.p.content = TRUE]

Thought(w, signed) ==
    IF (from = "antigravity" /\ signed) \/ w.p.type = "thinking" THEN Delta(w)
    ELSE Delta(Open(w, "thinking"))

(* antigravity: an empty text closes the block and leaves the type. *)
Text(w, empty, last) ==
    CASE from = "antigravity" /\ empty /\ last -> w
      [] w.p.type = "text" -> Delta(w)
      [] from = "antigravity" /\ empty -> Close(w)
      [] OTHER -> Delta(Open(w, "text"))

Call(w, named, args) ==
    LET b == IF from = "gemini" /\ w.p.type = "call" /\ ~named THEN w ELSE Open(w, "call")
    IN  IF args THEN Delta(b) ELSE b

Part(w, part, last) ==
    CASE part = "none" -> w
      [] part \in {"thought", "signature"} -> Thought(w, part = "signature")
      [] part \in {"text", "empty_text"} -> Text(w, part = "empty_text", last)
      [] part \in {"call", "call_args", "more_args"} ->
            Call(w, part # "more_args", part # "call")

(* antigravity: the final events, once; "force" is the end of the stream.    *)
AppendFinalEvents(w, force) ==
    IF w.p.final \/ ~w.p.content \/ (~w.p.usage /\ ~force) THEN w
    ELSE LET c == IF w.p.type = "none" THEN w
                  ELSE [Emit(w, "content_block_stop", w.p.index) EXCEPT !.p.type = "none"]
         IN  [Emit(c, "message_delta", 0) EXCEPT !.p.final = TRUE]

FirstResponse(w) ==
    IF w.p.first THEN w ELSE [Emit(w, "message_start", 0) EXCEPT !.p.first = TRUE]

-----------------------------------------------------------------------------
NewParam(f) ==
    CASE f = "openai" ->
            [first |-> FALSE, thinking |-> Absent, text |-> Absent, next |-> 0,
             tool |-> [t \in Tools |-> Absent], seen |-> {}, args |-> {}, reason |-> FALSE,
             stopped |-> FALSE, deltaSent |-> FALSE, stopSent |-> FALSE]
      [] f = "codex" -> [index |-> 0, gotArgs |-> FALSE]
      [] OTHER ->
            [first |-> FALSE, type |-> "none", index |-> 0, content |-> FALSE,
             finish |-> FALSE, usage |-> FALSE, final |-> FALSE]

Init ==
    /\ from \in Providers
    /\ param = NewParam(from)
    /\ fed = 0 /\ stage = "streaming" /\ item = "none" /\ out = <<>>
    /\ client = [phase |-> "before", blocks |-> 0, open |-> {}, told |-> 0,
                 last |-> Event("none", 0)]

(* A chunk is translated when the events of the one before it were sent. *)
Translate(w) == out = <<>> /\ param' = w.p /\ out' = w.out /\ UNCHANGED <<from, client>>

Feed(w) == fed < MaxChunks /\ fed' = fed + 1 /\ Translate(w)

When(condition, w, then) == IF condition THEN then ELSE w

(* One tool call of a chunk at most: a chunk with more is as several chunks. *)
Calls ==
    {<<>>} \cup {<<[tool |-> t, named |-> n, args |-> a]>> : t \in Tools, n \in BOOLEAN, a \in BOOLEAN}

(* A chunk's reasoning, content and tool calls, in this order, whichever has *)
(* some; then its finish reason, if any, and its usage.                      *)
OpenAIChunk ==
    /\ from = "openai" /\ stage # "done"
    /\ \E reasoning, content, finish, usage \in BOOLEAN, calls \in Calls :
       \E order \in SetToSeqs(param.seen \cup {calls[k].tool : k \in DOMAIN calls}) :
          /\ stage = "last" => ~reasoning /\ ~content /\ ~finish /\ calls = <<>> /\ usage
          /\ \A k \in DOMAIN calls :
                "named_once" \in Assume => calls[k].named = (calls[k].tool \notin param.seen)
          /\ usage /\ "one_usage" \in Assume => ~param.deltaSent
          /\ LET a == FirstResponse(Work)
                 b == When(reasoning, a, Reasoning(a))
                 c == When(content, b, Content(b))
                 d == FoldLeft(ToolCall, c, calls)
                 e == When(finish, d, CloseAll([d EXCEPT !.p.reason = TRUE], order))
             IN  Feed(When(usage /\ e.p.reason, e, MessageStopOnce(TellReason(e))))
          /\ stage' = IF finish THEN "last" ELSE stage
    /\ UNCHANGED item

(* "data: [DONE]" of the provider, after its finish reason. *)
OpenAIDone ==
    /\ from = "openai" /\ stage = "last" /\ stage' = "done"
    /\ \E order \in SetToSeqs(param.seen) :
          LET w == CloseAll(Work, order)
          IN  Translate(MessageStopOnce(When(w.p.reason /\ ~w.p.deltaSent, w, TellReason(w))))
    /\ UNCHANGED <<fed, item>>

Parts == {"none", "thought", "signature", "text", "empty_text", "call", "call_args", "more_args"}

(* What antigravity is believed to send (the others have nothing to assume). *)
Believed(part, last) ==
    from = "antigravity" =>
        /\ part = "empty_text" /\ ~last => "no_empty_text" \notin Assume
        /\ part = "signature" /\ "signed_thoughts" \in Assume => param.type = "thinking"

(* Usage reaches the translator with the finish reason or not at all. *)
GeminiChunk ==
    /\ from \in {"gemini", "gemini-cli"} /\ stage = "streaming"
    /\ \E part \in Parts, last \in BOOLEAN, counted \in BOOLEAN :
          /\ last /\ "counted" \in Assume => counted
          /\ LET w == Part(FirstResponse(Work), part, last)
             IN  Feed(When(last /\ counted /\ w.p.content, w,
                           Emit(Emit(w, "content_block_stop", w.p.index), "message_delta", 0)))
          /\ stage' = IF last THEN "last" ELSE stage
    /\ UNCHANGED item

(* The usage of antigravity may follow in a chunk of its own. *)
AntigravityChunk ==
    /\ from = "antigravity" /\ stage # "done"
    /\ \E part \in Parts, last, usage \in BOOLEAN :
          /\ Believed(part, last)
          /\ usage => last \/ param.finish
          /\ stage = "last" => part = "none" /\ usage
          /\ LET b == Part(FirstResponse(Work), part, last)
                 c == [b EXCEPT !.p.finish = @ \/ last, !.p.usage = @ \/ usage]
             IN  Feed(When(c.p.finish /\ c.p.usage, c, AppendFinalEvents(c, FALSE)))
          /\ stage' = IF last THEN "last" ELSE stage
    /\ UNCHANGED item

(* The executors translate "[DONE]" when the body ends, however it ends; an  *)
(* error of the body is told after it.                                       *)
GeminiDone ==
    /\ from \in {"gemini", "gemini-cli", "antigravity"} /\ stage # "done" /\ stage' = "done"
    /\ from # "antigravity" /\ "unbroken" \in Assume => stage = "last"
    /\ LET w == When(from = "antigravity", Work, AppendFinalEvents(Work, TRUE))
       IN  Translate(When(param.content, Work, Emit(w, "message_stop", 0)))
    /\ UNCHANGED <<fed, item>>

-----------------------------------------------------------------------------
(* codex: output items come one at a time; a part of one, or a function      *)
(* call, is a block.                                                         *)

CodexCreated ==
    /\ from = "codex" /\ stage = "streaming" /\ item = "none" /\ fed = 0
    /\ item' = "between" /\ Feed(Emit(Work, "message_start", 0))
    /\ UNCHANGED stage

CodexPartAdded ==
    /\ from = "codex" /\ item = "between" /\ item' = "part"
    /\ Feed(Emit(Work, "content_block_start", param.index))
    /\ UNCHANGED stage

CodexCallAdded ==
    /\ from = "codex" /\ item = "between" /\ item' = "call"
    /\ LET w == Emit(Emit(Work, "content_block_start", param.index),
                     "content_block_delta", param.index)
       IN  Feed([w EXCEPT !.p.gotArgs = FALSE])
    /\ UNCHANGED stage

CodexDelta ==
    /\ from = "codex" /\ item \in {"part", "call"}
    /\ Feed([Emit(Work, "content_block_delta", param.index)
                EXCEPT !.p.gotArgs = @ \/ item = "call"])
    /\ UNCHANGED <<item, stage>>

(* The arguments as a whole are told only if no delta told a piece of them. *)
CodexArguments ==
    /\ from = "codex" /\ item = "call" /\ item' = "arguments"
    /\ Feed(When(~param.gotArgs, Work, Emit(Work, "content_block_delta", param.index)))
    /\ UNCHANGED stage

CodexItemDone ==
    /\ from = "codex" /\ item \in {"part", "call", "arguments"} /\ item' = "between"
    /\ Feed([Emit(Work, "content_block_stop", param.index) EXCEPT !.p.index = @ + 1])
    /\ UNCHANGED stage

CodexCompleted ==
    /\ from = "codex" /\ item = "between" /\ item' = "none" /\ stage' = "done"
    /\ Translate(Emit(Emit(Work, "message_delta", 0), "message_stop", 0))
    /\ UNCHANGED fed

-----------------------------------------------------------------------------
(* The executor sends an event to the client, which keeps its own books. *)
Deliver ==
    /\ out # <<>> /\ out' = Tail(out)
    /\ LET e == Head(out)
       IN  client' =
            [phase |-> CASE e.type = "message_start" -> "open"
                         [] e.type = "message_delta" -> "ending"
                         [] e.type = "message_stop" -> "ended"
                         [] OTHER -> client.phase,
             blocks |-> IF e.type = "content_block_start" THEN e.index + 1 ELSE client.blocks,
             open |-> CASE e.type = "content_block_start" -> client.open \cup {e.index}
                        [] e.type = "content_block_stop" -> client.open \ {e.index}
                        [] OTHER -> client.open,
             told |-> client.told + 1,
             last |-> e]
    /\ UNCHANGED <<from, param, fed, stage, item>>

Codex ==
    \/ CodexCreated \/ CodexPartAdded \/ CodexCallAdded \/ CodexDelta \/ CodexArguments
    \/ CodexItemDone \/ CodexCompleted

Next ==
    \/ OpenAIChunk \/ OpenAIDone
    \/ GeminiChunk \/ AntigravityChunk \/ GeminiDone
    \/ Codex
    \/ Deliver

Spec == Init /\ [][Next]_stream

-----------------------------------------------------------------------------
(* The variables keep their types. *)
TypeOK ==
    /\ from \in Providers
    /\ fed \in 0..MaxChunks
    /\ stage \in {"streaming", "last", "done"}
    /\ item \in {"none", "between", "part", "call", "arguments"}
    /\ \A k \in DOMAIN out : out[k].index \in Nat
    /\ client.blocks \in Nat /\ client.open \subseteq Nat

(* What the client is told follows the Claude protocol, whatever provider    *)
(* the answer comes from and however its chunks are cut: the blocks of the   *)
(* translators, opened, closed and numbered by many branches, fit together.  *)
Protocol == INSTANCE ClaudeProtocol WITH
    phase <- client.phase, blocks <- client.blocks, open <- client.open,
    told <- client.told, last <- client.last, several <- from = "openai"

ProtocolKept == Protocol!Spec

(* When the provider's stream is over, the client was told of the end of the *)
(* message (or of no content at all): it does not wait for more.             *)
EndsProperly ==
    stage = "done" /\ out = <<>> =>
        \/ client.phase = "ended" /\ client.open = {}
        \/ client.blocks = 0
=============================================================================
