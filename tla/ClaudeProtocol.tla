---------------------------- MODULE ClaudeProtocol ----------------------------
(***************************************************************************)
(* What a client of the Claude API may be told while an answer streams:    *)
(* the message starts once, its content blocks are numbered in the order   *)
(* they start, a delta or a stop names a block that is open, the reason it *)
(* ended is told when every block is closed, and its end comes last.  The  *)
(* translators of the provider formats implement it (ClaudeStream).        *)
(***************************************************************************)
EXTENDS Naturals

VARIABLES
    phase,    \* "before" the message, "open", "ending" (its reason is told), "ended"
    blocks,   \* how many content blocks have started
    open,     \* those of them not stopped
    told,     \* how many events the client was told
    last,     \* the last of them
    several   \* whether blocks may be open at the same time

protocol == <<phase, blocks, open, told, last, several>>

(* An event; index is the block's, where the event is about one. *)
Event(type, i) == [type |-> type, index |-> i]

Init ==
    /\ phase = "before" /\ blocks = 0 /\ open = {} /\ told = 0
    /\ last = Event("none", 0)
    /\ several \in BOOLEAN

Tell(type, i) ==
    /\ told' = told + 1
    /\ last' = Event(type, i)
    /\ UNCHANGED several

MessageStart ==
    /\ phase = "before" /\ phase' = "open"
    /\ Tell("message_start", 0) /\ UNCHANGED <<blocks, open>>

BlockStart ==
    /\ phase = "open"
    /\ several \/ open = {}
    /\ blocks' = blocks + 1
    /\ open' = open \cup {blocks}
    /\ Tell("content_block_start", blocks) /\ UNCHANGED phase

BlockDelta(i) ==
    /\ phase = "open" /\ i \in open
    /\ Tell("content_block_delta", i) /\ UNCHANGED <<phase, blocks, open>>

BlockStop(i) ==
    /\ phase = "open" /\ i \in open
    /\ open' = open \ {i}
    /\ Tell("content_block_stop", i) /\ UNCHANGED <<phase, blocks>>

MessageDelta ==
    /\ phase = "open" /\ open = {} /\ phase' = "ending"
    /\ Tell("message_delta", 0) /\ UNCHANGED <<blocks, open>>

MessageStop ==
    /\ phase = "ending" /\ phase' = "ended"
    /\ Tell("message_stop", 0) /\ UNCHANGED <<blocks, open>>

Next ==
    \/ MessageStart \/ BlockStart \/ MessageDelta \/ MessageStop
    \/ \E i \in open : BlockDelta(i) \/ BlockStop(i)

Spec == Init /\ [][Next]_protocol
=============================================================================
