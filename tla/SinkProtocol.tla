---------------------------- MODULE SinkProtocol ----------------------------
(***************************************************************************)
(* What a stream.Sink is promised (translate/stream/sink.go): the calls a  *)
(* Translator makes form a well-formed Anthropic message stream.  Exactly  *)
(* one MessageStart comes first; blocks open one at a time, numbered from  *)
(* zero without gaps, and each is stopped before any terminus; the stream  *)
(* ends in exactly one of MessageStop and Error, or in nothing at all.     *)
(***************************************************************************)
EXTENDS Integers

VARIABLES
    call,    \* the last call the sink accepted: [op, index]
    phase,   \* "before", "body", "tail", then "clean", "errored" or "abandoned"
    block,   \* index of the open block, NoBlock when none is open
    next     \* index the next block must have

vars == <<call, phase, block, next>>

NoBlock == -1

Init ==
    /\ call = [op |-> "none", index |-> NoBlock]
    /\ phase = "before"
    /\ block = NoBlock
    /\ next = 0

Said(op, index) == call' = [op |-> op, index |-> index]

MessageStart ==
    /\ phase = "before"
    /\ phase' = "body" /\ Said("MessageStart", NoBlock)
    /\ UNCHANGED <<block, next>>

BlockStart ==
    /\ phase = "body" /\ block = NoBlock
    /\ block' = next /\ next' = next + 1 /\ Said("BlockStart", next)
    /\ UNCHANGED phase

BlockDelta ==
    /\ phase = "body" /\ block # NoBlock
    /\ Said("BlockDelta", block)
    /\ UNCHANGED <<phase, block, next>>

BlockStop ==
    /\ phase = "body" /\ block # NoBlock
    /\ block' = NoBlock /\ Said("BlockStop", block)
    /\ UNCHANGED <<phase, next>>

Ping ==
    /\ phase = "body"
    /\ Said("Ping", NoBlock)
    /\ UNCHANGED <<phase, block, next>>

MessageDelta ==
    /\ phase = "body" /\ block = NoBlock
    /\ phase' = "tail" /\ Said("MessageDelta", NoBlock)
    /\ UNCHANGED <<block, next>>

MessageStop ==
    /\ phase = "tail"
    /\ phase' = "clean" /\ Said("MessageStop", NoBlock)
    /\ UNCHANGED <<block, next>>

Error ==
    /\ phase = "body" /\ block = NoBlock
    /\ phase' = "errored" /\ Said("Error", NoBlock)
    /\ UNCHANGED <<block, next>>

\* A client interrupt, a failed write, or a failure before message_start.
Abandon ==
    /\ phase \in {"before", "body", "tail"}
    /\ phase' = "abandoned"
    /\ UNCHANGED <<call, block, next>>

Next ==
    \/ MessageStart \/ BlockStart \/ BlockDelta \/ BlockStop \/ Ping
    \/ MessageDelta \/ MessageStop \/ Error \/ Abandon

Spec == Init /\ [][Next]_vars
=============================================================================
