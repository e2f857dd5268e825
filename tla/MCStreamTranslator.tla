------------------------- MODULE MCStreamTranslator -------------------------
(* Instances of StreamTranslator for TLC. *)
EXTENDS StreamTranslator, TLC

CONSTANTS i1, i2, i3

\* Any frames in any order on two output indices: the kinds play no part.
AnyIdx == {i1, i2}
AnyKind == [i \in AnyIdx |-> "text"]

\* A text, a reasoning and a tool item, each with its events in order.
ThreeIdx == {i1, i2, i3}
ThreeKinds == (i1 :> "text") @@ (i2 :> "thinking") @@ (i3 :> "tool")
=============================================================================
