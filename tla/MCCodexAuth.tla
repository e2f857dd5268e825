---------------------------- MODULE MCCodexAuth ----------------------------
(* CodexAuth with two concurrent requests. *)
EXTENDS CodexAuth, TLC

CONSTANTS c1, c2, a1, a2

Symmetry == Permutations(Callers)
=============================================================================
