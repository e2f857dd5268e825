------------------------------ MODULE MCTokens ------------------------------
(* The scan of Tokens alone, on strings long enough for two runs, a lead and *)
(* a contraction.                                                            *)
EXTENDS Tokens

MCTexts == UNION {[1..n -> {"a", "l", "m", "-", "'"}] : n \in 0..7}

Spec == TokensInit /\ [][TokensNext]_tokenVars
=============================================================================
