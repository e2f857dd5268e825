------------------------- MODULE MCProviderReport -------------------------
(* The provider report with two tokens and one account that comes and goes.*)
EXTENDS ProviderReport
===========================================================================
