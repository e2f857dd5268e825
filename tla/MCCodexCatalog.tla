--------------------------- MODULE MCCodexCatalog ---------------------------
(***************************************************************************)
(* CodexCatalog for TLC.                                                   *)
(***************************************************************************)
EXTENDS CodexCatalog
=============================================================================
