------------------------------ MODULE MCDaemon ------------------------------
(* The daemon with two callers of the source, two counted clients and one *)
(* health poller.                                                          *)
EXTENDS Daemon

CONSTANTS c1, c2, a1, r1, r2, p1
=============================================================================
