---------------------------- MODULE Subprocesses ----------------------------
(***************************************************************************)
(* The two readers that run programs: the local usage history, which runs  *)
(* the ccusage tool (ToolHistory), and the quota of a Codex account, which *)
(* is asked of an app-server (AppServer).  They share nothing but the      *)
(* report that starts them and waits for both.                             *)
(***************************************************************************)
EXTENDS ToolHistory, AppServer

(* No reader leaves anything behind: no process outlives the directory it  *)
(* was given, or the reader that started it, and no copy of its output.    *)
NothingLeftRunning == ToolsGone /\ ServerGone

(* No reader holds the collection up: although a tool that has printed its *)
(* last byte need not exit and the app-server owes no answer, the deadline *)
(* and the kill of the whole process group bring Collect and               *)
(* ReadCredential back, and the goroutines of the session end as well.     *)
ReadersReturn ==
  <>(/\ collecting = "returned"
     /\ quota.at = "returned" /\ writer # "blocked" /\ scanner.at \in {"none", "closed"})
=============================================================================
