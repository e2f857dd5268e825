---------------------------- MODULE ToolHistory ----------------------------
(***************************************************************************)
(* One collection of the local usage history (usagehistory): Collect runs  *)
(* the ccusage tool three times, first for its version, then for the daily *)
(* and the block report at once, each time in a process group of its own   *)
(* with a budget of output bytes and under the collection's deadline       *)
(* (runner_unix.go).                                                       *)
(*                                                                         *)
(* A tool is the child that was started and, when bunx started the real    *)
(* tool, a descendant that shares its pipes and its process group.  Wait   *)
(* returns when the child is reaped and both pipe copies have seen the end *)
(* of file, that is, when no process holds the pipes.  SIGKILL takes       *)
(* effect some time after it is sent.                                      *)
(***************************************************************************)
EXTENDS UsageRows

CONSTANTS Versions,       \* releases of the tool, numbers
          MaxOutput,      \* bytes of output one run may produce
          MaxWrite,       \* the longest single write of a tool
          DailyDocs,      \* what the daily report may print
          BlockDocs,      \* what the block report may print
          Since, Until    \* the requested dates

ASSUME HistoryAssumption ==
  Versions \subseteq Nat /\ MaxOutput \in Nat \ {0} /\ MaxWrite \in Nat \ {0}

ASSUME DocsAssumption ==
  /\ DailyDocs \subseteq rawDailyReport
  /\ \A doc \in BlockDocs : \A block \in ToSet(doc) : IsFiniteSet(block.models)

Balance == [available |-> TRUE, currency |-> "USD", amount |-> 1]
Sections == {"version", "daily", "blocks"}
Reports == {"daily", "blocks"}
Modes == {"native", "bunx_latest", "bunx_fixed"}

VARIABLES
  mode,        \* how the collector was configured to start the tool
  installed,   \* the release the registry, or the installed binary, has now
  expired,     \* the collection's context is done
  collecting,  \* where Collect is
  configDir,   \* the private directory of the tool's configuration exists
  running,     \* per section: where processRunner.Run is, and its verdict
  tool,        \* per section: the processes and their output
  history      \* the report Collect built, and the daily text it was built from

historyVars == <<mode, installed, expired, collecting, configDir, running, tool, history>>

NotStarted == [child |-> "none", helper |-> "none", release |-> 0, failed |-> FALSE,
               left |-> MaxOutput, exceeded |-> FALSE, cut |-> FALSE]
NotRun == [at |-> "idle", verdict |-> "none"]
NoHistory == [version |-> 0, issues |-> {}, daily |-> {}, blocks |-> {}, printed |-> None]

HistoryInit ==
  /\ mode \in Modes
  /\ installed = 1
  /\ expired = FALSE
  /\ collecting = "start"
  /\ configDir = FALSE
  /\ running = [s \in Sections |-> NotRun]
  /\ tool = [s \in Sections |-> NotStarted]
  /\ history = NoHistory

---------------------------------------------------------------------------
(* The tool's processes. *)

Up(s) == "up" \in {tool[s].child, tool[s].helper}
Live(s) == {tool[s].child, tool[s].helper} \cap {"up", "killed"} # {}
Waited(s) == ~Live(s)

ToolChanges(s, t) ==
  /\ tool' = [tool EXCEPT ![s] = t]
  /\ UNCHANGED <<mode, installed, expired, collecting, configDir, running, history>>

(* boundedWriter.Write: both pipes draw on one budget, what does not fit   *)
(* is dropped, and the writer is never told.                               *)
boundedWrite(t, n, stdout) ==
  [t EXCEPT !.left = IF n > @ THEN 0 ELSE @ - n,
            !.exceeded = @ \/ n > t.left,
            !.cut = @ \/ (stdout /\ n > t.left)]

ToolWrites(s) == \E n \in 1 .. MaxWrite, stdout \in BOOLEAN :
  Up(s) /\ ToolChanges(s, boundedWrite(tool[s], n, stdout))

ToolForks(s) ==
  /\ tool[s].child = "up" /\ tool[s].helper = "none"
  /\ ToolChanges(s, [tool[s] EXCEPT !.helper = "up"])

ToolExits(s) == \E failed \in BOOLEAN :
  tool[s].child = "up" /\ ToolChanges(s, [tool[s] EXCEPT !.child = "gone", !.failed = failed])

HelperExits(s) ==
  tool[s].helper = "up" /\ ToolChanges(s, [tool[s] EXCEPT !.helper = "gone"])

ToolDies(s) ==
  "killed" \in {tool[s].child, tool[s].helper}
  /\ ToolChanges(s, [tool[s] EXCEPT !.child = IF @ = "killed" THEN "gone" ELSE @,
                                    !.helper = IF @ = "killed" THEN "gone" ELSE @])

(* A kill of the child alone, as exec.CommandContext does it. *)
killProcessGroup_Child(t) == [t EXCEPT !.child = IF @ = "up" THEN "killed" ELSE @]

killProcessGroup(t) ==
  [t EXCEPT !.child = IF @ = "up" THEN "killed" ELSE @,
            !.helper = IF @ = "up" THEN "killed" ELSE @]

(* The deadline passes or the caller leaves; a new release appears. *)
HistoryDeadline ==
  /\ ~expired /\ collecting \notin {"start", "returned"}
  /\ expired' = TRUE
  /\ UNCHANGED <<mode, installed, collecting, configDir, running, tool, history>>

Release ==
  /\ collecting # "returned" /\ mode # "bunx_fixed"
  /\ installed + 1 \in Versions
  /\ installed' = installed + 1
  /\ UNCHANGED <<mode, expired, collecting, configDir, running, tool, history>>

---------------------------------------------------------------------------
(* processRunner.Run. *)

Verdict(s, at, verdict) == running' = [running EXCEPT ![s] = [at |-> at, verdict |-> verdict]]

(* The version a run gets: the package argument names a release or, for    *)
(* the version run of an unpinned package, whatever is the latest.  Once   *)
(* the version is known both reports are pinned to it.                     *)
reportPackageArg(s) ==
  CASE mode = "native" -> installed
    [] mode = "bunx_fixed" -> 1
    [] OTHER -> IF s = "version" THEN installed ELSE history.version

Start(s) ==
  /\ running[s].at = "idle"
  /\ collecting = IF s = "version" THEN "version" ELSE "reports"
  /\ \/ /\ expired
        /\ Verdict(s, "back", "canceled")
        /\ UNCHANGED tool
     \/ /\ ~expired
        /\ Verdict(s, "back", "start")
        /\ UNCHANGED tool
     \/ /\ ~expired
        /\ Verdict(s, "select", "none")
        /\ tool' = [tool EXCEPT ![s].child = "up", ![s].release = reportPackageArg(s)]
  /\ UNCHANGED <<mode, installed, expired, collecting, configDir, history>>

Kept == UNCHANGED <<mode, installed, expired, collecting, configDir, history>>

(* Of a run that is over only the release and whether its output was cut   *)
(* are remembered, for the properties.                                     *)
Forgotten(t) == [NotStarted EXCEPT !.release = t.release, !.cut = t.cut]

(* The exit decides alone: wasExceeded is not asked. *)
exitVerdict_ExitOnly(t) == IF t.failed THEN "exit" ELSE "ok"

exitVerdict(t) ==
  IF t.exceeded THEN "output_limit" ELSE IF t.failed THEN "exit" ELSE "ok"

SelectDone(s) ==
  /\ running[s].at = "select" /\ Waited(s)
  /\ Verdict(s, "back", exitVerdict(tool[s]))
  /\ tool' = [tool EXCEPT ![s] = Forgotten(@)]
  /\ Kept

SelectCanceled(s) ==
  /\ running[s].at = "select" /\ expired
  /\ Verdict(s, "killed", "canceled")
  /\ tool' = [tool EXCEPT ![s] = killProcessGroup(@)]
  /\ Kept

SelectExceeded(s) ==
  /\ running[s].at = "select" /\ tool[s].exceeded
  /\ Verdict(s, "killed", "output_limit")
  /\ tool' = [tool EXCEPT ![s] = killProcessGroup(@)]
  /\ Kept

(* A run that has killed its tool does not wait for it. *)
AwaitDone_Skipped(s) ==
  /\ running[s].at = "killed"
  /\ Verdict(s, "back", running[s].verdict)
  /\ Kept /\ UNCHANGED tool

AwaitDone(s) ==
  /\ running[s].at = "killed" /\ Waited(s)
  /\ Verdict(s, "back", running[s].verdict)
  /\ tool' = [tool EXCEPT ![s] = Forgotten(@)]
  /\ Kept

---------------------------------------------------------------------------
(* Collector.Collect. *)

Returns(h) ==
  /\ collecting' = "returned"
  /\ configDir' = FALSE
  /\ history' = h
  /\ UNCHANGED <<mode, installed, expired, running, tool>>

issueFrom(section, kind) == [section |-> section, kind |-> kind]

(* An ended context is a timeout or a cancellation by its cause. *)
classifyError(section, verdict) ==
  issueFrom(section, CASE verdict = "output_limit" -> "output_limit"
                       [] verdict = "canceled" -> "timeout_or_canceled"
                       [] OTHER -> "command_failed")

Begin ==
  /\ collecting = "start"
  /\ \/ Returns([NoHistory EXCEPT !.issues = {issueFrom("request", "invalid_request")}])
     \/ Returns([NoHistory EXCEPT !.issues = {issueFrom("setup", "command_failed")}])
     \/ /\ collecting' = "version"
        /\ configDir' = TRUE
        /\ UNCHANGED <<mode, installed, expired, running, tool, history>>

VersionKnown ==
  /\ collecting = "version" /\ running["version"].at = "back"
  /\ \/ /\ running["version"].verdict # "ok"
        /\ Returns([NoHistory EXCEPT !.issues =
                      {classifyError("version", running["version"].verdict)}])
     \/ /\ running["version"].verdict = "ok"      \* not one semantic version
        /\ Returns([NoHistory EXCEPT !.issues = {issueFrom("version", "incompatible")}])
     \/ /\ running["version"].verdict = "ok"
        /\ history' = [history EXCEPT !.version = tool["version"].release]
        /\ collecting' = "reports"
        /\ UNCHANGED <<mode, installed, expired, configDir, running, tool>>

(* A section is its rows, or none of them and an issue that says why. *)
section(s, parsed) ==
  IF running[s].verdict # "ok" THEN [rows |-> {}, issues |-> {classifyError(s, running[s].verdict)}]
  ELSE IF parsed = None THEN [rows |-> {}, issues |-> {issueFrom(s, "incompatible")}]
  ELSE [rows |-> parsed, issues |-> {}]

(* What a section's run printed is only looked at when the run was good,   *)
(* and after both runs have returned.                                      *)
Printed(s, docs) == IF running[s].verdict = "ok" THEN docs ELSE {CHOOSE d \in docs : TRUE}

Join ==
  /\ collecting = "reports"
  /\ \A s \in Reports : running[s].at = "back"
  /\ \E days \in Printed("daily", DailyDocs), blocks \in Printed("blocks", BlockDocs) :
       LET d == section("daily", parseDaily(days, Since, Until))
           b == section("blocks", parseBlocks(blocks))
       IN  Returns([version |-> history.version, issues |-> d.issues \cup b.issues,
                    daily |-> d.rows, blocks |-> b.rows, printed |-> days])

HistoryNext ==
  \/ Begin \/ VersionKnown \/ Join \/ HistoryDeadline \/ Release
  \/ \E s \in Sections :
       \/ Start(s) \/ SelectDone(s) \/ SelectCanceled(s) \/ SelectExceeded(s)
       \/ AwaitDone(s) \/ ToolWrites(s) \/ ToolForks(s) \/ ToolExits(s)
       \/ HelperExits(s) \/ ToolDies(s)

(* The goroutines run, the deadline passes, and a killed process dies.     *)
(* Nothing makes a tool exit or stop printing.                             *)
HistoryFairness ==
  /\ WF_historyVars(Begin \/ VersionKnown \/ Join) /\ WF_historyVars(HistoryDeadline)
  /\ \A s \in Sections :
       /\ WF_historyVars(Start(s) \/ SelectDone(s) \/ SelectCanceled(s) \/ SelectExceeded(s))
       /\ WF_historyVars(AwaitDone(s)) /\ WF_historyVars(ToolDies(s))

---------------------------------------------------------------------------
(* PROPERTIES *)

(* No process of a tool outlives the private directory it was given, and   *)
(* none is left when Collect returns: every way out of processRunner.Run   *)
(* that killed the tool waits for it (runner_unix.go, Collect's RemoveAll).*)
ToolsGone == ~configDir => \A s \in Sections : ~Live(s)

(* A section the report presents was printed in full, by the very release  *)
(* whose version the report names when the tool comes from the registry:   *)
(* the output limit, the exit and the deadline may race, and a release may *)
(* appear between the three runs.                                          *)
SectionsTrue ==
  collecting = "returned" =>
    \A s \in Reports :
      (running[s].verdict = "ok" /\ running["version"].verdict = "ok") =>
        /\ ~tool[s].cut
        /\ mode # "native" => tool[s].release = tool["version"].release

(* The tokens of the daily report are all accounted for, each under one    *)
(* leg or as unattributed, although aggregateModels adds without a check   *)
(* for overflow; a cost, and an estimate of what a balance still buys, is  *)
(* stated only where nothing went unpriced; a block that more than one     *)
(* provider's section shows says so.                                       *)
HistoryAccounts ==
  (collecting = "returned" /\ history.daily # {}) =>
    LET Shown(id) == aggregateModels(history.daily, id, Since, Until)
        shown == UNION {Shown(id) : id \in Legs \cup {"unknown"}}
        Priced(source, model) ==
          \A e \in ToSet(Entries(history.printed)) :
            (e.source = source /\ e.model = model /\ e.tokens > 0) => e.cost > 0
    IN  /\ Total(shown, LAMBDA r : r.tokens) = history.printed.total
        /\ \A r \in shown : r.cost # None => Priced(r.source, r.model)
        /\ \A r \in Shown("deepseek"), e \in estimateDeepSeek(Balance, Shown("deepseek")) :
             (e.model = r.model /\ e.left # None) => Priced(r.source, r.model)
        /\ \A b \in history.blocks :
             Cardinality({id \in Legs : b \in filterBlocks(history.blocks, id)}) > 1 => b.mixed
===========================================================================
