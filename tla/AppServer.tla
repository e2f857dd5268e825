----------------------------- MODULE AppServer -----------------------------
(***************************************************************************)
(* One read of the Codex quota (providerquota/codex.go): ReadCredential    *)
(* starts "codex app-server" in a process group and a directory of its     *)
(* own, makes four calls over its standard input and output, and takes     *)
(* everything down again whatever happened.                                *)
(*                                                                         *)
(* Beside the caller run the goroutine in cmd.Wait, which closes the pipes *)
(* once the child has exited, the copy of standard error, the scanner that *)
(* hands over one line at a time, and one goroutine per write.             *)
(***************************************************************************)
EXTENDS Naturals, Sequences

CONSTANT MaxLines    \* lines the server prints unasked, and in the pipe at once

ASSUME LinesAssumption == MaxLines \in Nat \ {0}

Calls == 1 .. 4        \* initialize, account/login/start, account/read, account/rateLimits/read

VARIABLES
  quota,      \* the caller: [at, call, result, used]
  ctxDone,    \* the read's context: its deadline, its caller, or too much on stderr
  rootDir,    \* the private home exists
  server,     \* the child: "none", "up", "killed", "gone"
  waited,     \* cmd.Wait has returned and closed the parent's ends of the pipes
  asked,      \* the last call whose request reached the server
  pipe,       \* lines the server printed that the scanner has not read
  scanner,    \* [at, line]: the goroutine of startJSONLines
  writer,     \* "none", "blocked", "done", "failed": the goroutine of the last write
  copier,     \* the copy of standard error: "none", "up", "done"
  extra,      \* how many lines nobody asked for were printed
  invalidated \* the credential was reported as refused

serverVars == <<quota, ctxDone, rootDir, server, waited, asked, pipe, scanner, writer,
                copier, extra, invalidated>>

NoLine == [kind |-> "none", id |-> 0, body |-> "none"]

ServerInit ==
  /\ quota = [at |-> "start", call |-> 0, result |-> "none", used |-> {}]
  /\ ctxDone = FALSE /\ rootDir = FALSE
  /\ server = "none" /\ waited = FALSE /\ asked = 0
  /\ pipe = <<>> /\ scanner = [at |-> "none", line |-> NoLine]
  /\ writer = "none" /\ copier = "none"
  /\ extra = 0 /\ invalidated = FALSE

---------------------------------------------------------------------------
(* The server process and its pipes. *)

(* An answer carries the id of its call; an answer to rateLimits/read      *)
(* names the account it is about, or none.                                 *)
TooLong == [kind |-> "long", id |-> 0, body |-> "none"]
Answer(id, body) == [kind |-> "answer", id |-> id, body |-> body]
Bodies(id) == {"error", "malformed", "good"} \cup (IF id = 4 THEN {"other_account"} ELSE {})
Unasked == {[kind |-> k, id |-> 0, body |-> "none"] : k \in {"notification", "refresh", "request", "garbage"}}
             \cup {TooLong, Answer(4, "good")}

Prints(line) ==
  /\ server = "up" /\ Len(pipe) < MaxLines
  /\ pipe' = Append(pipe, line)

ServerAnswers == \E body \in Bodies(asked) :
  /\ asked \in Calls
  /\ Prints(Answer(asked, body))
  /\ asked' = 0
  /\ UNCHANGED <<quota, ctxDone, rootDir, server, waited, scanner, writer, copier, extra, invalidated>>

ServerSpeaks == \E line \in Unasked :
  /\ extra < MaxLines
  /\ Prints(line)
  /\ extra' = extra + 1
  /\ UNCHANGED <<quota, ctxDone, rootDir, server, waited, asked, scanner, writer, copier, invalidated>>

ServerExits ==
  /\ server = "up" \/ server = "killed"
  /\ server' = "gone"
  /\ UNCHANGED <<quota, ctxDone, rootDir, waited, asked, pipe, scanner, writer, copier, extra, invalidated>>

(* cmd.Wait: the child is reaped and the parent's ends are closed, so what *)
(* the scanner had not buffered is lost and a blocked write fails.         *)
Wait ==
  /\ server = "gone" /\ ~waited
  /\ waited' = TRUE
  /\ \E n \in 0 .. Len(pipe) : pipe' = SubSeq(pipe, 1, n)
  /\ writer' = IF writer = "blocked" THEN "failed" ELSE writer
  /\ UNCHANGED <<quota, ctxDone, rootDir, server, asked, scanner, copier, extra, invalidated>>

(* boundedDiscard: too much on standard error cancels the read, once.      *)
StderrOverflows ==
  /\ copier = "up" /\ server = "up" /\ ~ctxDone
  /\ ctxDone' = TRUE
  /\ UNCHANGED <<quota, rootDir, server, waited, asked, pipe, scanner, writer, copier, extra, invalidated>>

StderrEnds ==
  /\ copier = "up" /\ server = "gone"
  /\ copier' = "done"
  /\ UNCHANGED <<quota, ctxDone, rootDir, server, waited, asked, pipe, scanner, writer, extra, invalidated>>

Deadline ==
  /\ ~ctxDone /\ quota.at \notin {"start", "returned"}
  /\ ctxDone' = TRUE
  /\ UNCHANGED <<quota, rootDir, server, waited, asked, pipe, scanner, writer, copier, extra, invalidated>>

---------------------------------------------------------------------------
(* startJSONLines: the channel has no buffer, so the scanner stands with   *)
(* its line until the caller takes it or the context ends.  Whatever stops *)
(* the scan with an error is handed over as an answer that is too large.   *)

ScannerKeeps == UNCHANGED <<quota, ctxDone, rootDir, server, waited, asked, writer, copier, extra, invalidated>>

Scan ==
  /\ scanner.at = "scan"
  /\ \/ /\ pipe # <<>>
        /\ scanner' = [at |-> "offer", line |-> Head(pipe)]
        /\ pipe' = Tail(pipe)
     \/ /\ pipe = <<>> /\ server = "gone"
        /\ scanner' = [at |-> "closed", line |-> NoLine]
        /\ UNCHANGED pipe
     \/ /\ pipe = <<>> /\ waited      \* reading a closed file is an error too
        /\ scanner' = [at |-> "offer", line |-> TooLong]
        /\ UNCHANGED pipe
  /\ ScannerKeeps

ScannerGivesUp ==
  /\ scanner.at = "offer" /\ ctxDone
  /\ scanner' = [at |-> "closed", line |-> NoLine]
  /\ ScannerKeeps /\ UNCHANGED pipe

---------------------------------------------------------------------------
(* ReadCredential. *)

Others == UNCHANGED <<ctxDone, server, waited, asked, pipe, copier, extra>>

Ends(at, result) == quota' = [quota EXCEPT !.at = at, !.result = result]

(* A directory that cannot be made or a program that cannot be started     *)
(* ends the read at once; the deferred RemoveAll still runs.               *)
ReadCredential ==
  /\ quota.at = "start"
  /\ \/ /\ Ends("returned", "unavailable")
        /\ UNCHANGED <<rootDir, server, copier, scanner, writer>>
     \/ /\ quota' = [quota EXCEPT !.at = "write", !.call = 1]
        /\ rootDir' = TRUE
        /\ server' = "up" /\ copier' = "up"
        /\ scanner' = [at |-> "scan", line |-> NoLine]
        /\ UNCHANGED writer
  /\ UNCHANGED <<ctxDone, waited, asked, pipe, extra, invalidated>>

(* rpcSession.write, on a goroutine of its own, which stays blocked until  *)
(* the server reads or the pipe is closed.                                 *)
StartWrite ==
  /\ quota.at \in {"write", "notify"}
  /\ quota' = [quota EXCEPT !.at = IF @ = "write" THEN "writing" ELSE "notifying"]
  /\ writer' = IF server = "gone" THEN "failed" ELSE "blocked"
  /\ Others /\ UNCHANGED <<rootDir, scanner, invalidated>>

ServerReads ==
  /\ writer = "blocked" /\ server = "up"
  /\ writer' = "done"
  /\ asked' = IF quota.at = "writing" THEN quota.call ELSE asked
  /\ UNCHANGED <<quota, ctxDone, rootDir, server, waited, pipe, scanner, copier, extra, invalidated>>

EndWrite ==
  /\ quota.at \in {"writing", "notifying"}
  /\ \/ ctxDone /\ Ends("stop", "timeout")
     \/ writer = "done" /\ Ends(IF quota.at = "writing" THEN "await" ELSE "write", "none")
     \/ writer = "failed" /\ Ends("stop", "unavailable")
  /\ Others /\ UNCHANGED <<rootDir, scanner, writer, invalidated>>

(* The next call; initialize is followed by a notification first.          *)
NextCall(line) ==
  [quota EXCEPT !.at = CASE quota.call = 4 -> "stop" [] quota.call = 1 -> "notify" [] OTHER -> "write",
                !.call = IF @ = 4 THEN 4 ELSE @ + 1,
                !.result = IF quota.call = 4 THEN "observation" ELSE "none",
                !.used = @ \cup {<<quota.call, line>>}]

(* What the caller does with an answer: a login of the wrong type, or      *)
(* limits that are malformed or another account's, are errors.             *)
Accept(line) ==
  CASE line.body = "error" -> [quota EXCEPT !.at = "stop", !.result = "unavailable"]
    [] line.body = "malformed" -> [quota EXCEPT !.at = "stop", !.result = "protocol"]
    [] line.body = "other_account" -> [quota EXCEPT !.at = "stop", !.result = "credential"]
    [] OTHER -> NextCall(line)

(* An answer is taken without looking at its id. *)
Received_AnyId(line) ==
  CASE line.kind = "long" -> [quota EXCEPT !.at = "stop", !.result = "too_large"]
    [] line.kind \in {"garbage", "request"} -> [quota EXCEPT !.at = "stop", !.result = "protocol"]
    [] line.kind = "refresh" -> [quota EXCEPT !.at = "stop", !.result = "credential"]
    [] line.kind = "notification" -> quota
    [] OTHER -> Accept(line)

(* One line of the loop in rpcSession.call. *)
Received(line) ==
  CASE line.kind = "long" -> [quota EXCEPT !.at = "stop", !.result = "too_large"]
    [] line.kind = "garbage" -> [quota EXCEPT !.at = "stop", !.result = "protocol"]
    [] line.kind = "refresh" ->
         [quota EXCEPT !.at = "stop", !.result = IF quota.call = 1 THEN "unavailable" ELSE "credential"]
    [] line.kind = "request" -> [quota EXCEPT !.at = "stop", !.result = "protocol"]
    [] line.kind = "notification" -> quota
    [] line.kind = "answer" /\ line.id # quota.call -> quota
    [] OTHER -> Accept(line)

(* The caller takes the line; an error ends the scanner with it.  Only a   *)
(* refresh asked for after initialize invalidates the credential.          *)
TakeLine ==
  /\ quota.at = "await" /\ scanner.at = "offer"
  /\ quota' = Received(scanner.line)
  /\ scanner' = [at |-> IF scanner.line.kind = "long" THEN "closed" ELSE "scan", line |-> NoLine]
  /\ invalidated' = (invalidated \/ (scanner.line.kind = "refresh" /\ quota.call > 1))
  /\ Others /\ UNCHANGED <<rootDir, writer>>

CallFails ==
  /\ quota.at = "await"
  /\ \/ ctxDone /\ Ends("stop", "timeout")
     \/ scanner.at = "closed" /\ Ends("stop", "protocol")
  /\ Others /\ UNCHANGED <<rootDir, scanner, writer, invalidated>>

---------------------------------------------------------------------------
(* The deferred calls, last first: stop, RemoveAll, cancel.  The second    *)
(* kill stop sends after two seconds changes nothing for a child the first *)
(* one has reached.                                                        *)

Stop ==
  /\ quota.at = "stop"
  /\ quota' = [quota EXCEPT !.at = "stopping"]
  /\ writer' = IF writer = "blocked" THEN "failed" ELSE writer
  /\ server' = IF server = "up" THEN "killed" ELSE server
  /\ UNCHANGED <<ctxDone, rootDir, waited, asked, pipe, scanner, copier, extra, invalidated>>

StopJoins == quota.at = "stopping" /\ waited /\ copier = "done"

Stopped ==
  /\ StopJoins
  /\ quota' = [quota EXCEPT !.at = "returned"]
  /\ rootDir' = FALSE
  /\ ctxDone' = TRUE
  /\ UNCHANGED <<server, waited, asked, pipe, scanner, writer, copier, extra, invalidated>>

ServerNext ==
  \/ ServerAnswers \/ ServerSpeaks \/ ServerReads \/ ServerExits \/ Wait \/ StderrOverflows \/ StderrEnds
  \/ Deadline \/ Scan \/ ScannerGivesUp \/ ReadCredential \/ StartWrite \/ EndWrite
  \/ TakeLine \/ CallFails \/ Stop \/ Stopped

(* The goroutines run, the deadline passes and a killed process dies; the  *)
(* server owes no answer.                                                  *)
ServerFairness ==
  /\ WF_serverVars(ReadCredential \/ StartWrite \/ EndWrite \/ TakeLine \/ CallFails)
  /\ WF_serverVars(Stop \/ Stopped) /\ WF_serverVars(Wait) /\ WF_serverVars(StderrEnds)
  /\ WF_serverVars(Deadline) /\ WF_serverVars(Scan) /\ WF_serverVars(ScannerGivesUp)
  /\ WF_serverVars(server = "killed" /\ ServerExits)

---------------------------------------------------------------------------
(* PROPERTIES *)

(* An observation is made of the answers to its own four calls and, where  *)
(* the server names an account, of the account that was asked about,       *)
(* whatever else the server prints in between (rpcSession.call).           *)
OwnAnswers ==
  quota.result = "observation" =>
    /\ {u[1] : u \in quota.used} = Calls
    /\ \A u \in quota.used : u[2].id = u[1] /\ u[2].body = "good"

(* When ReadCredential returns its child is reaped, its copy of standard   *)
(* error has ended and its directory is gone; until then the directory     *)
(* stays where the child runs (the deferred stop and RemoveAll).           *)
ServerGone ==
  /\ quota.at = "returned" => server \in {"none", "gone"} /\ ~rootDir /\ copier # "up"
  /\ server \in {"up", "killed"} => rootDir
===========================================================================
