----------------------------- MODULE CodexAuth -----------------------------
(***************************************************************************)
(* The Codex credential source (internal/codex/auth) and the requests that *)
(* use it through responses.StreamWithRefresh, sharing auth.json with the  *)
(* Codex CLI and a token endpoint that rotates refresh tokens.             *)
(*                                                                         *)
(* Each Lock/Unlock section, system call and network exchange of the code  *)
(* is a step of its own: a Get, its fast path, the singleflight it joins,  *)
(* the loader's stat, read, judgement, lock, refresh, change check, rename *)
(* and store, an Invalidate.  Tokens are serial numbers of the endpoint's  *)
(* grants; a file version stands for the (size, mtime) fingerprint.        *)
(***************************************************************************)
EXTENDS Integers, FiniteSets

CONSTANTS
    Callers,          \* goroutines running StreamWithRefresh
    Accounts,         \* tokens.account_id values
    CliHonoursLock,   \* does the Codex CLI take auth.json.lock?
    MaxInvalidated,   \* auth.go: maxInvalidated
    MaxSerial,        \* bound: grants of the token endpoint
    MaxVer,           \* bound: writes of auth.json by the CLI
    MaxAging,         \* bound: expiries and revocations of tokens
    MaxRequests,      \* bound: requests
    MaxCrashes        \* bound: crashes of the daemon

ASSUME AuthAssumption ==
    /\ IsFiniteSet(Callers) /\ Accounts # {}
    /\ CliHonoursLock \in BOOLEAN
    /\ MaxInvalidated \in Nat \ {0}
    /\ {MaxSerial, MaxVer, MaxAging, MaxRequests, MaxCrashes} \subseteq Nat

VARIABLES
    file,         \* auth.json: [tok, acct, ref, ver]
    lock,         \* auth.json.lock: "free", "self", "cli"
    cached,       \* Source.cached, with its fingerprint
    invalidated,  \* Source.invalidated
    invalGen,     \* Source.invalGen
    fl,           \* the singleflight's running load
    waiters,      \* callers blocked in group.Do on it
    cl,           \* the callers
    cli,          \* the Codex CLI
    serial,       \* last grant of the token endpoint
    live,         \* refresh tokens the endpoint still redeems
    expired,      \* access tokens within refreshSkew of their expiry
    revoked,      \* access tokens the Codex backend answers 401
    requests, crashes,
    banned,       \* history: the token a caller has reported rejected
    lost          \* history: spent refresh tokens whose successor an accident
                  \* kept from the disk

source == <<cached, invalidated, invalGen>>
flight == <<fl, waiters>>
world == <<serial, live, expired, revoked>>
history == <<requests, crashes, banned, lost>>
vars == <<file, lock, source, flight, cl, cli, world, history>>

None == 0
NoCred == [tok |-> None, acct |-> None]
NoCache == [cred |-> NoCred, ver |-> None, mem |-> FALSE]
NoFlight == [pc |-> "none", phase |-> "load", gen |-> 0, cred |-> NoCred,
             sent |-> None, ref |-> None, ver |-> None, seen |-> None, mem |-> FALSE]

Creds == [tok : Nat, acct : Accounts \cup {None}]

Files == [cred : Creds, ref : Nat, ver : Nat]
Caches == [cred : Creds, ver : Nat, mem : BOOLEAN]
FlightPcs == {"none", "stat", "read", "judge", "regen", "lock", "post",
              "changed", "write", "restat", "store"}
Flights == [pc : FlightPcs, phase : {"load", "locked", "adopt"}, gen : Nat, cred : Creds,
            sent : Nat, ref : Nat, ver : Nat, seen : Nat, mem : BOOLEAN]
CallerPcs == {"idle", "fast", "do", "wait", "check", "send", "inval", "done"}
CallerStates == [pc : CallerPcs, try : {1, 2}, att : {1, 2}, cred : Creds, old : Creds]
CliStates == [pc : {"idle", "busy", "granted"}, cred : Creds, ref : Nat]

\* Every variable of the source, its load, the requests and the CLI has its type;
\* in particular a Get makes two attempts and a request two tries, never a third.
TypeOK ==
    /\ file \in Files
    /\ lock \in {"free", "self", "cli"}
    /\ cached \in Caches
    /\ invalidated \subseteq Nat /\ invalGen \in Nat
    /\ fl \in Flights
    /\ waiters \subseteq Callers
    /\ cl \in [Callers -> CallerStates]
    /\ cli \in CliStates
    /\ serial \in Nat /\ live \subseteq Nat
    /\ expired \subseteq Nat /\ revoked \subseteq Nat
    /\ requests \in Nat /\ crashes \in Nat
    /\ banned \in [Callers -> Nat]
    /\ lost \subseteq Nat

IdleCaller == [pc |-> "idle", try |-> 1, att |-> 1, cred |-> NoCred, old |-> NoCred]

\* The CLI has logged in; its file may or may not carry a refresh token.
Init ==
    /\ \E a \in Accounts, r \in {None, 1} :
          file = [cred |-> [tok |-> 1, acct |-> a], ref |-> r, ver |-> 1]
    /\ lock = "free"
    /\ cached = NoCache /\ invalidated = {} /\ invalGen = 0
    /\ fl = NoFlight /\ waiters = {}
    /\ cl = [c \in Callers |-> IdleCaller]
    /\ cli = [pc |-> "idle", cred |-> NoCred, ref |-> None]
    /\ serial = 1 /\ live = {1} /\ expired = {} /\ revoked = {}
    /\ requests = 0 /\ crashes = 0
    /\ banned = [c \in Callers |-> None]
    /\ lost = {}

-----------------------------------------------------------------------------
(* Source's guarded sections *)

\* freshLocked: an undecodable or absent token has a zero expiry.
fresh(tok) == tok # None /\ tok \notin expired

isInvalidated(tok) == tok \in invalidated

\* credFrom needs both an access token and an account.
credFrom(cred) == cred.tok # None /\ cred.acct # None

\* fastPath, under s.mu: serve the cache only if the file is unchanged.
FastHit ==
    /\ cached.cred.tok # None
    /\ cached.ver = file.ver
    /\ ~isInvalidated(cached.cred.tok)
    /\ fresh(cached.cred.tok)

\* store: cache cred and clear its mark, unless an Invalidate that landed since
\* gen was captured marked this very token.
store(cred, ver, gen, mem) ==
    IF invalGen # gen /\ isInvalidated(cred.tok)
    THEN UNCHANGED <<cached, invalidated>>
    ELSE /\ cached' = [cred |-> cred, ver |-> ver, mem |-> mem]
         /\ invalidated' = invalidated \ {cred.tok}

-----------------------------------------------------------------------------
(* A request: StreamResponseWithRefresh and the two Gets it may make *)

Begin(c) ==
    /\ cl[c].pc \in {"idle", "done"}
    /\ requests < MaxRequests
    /\ requests' = requests + 1
    /\ cl' = [cl EXCEPT ![c] = [IdleCaller EXCEPT !.pc = "fast"]]
    /\ banned' = [banned EXCEPT ![c] = None]
    /\ UNCHANGED <<file, lock, source, flight, cli, world, crashes, lost>>

\* Where a Get that yields cred leaves the request: on the second try a cred
\* that did not change ends it with the original 401.
Use(c, cred) ==
    LET same == cl[c].try = 2 /\ cred = cl[c].old
    IN  cl' = [cl EXCEPT ![c] = [@ EXCEPT !.pc = IF same THEN "done" ELSE "send",
                                          !.cred = cred]]

Fast(c) ==
    /\ cl[c].pc = "fast"
    /\ IF FastHit THEN Use(c, cached.cred)
                  ELSE cl' = [cl EXCEPT ![c] = [@ EXCEPT !.pc = "do"]]
    /\ UNCHANGED <<file, lock, source, flight, cli, world, history>>

\* group.Do: join the running load, or start one with this caller's context.
\* load captures the generation before it reads anything.
Do(c) ==
    /\ cl[c].pc = "do"
    /\ cl' = [cl EXCEPT ![c] = [@ EXCEPT !.pc = "wait"]]
    /\ waiters' = waiters \cup {c}
    /\ fl' = IF fl.pc = "none"
             THEN [NoFlight EXCEPT !.pc = "stat", !.gen = invalGen]
             ELSE fl
    /\ UNCHANGED <<file, lock, source, cli, world, history>>

\* Mutant: Get trusts a shared load without asking whether its token was
\* invalidated meanwhile.
Check_Trusting(c) ==
    /\ cl[c].pc = "check"
    /\ IF cl[c].cred.tok = None
       THEN cl' = [cl EXCEPT ![c] = [@ EXCEPT !.pc = "done"]]
       ELSE Use(c, cl[c].cred)
    /\ UNCHANGED <<file, lock, source, flight, cli, world, history>>

\* Back from group.Do: an error ends the request; an invalidated token is
\* loaded once more (getAttempts = 2) and then returned as it is.
Check(c) ==
    /\ cl[c].pc = "check"
    /\ IF cl[c].cred.tok = None
       THEN cl' = [cl EXCEPT ![c] = [@ EXCEPT !.pc = "done"]]
       ELSE IF isInvalidated(cl[c].cred.tok) /\ cl[c].att = 1
       THEN cl' = [cl EXCEPT ![c] = [@ EXCEPT !.pc = "fast", !.att = 2]]
       ELSE Use(c, cl[c].cred)
    /\ UNCHANGED <<file, lock, source, flight, cli, world, history>>

\* StreamResponse: a 401 on the first try calls for a new credential, on the
\* second it is final; any other answer is final at once.
Answered(c) ==
    /\ cl[c].pc = "send"
    /\ cl[c].cred.tok \notin revoked \/ cl[c].try = 2
    /\ cl' = [cl EXCEPT ![c] = [@ EXCEPT !.pc = "done"]]
    /\ UNCHANGED <<file, lock, source, flight, cli, world, history>>

Rejected(c) ==
    /\ cl[c].pc = "send"
    /\ cl[c].cred.tok \in revoked /\ cl[c].try = 1
    /\ cl' = [cl EXCEPT ![c] = [@ EXCEPT !.pc = "inval"]]
    /\ UNCHANGED <<file, lock, source, flight, cli, world, history>>

\* Invalidate, then the second Get.  A full set is dropped and rebuilt from
\* this token, which releases what other callers had reported.
Invalidate(c) ==
    /\ cl[c].pc = "inval"
    /\ LET tok == cl[c].cred.tok
           full == ~isInvalidated(tok) /\ Cardinality(invalidated) >= MaxInvalidated
       IN  /\ invalGen' = invalGen + 1
           /\ invalidated' = (IF full THEN {} ELSE invalidated) \cup {tok}
           /\ cached' = IF cached.cred.tok = tok THEN NoCache ELSE cached
           /\ banned' = [d \in Callers |-> IF d = c THEN tok
                                           ELSE IF full THEN None ELSE banned[d]]
    /\ cl' = [cl EXCEPT ![c] = [@ EXCEPT !.pc = "fast", !.try = 2, !.att = 1, !.old = cl[c].cred]]
    /\ UNCHANGED <<file, lock, flight, cli, world, requests, crashes, lost>>

-----------------------------------------------------------------------------
(* The load the singleflight runs: load, refreshUnderLock, adoptFromDisk.  *)
(* They read and judge the file the same way; fl.phase says which of the   *)
(* three is reading.                                                       *)

\* The load returns: the deferred release unlocks, and every caller blocked in
\* group.Do gets the one result (NoCred stands for an error).
Deliver(cred) ==
    /\ fl' = NoFlight
    /\ waiters' = {}
    /\ lock' = IF lock = "self" THEN "free" ELSE lock
    /\ cl' = [c \in Callers |-> IF c \in waiters
                                THEN [cl[c] EXCEPT !.pc = "check", !.cred = cred]
                                ELSE cl[c]]

\* readFile, os.Stat: the fingerprint is taken before the content is read.
FlStat ==
    /\ fl.pc = "stat"
    /\ fl' = [fl EXCEPT !.pc = "read", !.ver = file.ver]
    /\ UNCHANGED <<file, lock, source, waiters, cl, cli, world, history>>

\* readFile, os.ReadFile, parseAuthFile and credFrom.  fl.seen is history: the
\* version the load last looked at, which is later than the fingerprint of one
\* that was written between the stat and the read.
FlRead ==
    /\ fl.pc = "read"
    /\ IF credFrom(file.cred)
       THEN /\ fl' = [fl EXCEPT !.pc = "judge", !.cred = file.cred, !.ref = file.ref,
                                !.seen = file.ver]
            /\ UNCHANGED <<lock, waiters, cl>>
       ELSE Deliver(NoCred)
    /\ UNCHANGED <<file, source, cli, world, history>>

\* A usable token is adopted.  Otherwise load goes for the lock, the locked
\* re-read for the network if there is a refresh token, and an adoption of an
\* external write fails with a retryable error.
FlJudge ==
    /\ fl.pc = "judge"
    /\ LET usable == fresh(fl.cred.tok) /\ ~isInvalidated(fl.cred.tok)
           go(pc) == fl' = [fl EXCEPT !.pc = pc] /\ UNCHANGED <<lock, waiters, cl>>
       IN  \/ usable /\ go("store")
           \/ ~usable /\ fl.phase = "load" /\ go("regen")
           \/ ~usable /\ fl.phase = "locked" /\ fl.ref # None /\ go("post")
           \/ /\ ~usable
              /\ fl.phase = "adopt" \/ (fl.phase = "locked" /\ fl.ref = None)
              /\ Deliver(NoCred)
    /\ UNCHANGED <<file, source, cli, world, history>>

\* refreshUnderLock captures its own generation.
FlRegen ==
    /\ fl.pc = "regen"
    /\ fl' = [fl EXCEPT !.pc = "lock", !.gen = invalGen]
    /\ UNCHANGED <<file, lock, source, waiters, cl, cli, world, history>>

\* Mutant: EWOULDBLOCK is taken for success.
FlLock_IgnoresHolder ==
    /\ fl.pc = "lock"
    /\ lock' = "self"
    /\ fl' = [fl EXCEPT !.pc = "stat", !.phase = "locked"]
    /\ UNCHANGED <<file, source, waiters, cl, cli, world, history>>

\* acquireFileLock: LOCK_NB succeeds; the file is read again under the lock.
FlLock ==
    /\ fl.pc = "lock"
    /\ lock = "free"
    /\ lock' = "self"
    /\ fl' = [fl EXCEPT !.pc = "stat", !.phase = "locked"]
    /\ UNCHANGED <<file, source, waiters, cl, cli, world, history>>

\* Mutant: the wait for the lock has neither deadline nor context.
FlLockGiveUp_Never ==
    /\ fl.pc = "lock" /\ FALSE
    /\ UNCHANGED vars

\* acquireFileLock: the timeout, the leader's context, or a failing open.
FlLockGiveUp ==
    /\ fl.pc = "lock"
    /\ Deliver(NoCred)
    /\ UNCHANGED <<file, source, cli, world, history>>

\* The refresh token that was sent, if it is spent: the successor the load holds
\* is then the only one there is.
Spent == {fl.sent} \ {fl.ref}

\* The endpoint redeems fl.ref.  It may issue the same access token again, and
\* it may leave the refresh token unrotated.
Redeem(tok, rotate) ==
    /\ fl.ref \in live
    /\ serial < MaxSerial
    /\ serial' = serial + 1
    /\ live' = IF rotate THEN (live \ {fl.ref}) \cup {serial + 1} ELSE live
    /\ banned' = [c \in Callers |-> IF banned[c] = tok THEN None ELSE banned[c]]
    /\ UNCHANGED <<expired, revoked, requests, crashes>>

\* requestRefresh answers 200 with an access token: the parsed file takes the
\* new tokens, keeping the old refresh token when none was returned.
FlGranted ==
    /\ fl.pc = "post"
    /\ \E tok \in {fl.cred.tok, serial + 1}, rotate \in BOOLEAN :
          /\ Redeem(tok, rotate)
          /\ fl' = [fl EXCEPT !.pc = "changed", !.cred.tok = tok, !.sent = fl.ref,
                              !.ref = IF rotate THEN serial + 1 ELSE fl.ref]
    /\ UNCHANGED <<file, lock, source, waiters, cl, cli, lost>>

\* The endpoint redeemed the token but its answer was lost or unreadable.
FlAnswerLost ==
    /\ fl.pc = "post"
    /\ Redeem(serial + 1, TRUE)
    /\ lost' = lost \cup {fl.ref}
    /\ Deliver(NoCred)
    /\ UNCHANGED <<file, source, cli>>

\* requestRefresh fails: rejected, rate limited, 5xx, unreachable, cancelled.
FlRefused ==
    /\ fl.pc = "post"
    /\ Deliver(NoCred)
    /\ UNCHANGED <<file, source, cli, world, history>>

\* Mutant: the file is renamed over whatever was written during the refresh.
FlChanged_Unchecked ==
    /\ fl.pc = "changed"
    /\ fl' = [fl EXCEPT !.pc = "write", !.seen = file.ver]
    /\ UNCHANGED <<file, lock, source, waiters, cl, cli, world, history>>

\* fileChangedSince the re-read: adopt the external write instead of ours.  A
\* write that the re-read has seen, though not its stat, is taken for a newer
\* one: our tokens are dropped for the very file whose token they replace.
FlChanged ==
    /\ fl.pc = "changed"
    /\ \/ /\ file.ver = fl.ver
          /\ fl' = [fl EXCEPT !.pc = "write", !.seen = file.ver]
          /\ UNCHANGED lost
       \/ /\ file.ver # fl.ver
          /\ fl' = [fl EXCEPT !.pc = "stat", !.phase = "adopt"]
          /\ lost' = IF file.ver = fl.seen THEN lost \cup Spent ELSE lost
    /\ UNCHANGED <<file, lock, source, waiters, cl, cli, world, requests, crashes, banned>>

\* writeAuthFileAtomic renames the new file into place, over whatever a CLI that
\* ignores the lock has written since the change check: if it has rotated the
\* token that our refresh left as it was, the spent one is back.
FlWrite ==
    /\ fl.pc = "write"
    /\ file' = [cred |-> fl.cred, ref |-> fl.ref, ver |-> file.ver + 1]
    /\ fl' = [fl EXCEPT !.pc = "restat"]
    /\ lost' = IF file.ver # fl.seen /\ fl.ref = fl.sent THEN lost \cup {fl.ref} ELSE lost
    /\ UNCHANGED <<lock, source, waiters, cl, cli, world, requests, crashes, banned>>

\* writeAuthFileAtomic fails: the credential is kept in memory only.
FlWriteFails ==
    /\ fl.pc = "write"
    /\ fl' = [fl EXCEPT !.pc = "restat", !.mem = TRUE]
    /\ lost' = lost \cup Spent
    /\ UNCHANGED <<file, lock, source, waiters, cl, cli, world, requests, crashes, banned>>

\* os.Stat for the fingerprint to cache, after the rename or its failure; a
\* file that is gone gives the zero fingerprint, which no file matches.
FlRestat ==
    /\ fl.pc = "restat"
    /\ \E v \in {file.ver} \cup (IF file.cred = NoCred THEN {None} ELSE {}) :
          fl' = [fl EXCEPT !.pc = "store", !.ver = v]
    /\ UNCHANGED <<file, lock, source, waiters, cl, cli, world, history>>

FlStore ==
    /\ fl.pc = "store"
    /\ store(fl.cred, fl.ver, fl.gen, fl.mem)
    /\ Deliver(fl.cred)
    /\ UNCHANGED <<file, invalGen, cli, world, history>>

FlightStep ==
    \/ FlStat \/ FlRead \/ FlJudge \/ FlRegen \/ FlLock \/ FlLockGiveUp
    \/ FlGranted \/ FlAnswerLost \/ FlRefused
    \/ FlChanged \/ FlWrite \/ FlWriteFails \/ FlRestat \/ FlStore

-----------------------------------------------------------------------------
(* The Codex CLI, the passing of time, the process *)

\* The CLI starts work on the file, under the lock if this build takes it.
CliBegin ==
    /\ cli.pc = "idle"
    /\ file.ver < MaxVer
    /\ IF CliHonoursLock THEN lock = "free" /\ lock' = "cli" ELSE UNCHANGED lock
    /\ cli' = [cli EXCEPT !.pc = "busy"]
    /\ UNCHANGED <<file, source, flight, cl, world, history>>

\* It refreshes with the token on disk, and may be issued the same access token
\* again, or logs in, perhaps to another account.
CliGrant ==
    /\ cli.pc = "busy"
    /\ serial < MaxSerial
    /\ serial' = serial + 1
    /\ \/ /\ file.ref \in live
          /\ live' = (live \ {file.ref}) \cup {serial + 1}
          /\ \E tok \in {file.cred.tok, serial + 1} :
                cli' = [pc |-> "granted", ref |-> serial + 1,
                        cred |-> [tok |-> tok, acct |-> file.cred.acct]]
       \/ /\ live' = live \cup {serial + 1}
          /\ \E a \in Accounts :
                cli' = [pc |-> "granted", ref |-> serial + 1,
                        cred |-> [tok |-> serial + 1, acct |-> a]]
    /\ UNCHANGED <<file, lock, source, flight, cl, expired, revoked, history>>

CliWrite ==
    /\ cli.pc = "granted"
    /\ file' = [cred |-> cli.cred, ref |-> cli.ref, ver |-> file.ver + 1]
    /\ cli' = [pc |-> "busy", cred |-> NoCred, ref |-> None]
    /\ UNCHANGED <<lock, source, flight, cl, world, history>>

\* It logs out, or truncates the file it is about to write.
CliErase ==
    /\ cli.pc = "busy"
    /\ file.cred # NoCred
    /\ file' = [cred |-> NoCred, ref |-> None, ver |-> file.ver + 1]
    /\ UNCHANGED <<lock, source, flight, cl, cli, world, history>>

CliEnd ==
    /\ cli.pc = "busy"
    /\ cli' = [cli EXCEPT !.pc = "idle"]
    /\ lock' = IF lock = "cli" THEN "free" ELSE lock
    /\ UNCHANGED <<file, source, flight, cl, world, history>>

CliStep == CliBegin \/ CliGrant \/ CliWrite \/ CliErase \/ CliEnd

AgingLeft == Cardinality(expired) + Cardinality(revoked) < MaxAging

\* A token comes within refreshSkew of its expiry, or the backend revokes it.
TokenExpires ==
    /\ AgingLeft
    /\ \E t \in (1..serial) \ expired : expired' = expired \cup {t}
    /\ UNCHANGED <<file, lock, source, flight, cl, cli, serial, live, revoked, history>>

Revoke ==
    /\ AgingLeft
    /\ \E t \in (1..serial) \ revoked : revoked' = revoked \cup {t}
    /\ UNCHANGED <<file, lock, source, flight, cl, cli, serial, live, expired, history>>

\* The daemon dies and is started again: memory is gone, the kernel drops the
\* flock, and a rotated token not yet renamed into place is lost.
Crash ==
    /\ crashes < MaxCrashes
    /\ crashes' = crashes + 1
    /\ lost' = IF fl.pc \in {"changed", "write"} THEN lost \cup Spent ELSE lost
    /\ cached' = NoCache /\ invalidated' = {} /\ invalGen' = 0
    /\ fl' = NoFlight /\ waiters' = {}
    /\ lock' = IF lock = "self" THEN "free" ELSE lock
    /\ cl' = [c \in Callers |-> IdleCaller]
    /\ banned' = [c \in Callers |-> None]
    /\ UNCHANGED <<file, cli, world, requests>>

CallerStep(c) ==
    \/ Fast(c) \/ Do(c) \/ Check(c) \/ Answered(c) \/ Rejected(c) \/ Invalidate(c)

Next ==
    \/ \E c \in Callers : Begin(c) \/ CallerStep(c)
    \/ FlightStep
    \/ CliStep
    \/ TokenExpires \/ Revoke \/ Crash

(***************************************************************************)
(* Fairness: goroutines of the daemon run, system calls return, the HTTP   *)
(* client has a timeout and so has the wait for the lock.  Nothing obliges *)
(* the CLI to finish, a token to expire or a client to send.               *)
(***************************************************************************)
Fairness == WF_vars(FlightStep) /\ \A c \in Callers : WF_vars(CallerStep(c))

Spec == Init /\ [][Next]_vars /\ Fairness

-----------------------------------------------------------------------------
(* Properties *)

\* c has not reported tok rejected, as far as the source still knows.
Clear(c, tok) == banned[c] = None \/ banned[c] # tok

\* Invalidate's contract across every interleaving with the loads it races: a
\* caller that reported a token rejected is not handed it again by Get, to send
\* or to find that it did not change, unless the token endpoint itself issued that token
\* anew or the bounded set was dropped.
\* This is what getAttempts' "Two is enough" and store's generation check claim.
NoRejectedTokenAgain ==
    \A c \in Callers : cl[c].pc \in {"send", "done"} => Clear(c, cl[c].cred.tok)

\* Between Invalidate, store and the load racing them, a token marked rejected
\* is never left in the cache.
CacheUnmarked == cached.cred.tok # None => cached.cred.tok \notin invalidated

\* The set of rejected plaintext tokens stays within its bound, and the token a
\* caller just reported is in it until the endpoint reissues it.
MarksBounded ==
    /\ Cardinality(invalidated) <= MaxInvalidated
    /\ \A c \in Callers : banned[c] # None => isInvalidated(banned[c])

\* "If the file changed on disk since our under-lock re-read, another process
\* wrote it during our network refresh. Never clobber that newer file", a writer
\* that does not honour the lock (refreshUnderLock): the rename replaces the
\* version that was re-read, and no other.  The check is a system call and the
\* rename a later one, so the code does not keep this with such a CLI.
NoClobber == [][FlWrite => file.ver = fl.ver]_vars

\* "a changed size or mtime means the file was rewritten ... and must be
\* re-read" (statInfo): a cache entry whose fingerprint is the file's holds the
\* file's credential, except the one kept in memory after a failed write.
CacheMatchesFile ==
    cached.ver = file.ver /\ ~cached.mem /\ cached.cred.tok # None =>
        cached.cred = file.cred

\* The refresh token on disk can still be redeemed whenever nobody is working
\* on the file, but for a token that one of five accidents left there: its
\* successor was in an answer that was lost, in a write that failed or in a
\* process that crashed; a CLI that ignores the lock wrote its successor between
\* the change check and the rename, or that token itself between the stat and
\* the read of the re-read.  Whatever such a CLI writes at any other moment, the
\* change check sees to it that no spent token replaces it.
DiskRedeemable ==
    lock = "free" /\ cli.pc = "idle" /\ file.ref # None => file.ref \in live \cup lost

\* Every request ends, whoever leads the shared load, although the CLI may
\* never give the lock back.
RequestsEnd == \A c \in Callers : cl[c].pc = "fast" ~> cl[c].pc \in {"done", "idle"}
=============================================================================
