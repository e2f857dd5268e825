--------------------------- MODULE CodexAuthProof ---------------------------
(***************************************************************************)
(* What the credential source promises, for any number of requests and any *)
(* bounds: first Invalidate, then the file and its lock, then the refresh  *)
(* token on disk.                                                          *)
(*                                                                         *)
(* NoRejectedTokenAgain is not inductive.  The strengthening follows the   *)
(* code's own argument.  A mark outlives every load that judged the token  *)
(* before it was set, because store compares generations (FlightClean,     *)
(* first part).  A caller whose Get has been through one load can only     *)
(* meet loads that began after its Invalidate (second part), and so its    *)
(* second attempt is never given the token it reported (CallerClean).      *)
(***************************************************************************)
EXTENDS CodexAuth, FiniteSetTheorems, TLAPS

\* Steps of the load at which it has settled on the token it will return.
Accepted == {"changed", "write", "restat", "store"}

\* c's current Get has been through a load that ended after its Invalidate.
Settled(c) == cl[c].pc = "check" \/ cl[c].att = 2

GenBound == fl.gen <= invalGen

MarksKept == \A c \in Callers : banned[c] # None => banned[c] \in invalidated

MarksFinite == IsFiniteSet(invalidated) /\ Cardinality(invalidated) <= MaxInvalidated

FlightClean ==
    fl.pc \in Accepted =>
        \A c \in Callers : fl.gen = invalGen \/ Settled(c) => Clear(c, fl.cred.tok)

CallerClean ==
    \A c \in Callers :
        cl[c].pc \in {"send", "done"} \/ (cl[c].pc = "check" /\ cl[c].att = 2)
            => Clear(c, cl[c].cred.tok)

AuthSafe == GenBound /\ MarksKept /\ CacheUnmarked /\ FlightClean /\ CallerClean

-----------------------------------------------------------------------------
(* Type correctness *)

\* The constant records are members of the sets TypeOK draws from.
LEMMA ConstantTypes ==
    /\ NoCred \in Creds /\ NoCache \in Caches /\ NoFlight \in Flights
    /\ IdleCaller \in CallerStates
  <1>1. NoCred \in Creds
    BY DEF NoCred, Creds, None
  <1> QED
    BY <1>1 DEF NoCache, Caches, NoFlight, Flights, FlightPcs, IdleCaller, CallerStates, CallerPcs, None

\* Updates of a caller's record keep its type.
LEMMA CallerFields ==
    ASSUME NEW s \in CallerStates
    PROVE  /\ s.pc \in CallerPcs /\ s.att \in {1, 2} /\ s.cred \in Creds /\ s.cred.tok \in Nat
           /\ \A pc \in CallerPcs : [s EXCEPT !.pc = pc] \in CallerStates
           /\ \A pc \in CallerPcs, k \in Creds : [s EXCEPT !.pc = pc, !.cred = k] \in CallerStates
           /\ [s EXCEPT !.pc = "fast", !.att = 2] \in CallerStates
           /\ \A k \in Creds :
                 [s EXCEPT !.pc = "fast", !.try = 2, !.att = 1, !.old = k] \in CallerStates
  BY DEF CallerStates, CallerPcs, Creds

\* TypeOK holds when the daemon starts.
LEMMA TypeInit == Init => TypeOK
  <1> SUFFICES ASSUME Init PROVE TypeOK
    OBVIOUS
  <1>1. file \in Files
    BY DEF Init, Files, Creds, None
  <1>2. cl \in [Callers -> CallerStates] /\ banned \in [Callers -> Nat]
    BY ConstantTypes DEF Init, None
  <1>3. cli \in CliStates
    BY ConstantTypes DEF Init, CliStates, None
  <1>4. /\ lock \in {"free", "self", "cli"} /\ invalidated \subseteq Nat /\ invalGen \in Nat
        /\ waiters \subseteq Callers /\ serial \in Nat /\ live \subseteq Nat
        /\ expired \subseteq Nat /\ revoked \subseteq Nat
        /\ requests \in Nat /\ crashes \in Nat /\ lost \subseteq Nat
    BY DEF Init
  <1> QED
    BY <1>1, <1>2, <1>3, <1>4, ConstantTypes, Zenon DEF Init, TypeOK

\* One caller's record changes to another of its type.
LEMMA CallerSet ==
    ASSUME TypeOK, NEW c \in Callers, NEW s \in CallerStates, cl' = [cl EXCEPT ![c] = s]
    PROVE  cl' \in [Callers -> CallerStates]
  BY DEF TypeOK

\* A load that returns a credential, or NoCred for an error, keeps the types.
LEMMA TypeDeliver ==
    ASSUME TypeOK, NEW cred \in Creds, Deliver(cred)
    PROVE  /\ lock' \in {"free", "self", "cli"} /\ fl' \in Flights
           /\ waiters' \subseteq Callers /\ cl' \in [Callers -> CallerStates]
  <1>1. ASSUME NEW c \in Callers
        PROVE  cl[c] \in CallerStates /\ [cl[c] EXCEPT !.pc = "check", !.cred = cred] \in CallerStates
    BY CallerFields DEF TypeOK, CallerPcs
  <1>2. cl' \in [Callers -> CallerStates]
    BY <1>1 DEF TypeOK, Deliver
  <1> QED
    BY <1>2, ConstantTypes DEF TypeOK, Deliver

\* The type step, for each operation of a request.
LEMMA TypeCaller == ASSUME TypeOK, NEW c \in Callers, Begin(c) \/ CallerStep(c) PROVE TypeOK'
  <1>0. cl[c] \in CallerStates /\ cl[c].cred \in Creds /\ cl[c].cred.tok \in Nat
    BY CallerFields DEF TypeOK
  <1>a. ASSUME NEW pc \in CallerPcs, cl' = [cl EXCEPT ![c] = [@ EXCEPT !.pc = pc]]
        PROVE  cl' \in [Callers -> CallerStates]
    <2>1. [cl[c] EXCEPT !.pc = pc] \in CallerStates
      BY <1>0, CallerFields
    <2> QED
      BY <1>a, <2>1 DEF TypeOK
  <1>b. ASSUME NEW cred \in Creds, Use(c, cred) PROVE cl' \in [Callers -> CallerStates]
    <2>1. ASSUME NEW pc \in CallerPcs
          PROVE  [cl[c] EXCEPT !.pc = pc, !.cred = cred] \in CallerStates
      BY <1>0, CallerFields
    <2> QED
      BY <1>b, <2>1 DEF TypeOK, Use, CallerPcs
  <1>1. CASE Begin(c)
    <2>1. [IdleCaller EXCEPT !.pc = "fast"] \in CallerStates
      BY ConstantTypes, CallerFields DEF CallerPcs
    <2>2. cl' \in [Callers -> CallerStates]
      BY <1>1, <2>1 DEF Begin, TypeOK
    <2> QED
      BY <1>1, <2>2 DEF Begin, TypeOK, source, flight, world, None
  <1>2. CASE Fast(c)
    <2>1. cached.cred \in Creds
      BY DEF TypeOK, Caches
    <2>2. cl' \in [Callers -> CallerStates]
      BY <1>2, <1>a, <1>b, <2>1 DEF Fast, CallerPcs
    <2> QED
      BY <1>2, <2>2 DEF Fast, TypeOK, source, flight, world, history
  <1>3. CASE Do(c)
    <2>1. cl' \in [Callers -> CallerStates]
      BY <1>3, <1>a DEF Do, CallerPcs
    <2>2. [NoFlight EXCEPT !.pc = "stat", !.gen = invalGen] \in Flights
      BY ConstantTypes DEF TypeOK, Flights, FlightPcs
    <2> QED
      BY <1>3, <2>1, <2>2 DEF Do, TypeOK, source, world, history
  <1>4. CASE Check(c)
    <2>1. [cl[c] EXCEPT !.pc = "fast", !.att = 2] \in CallerStates
      BY <1>0, CallerFields
    <2>2. cl' \in [Callers -> CallerStates]
      BY <1>4, <1>0, <1>a, <1>b, <2>1, CallerSet DEF Check, CallerPcs
    <2> QED
      BY <1>4, <2>2 DEF Check, TypeOK, source, flight, world, history
  <1>5. CASE Answered(c) \/ Rejected(c)
    <2>1. cl' \in [Callers -> CallerStates]
      BY <1>5, <1>a DEF Answered, Rejected, CallerPcs
    <2> QED
      BY <1>5, <2>1 DEF Answered, Rejected, TypeOK, source, flight, world, history
  <1>6. CASE Invalidate(c)
    <2>1. [cl[c] EXCEPT !.pc = "fast", !.try = 2, !.att = 1, !.old = cl[c].cred] \in CallerStates
      BY <1>0, CallerFields
    <2>2. cl' \in [Callers -> CallerStates]
      BY <1>6, <2>1, CallerSet DEF Invalidate
    <2>3. /\ cached' \in Caches /\ invalidated' \subseteq Nat /\ invalGen' \in Nat
          /\ banned' \in [Callers -> Nat]
      BY <1>6, <1>0, ConstantTypes DEF Invalidate, TypeOK, None
    <2> QED
      BY <1>6, <2>2, <2>3 DEF Invalidate, TypeOK, flight, world
  <1> QED
    BY <1>1, <1>2, <1>3, <1>4, <1>5, <1>6 DEF CallerStep

\* Updates of the load's record keep its type.
LEMMA FlightFields ==
    ASSUME NEW s \in Flights
    PROVE  /\ s.cred \in Creds /\ s.cred.tok \in Nat /\ s.ref \in Nat /\ s.ver \in Nat
           /\ s.sent \in Nat /\ s.seen \in Nat
           /\ s.gen \in Nat /\ s.mem \in BOOLEAN
           /\ \A pc \in FlightPcs : [s EXCEPT !.pc = pc] \in Flights
           /\ \A pc \in FlightPcs, n \in Nat : [s EXCEPT !.pc = pc, !.ver = n] \in Flights
           /\ \A pc \in FlightPcs, n \in Nat : [s EXCEPT !.pc = pc, !.gen = n] \in Flights
           /\ \A pc \in FlightPcs, n \in Nat : [s EXCEPT !.pc = pc, !.seen = n] \in Flights
           /\ \A ph \in {"load", "locked", "adopt"} :
                 [s EXCEPT !.pc = "stat", !.phase = ph] \in Flights
           /\ \A k \in Creds, n \in Nat, v \in Nat :
                 [s EXCEPT !.pc = "judge", !.cred = k, !.ref = n, !.seen = v] \in Flights
           /\ [s EXCEPT !.pc = "restat", !.mem = TRUE] \in Flights
  BY DEF Flights, FlightPcs, Creds

\* A granted refresh replaces the access token of the load's credential.
LEMMA GrantedRecord ==
    ASSUME NEW s \in Flights, NEW tok \in Nat, NEW sent \in Nat, NEW ref \in Nat
    PROVE  [s EXCEPT !.pc = "changed", !.cred.tok = tok, !.sent = sent, !.ref = ref] \in Flights
  <1>1. [s.cred EXCEPT !.tok = tok] \in Creds
    BY DEF Flights, Creds
  <1> QED
    BY <1>1 DEF Flights, FlightPcs

\* The type step, for each step of the load.
LEMMA TypeFlight == ASSUME TypeOK, FlightStep PROVE TypeOK'
  <1>0. /\ fl \in Flights /\ fl.cred \in Creds /\ fl.cred.tok \in Nat /\ fl.ref \in Nat
        /\ fl.ver \in Nat /\ fl.sent \in Nat /\ fl.mem \in BOOLEAN
    BY FlightFields DEF TypeOK
  <1>l. Spent \subseteq Nat /\ lost \subseteq Nat
    BY <1>0 DEF TypeOK, Spent
  <1>f. file.ver \in Nat /\ file.cred \in Creds /\ file.ref \in Nat
    BY DEF TypeOK, Files
  <1>a. ASSUME NEW pc \in FlightPcs PROVE [fl EXCEPT !.pc = pc] \in Flights
    BY <1>0, FlightFields
  <1>1. CASE FlStat
    <2>1. fl' \in Flights
      BY <1>1, <1>0, <1>f, FlightFields DEF FlStat, FlightPcs
    <2> QED
      BY <1>1, <2>1 DEF FlStat, TypeOK, source, world, history
  <1>2. CASE FlRead
    <2>1. CASE Deliver(NoCred)
      BY <1>2, <2>1, ConstantTypes, TypeDeliver DEF FlRead, TypeOK, source, world, history
    <2>2. CASE credFrom(file.cred)
      <3>0. [fl EXCEPT !.pc = "judge", !.cred = file.cred, !.ref = file.ref,
                       !.seen = file.ver] \in Flights
        BY <1>0, <1>f, FlightFields
      <3>1. fl' \in Flights
        BY <1>2, <2>2, <3>0 DEF FlRead
      <3> QED
        BY <1>2, <2>2, <3>1 DEF FlRead, TypeOK, source, world, history
    <2> QED
      BY <1>2, <2>1, <2>2 DEF FlRead
  <1>3. CASE FlJudge
    <2>1. CASE Deliver(NoCred)
      BY <1>3, <2>1, ConstantTypes, TypeDeliver DEF FlJudge, TypeOK, source, world, history
    <2>2. ASSUME NEW pc \in {"store", "regen", "post"},
                 fl' = [fl EXCEPT !.pc = pc], UNCHANGED <<lock, waiters, cl>>
          PROVE TypeOK'
      BY <1>3, <2>2, <1>a DEF FlJudge, TypeOK, source, world, history, FlightPcs
    <2> QED
      BY <1>3, <2>1, <2>2 DEF FlJudge
  <1>4. CASE FlRegen
    <2>1. fl' \in Flights
      BY <1>4, <1>0, FlightFields DEF FlRegen, FlightPcs, TypeOK
    <2> QED
      BY <1>4, <2>1 DEF FlRegen, TypeOK, source, world, history
  <1>5. CASE FlLock
    <2>1. fl' \in Flights
      BY <1>5, <1>0, FlightFields DEF FlLock
    <2> QED
      BY <1>5, <2>1 DEF FlLock, TypeOK, source, world, history
  <1>6. CASE FlLockGiveUp \/ FlRefused
    BY <1>6, ConstantTypes, TypeDeliver DEF FlLockGiveUp, FlRefused, TypeOK, source, world, history
  <1>b. ASSUME NEW tok \in Nat, NEW rotate \in BOOLEAN, Redeem(tok, rotate)
        PROVE  /\ serial' \in Nat /\ live' \subseteq Nat /\ banned' \in [Callers -> Nat]
               /\ expired' \subseteq Nat /\ revoked' \subseteq Nat
               /\ requests' \in Nat /\ crashes' \in Nat
    <2>0. serial + 1 \in Nat /\ live \subseteq Nat
      BY DEF TypeOK
    <2>1. serial' \in Nat /\ live' \subseteq Nat
      BY <1>b, <2>0, Zenon DEF Redeem
    <2>2. banned' \in [Callers -> Nat]
      BY <1>b DEF Redeem, TypeOK, None
    <2> QED
      BY <1>b, <2>1, <2>2 DEF Redeem, TypeOK
  <1>7. CASE FlGranted
    <2>1. PICK tok \in {fl.cred.tok, serial + 1}, rotate \in BOOLEAN :
             /\ Redeem(tok, rotate)
             /\ fl' = [fl EXCEPT !.pc = "changed", !.cred.tok = tok, !.sent = fl.ref,
                                 !.ref = IF rotate THEN serial + 1 ELSE fl.ref]
      BY <1>7 DEF FlGranted
    <2>2. tok \in Nat /\ (IF rotate THEN serial + 1 ELSE fl.ref) \in Nat
      BY <1>0 DEF TypeOK
    <2>3. fl' \in Flights
      BY <2>1, <2>2, <1>0, GrantedRecord
    <2>4. /\ serial' \in Nat /\ live' \subseteq Nat /\ banned' \in [Callers -> Nat]
          /\ expired' \subseteq Nat /\ revoked' \subseteq Nat
          /\ requests' \in Nat /\ crashes' \in Nat
      BY <2>1, <2>2, <1>b
    <2> QED
      BY <1>7, <2>3, <2>4 DEF FlGranted, TypeOK, source
  <1>8. CASE FlAnswerLost
    <2>1. serial + 1 \in Nat
      BY DEF TypeOK
    <2>2. /\ serial' \in Nat /\ live' \subseteq Nat /\ banned' \in [Callers -> Nat]
          /\ expired' \subseteq Nat /\ revoked' \subseteq Nat
          /\ requests' \in Nat /\ crashes' \in Nat
      BY <1>8, <1>b, <2>1 DEF FlAnswerLost
    <2>3. /\ lock' \in {"free", "self", "cli"} /\ fl' \in Flights
          /\ waiters' \subseteq Callers /\ cl' \in [Callers -> CallerStates]
      BY <1>8, ConstantTypes, TypeDeliver DEF FlAnswerLost
    <2>4. lost' \subseteq Nat
      BY <1>8, <1>0, <1>l DEF FlAnswerLost
    <2> QED
      BY <1>8, <2>2, <2>3, <2>4 DEF FlAnswerLost, TypeOK, source
  <1>9. CASE FlChanged
    <2>0. /\ [fl EXCEPT !.pc = "write", !.seen = file.ver] \in Flights
          /\ [fl EXCEPT !.pc = "stat", !.phase = "adopt"] \in Flights
      BY <1>0, <1>f, FlightFields DEF FlightPcs
    <2>1. fl' \in Flights
      BY <1>9, <2>0 DEF FlChanged
    <2>2. lost' \subseteq Nat
      BY <1>9, <1>l DEF FlChanged
    <2> QED
      BY <1>9, <2>1, <2>2 DEF FlChanged, TypeOK, source, world
  <1>10. CASE FlWrite
    <2>1. fl' \in Flights
      BY <1>10, <1>a DEF FlWrite, FlightPcs
    <2>2. file' \in Files
      BY <1>10, <1>0, <1>f DEF FlWrite, Files
    <2>3. lost' \subseteq Nat
      BY <1>10, <1>0, <1>l DEF FlWrite
    <2> QED
      BY <1>10, <2>1, <2>2, <2>3 DEF FlWrite, TypeOK, source, world
  <1>11. CASE FlWriteFails
    <2>1. fl' \in Flights
      BY <1>11, <1>0, FlightFields DEF FlWriteFails
    <2>2. lost' \subseteq Nat
      BY <1>11, <1>l DEF FlWriteFails
    <2> QED
      BY <1>11, <2>1, <2>2 DEF FlWriteFails, TypeOK, source, world
  <1>12. CASE FlRestat
    <2>0. ASSUME NEW v \in Nat PROVE [fl EXCEPT !.pc = "store", !.ver = v] \in Flights
      BY <1>0, FlightFields DEF FlightPcs
    <2>1. fl' \in Flights
      BY <1>12, <1>f, <2>0 DEF FlRestat, None
    <2> QED
      BY <1>12, <2>1 DEF FlRestat, TypeOK, source, world, history
  <1>13. CASE FlStore
    <2>0. [cred |-> fl.cred, ver |-> fl.ver, mem |-> fl.mem] \in Caches
      BY <1>0 DEF Caches
    <2>1. /\ cached' \in {cached, [cred |-> fl.cred, ver |-> fl.ver, mem |-> fl.mem]}
          /\ invalidated' \in {invalidated, invalidated \ {fl.cred.tok}}
      BY <1>13 DEF FlStore, store
    <2>3. cached' \in Caches /\ invalidated' \subseteq Nat
      BY <2>0, <2>1 DEF TypeOK
    <2>2. /\ lock' \in {"free", "self", "cli"} /\ fl' \in Flights
          /\ waiters' \subseteq Callers /\ cl' \in [Callers -> CallerStates]
      BY <1>13, <1>0, TypeDeliver DEF FlStore
    <2> QED
      BY <1>13, <2>2, <2>3 DEF FlStore, TypeOK, world, history
  <1> QED
    BY <1>1, <1>2, <1>3, <1>4, <1>5, <1>6, <1>7, <1>8, <1>9, <1>10, <1>11, <1>12, <1>13
       DEF FlightStep

\* The type step, for the CLI, the passing of time and a crash.
LEMMA TypeWorld == ASSUME TypeOK, CliStep \/ TokenExpires \/ Revoke \/ Crash PROVE TypeOK'
  <1>0. /\ file.ver + 1 \in Nat /\ file.cred \in Creds /\ file.cred.acct \in Accounts \cup {None}
        /\ serial + 1 \in Nat /\ cli.cred \in Creds /\ cli.ref \in Nat /\ cli \in CliStates
    BY DEF TypeOK, Files, Creds, CliStates
  <1>1. CASE CliBegin \/ CliEnd
    <2>1. cli' \in CliStates
      BY <1>1, <1>0 DEF CliBegin, CliEnd, CliStates
    <2> QED
      BY <1>1, <2>1 DEF CliBegin, CliEnd, TypeOK, source, flight, world, history
  <1>2. CASE CliGrant
    <2>1. ASSUME NEW a \in Accounts \cup {None}, NEW tok \in {file.cred.tok, serial + 1}
          PROVE  [pc |-> "granted", ref |-> serial + 1,
                  cred |-> [tok |-> tok, acct |-> a]] \in CliStates
      BY <1>0 DEF CliStates, Creds
    <2>2. cli' \in CliStates /\ serial' \in Nat
      BY <1>2, <1>0, <2>1 DEF CliGrant
    <2>3. live' \subseteq Nat
      BY <1>2, <1>0 DEF CliGrant, TypeOK
    <2> QED
      BY <1>2, <2>2, <2>3 DEF CliGrant, TypeOK, source, flight, history
  <1>3. CASE CliWrite
    <2>1. file' \in Files /\ cli' \in CliStates
      BY <1>3, <1>0, ConstantTypes DEF CliWrite, Files, CliStates, None
    <2> QED
      BY <1>3, <2>1 DEF CliWrite, TypeOK, source, flight, world, history
  <1>4. CASE CliErase
    <2>1. file' \in Files
      BY <1>4, <1>0, ConstantTypes DEF CliErase, Files, None
    <2> QED
      BY <1>4, <2>1 DEF CliErase, TypeOK, source, flight, world, history
  <1>5. CASE TokenExpires
    BY <1>5 DEF TokenExpires, TypeOK, source, flight, history
  <1>6. CASE Revoke
    BY <1>6 DEF Revoke, TypeOK, source, flight, history
  <1>7. CASE Crash
    <2>1. /\ cl' \in [Callers -> CallerStates] /\ banned' \in [Callers -> Nat]
          /\ cached' \in Caches /\ fl' \in Flights
      BY <1>7, ConstantTypes DEF Crash, None
    <2>2. lost' \subseteq Nat
      <3>1. Spent \subseteq Nat /\ lost \subseteq Nat
        BY FlightFields DEF TypeOK, Spent
      <3> QED
        BY <1>7, <3>1 DEF Crash
    <2> QED
      BY <1>7, <2>1, <2>2 DEF Crash, TypeOK, world
  <1> QED
    BY <1>1, <1>2, <1>3, <1>4, <1>5, <1>6, <1>7 DEF CliStep

\* No step of a caller, the load, the CLI or the world breaks TypeOK.
LEMMA TypeNext == TypeOK /\ [Next]_vars => TypeOK'
  <1> SUFFICES ASSUME TypeOK, [Next]_vars PROVE TypeOK'
    OBVIOUS
  <1>1. CASE Next
    BY <1>1, TypeCaller, TypeFlight, TypeWorld DEF Next
  <1>2. CASE UNCHANGED vars
    BY <1>2 DEF vars, TypeOK, source, flight, world, history
  <1> QED
    BY <1>1, <1>2

\* Every variable of the credential source, its callers and the file keeps its
\* type, for any callers, accounts and bounds.
THEOREM AuthTypeOK == Spec => []TypeOK
  BY TypeInit, TypeNext, PTL DEF Spec

-----------------------------------------------------------------------------
(* What Invalidate promises *)

\* AuthSafe holds when the daemon starts: nothing is cached, marked or loading.
LEMMA SafeInit == Init => AuthSafe
  <1> SUFFICES ASSUME Init PROVE AuthSafe
    OBVIOUS
  <1>1. fl.pc = "none" /\ fl.gen = 0 /\ cached.cred.tok = None
    BY DEF Init, NoFlight, NoCache, NoCred
  <1>2. \A c \in Callers : banned[c] = None
    BY DEF Init
  <1> QED
    BY <1>1, <1>2 DEF Init, AuthSafe, GenBound, MarksKept, CacheUnmarked, FlightClean,
       CallerClean, Accepted, Clear

\* Steps that touch neither the source, the load, the callers nor the history
\* of rejections.
LEMMA SafeFrame ==
    ASSUME AuthSafe, UNCHANGED <<source, fl, cl, banned>>
    PROVE  AuthSafe'
  BY DEF AuthSafe, source, GenBound, MarksKept, CacheUnmarked, FlightClean, CallerClean,
     Settled, Clear

\* A caller moves on without having received a token: it must not become
\* settled by the move unless it was.
LEMMA SafeCallerMove ==
    ASSUME TypeOK, AuthSafe, NEW c \in Callers, NEW s \in CallerStates,
           cl' = [cl EXCEPT ![c] = s], UNCHANGED <<source, fl, banned>>,
           s.pc # "check", s.att = 2 => Settled(c),
           s.pc \in {"send", "done"} => Clear(c, s.cred.tok)
    PROVE  AuthSafe'
  <1>1. cl'[c] = s /\ \A d \in Callers : d # c => cl'[d] = cl[d]
    BY DEF TypeOK
  <1>2. GenBound' /\ MarksKept' /\ CacheUnmarked'
    BY DEF AuthSafe, source, GenBound, MarksKept, CacheUnmarked
  <1>3. CallerClean'
    BY <1>1 DEF AuthSafe, CallerClean, Clear
  <1>4. \A d \in Callers : Settled(d)' => Settled(d)
    BY <1>1 DEF Settled
  <1>5. FlightClean'
    BY <1>4 DEF AuthSafe, source, FlightClean, Clear
  <1> QED
    BY <1>2, <1>3, <1>5 DEF AuthSafe

\* Invalidate bumps the generation past every running load's and marks the
\* token before any later load can judge it.
LEMMA SafeInvalidate == ASSUME TypeOK, AuthSafe, NEW c \in Callers, Invalidate(c) PROVE AuthSafe'
  <1> DEFINE tok == cl[c].cred.tok
             full == ~isInvalidated(tok) /\ Cardinality(invalidated) >= MaxInvalidated
  <1>0. cl[c] \in CallerStates /\ tok \in Nat /\ fl.gen \in Nat /\ invalGen \in Nat
    BY CallerFields, FlightFields DEF TypeOK
  <1>1. /\ invalGen' = invalGen + 1
        /\ invalidated' = (IF full THEN {} ELSE invalidated) \cup {tok}
        /\ cached' = IF cached.cred.tok = tok THEN NoCache ELSE cached
        /\ banned' = [d \in Callers |-> IF d = c THEN tok ELSE IF full THEN None ELSE banned[d]]
        /\ fl' = fl
    BY DEF Invalidate, flight
  <1>2. /\ cl'[c].pc = "fast" /\ cl'[c].att = 1
        /\ \A d \in Callers : d # c => cl'[d] = cl[d]
    BY <1>0 DEF Invalidate, TypeOK, CallerStates
  <1>3. GenBound' /\ fl'.gen # invalGen'
    BY <1>0, <1>1 DEF AuthSafe, GenBound
  <1>4. MarksKept'
    BY <1>1 DEF AuthSafe, MarksKept
  <1>5. CacheUnmarked'
    BY <1>1 DEF AuthSafe, CacheUnmarked, NoCache, NoCred
  <1>6. \A d \in Callers : d # c => (banned'[d] = banned[d] \/ banned'[d] = None)
    BY <1>1
  <1>7. FlightClean'
    BY <1>1, <1>2, <1>3, <1>6 DEF AuthSafe, FlightClean, Settled, Clear
  <1>8. CallerClean'
    BY <1>2, <1>6 DEF AuthSafe, CallerClean, Clear
  <1> QED
    BY <1>3, <1>4, <1>5, <1>7, <1>8 DEF AuthSafe

\* Every step of a request preserves AuthSafe: what Get hands out was
\* judged unmarked, or came from a load that ended after the Invalidate.
LEMMA SafeCaller ==
    ASSUME TypeOK, AuthSafe, NEW c \in Callers, Begin(c) \/ CallerStep(c)
    PROVE  AuthSafe'
  <1>0. cl[c] \in CallerStates /\ cl[c].att \in {1, 2} /\ cached.cred \in Creds
    BY CallerFields DEF TypeOK, Caches
  <1>a. ASSUME NEW tok, ~isInvalidated(tok) PROVE Clear(c, tok)
    BY <1>a DEF AuthSafe, MarksKept, Clear, isInvalidated
  \* A Get yields a token that c has not reported.
  <1>b. ASSUME NEW cred \in Creds, Use(c, cred), Clear(c, cred.tok),
               UNCHANGED <<source, fl, banned>>
        PROVE  AuthSafe'
    <2> DEFINE pc == IF cl[c].try = 2 /\ cred = cl[c].old THEN "done" ELSE "send"
               s == [cl[c] EXCEPT !.pc = pc, !.cred = cred]
    <2>1. s \in CallerStates
      BY <1>0, CallerFields DEF CallerPcs
    <2>2. s.pc = pc /\ s.att = cl[c].att /\ s.cred = cred
      BY <1>0 DEF CallerStates
    <2>3. cl' = [cl EXCEPT ![c] = s]
      BY <1>b DEF Use
    <2> HIDE DEF s
    <2> QED
      BY <1>b, <2>1, <2>2, <2>3, SafeCallerMove DEF Settled
  \* c only moves its program counter.
  <1>c. ASSUME NEW pc \in CallerPcs \ {"check", "send"},
               cl' = [cl EXCEPT ![c] = [@ EXCEPT !.pc = pc]], UNCHANGED <<source, fl, banned>>,
               pc = "done" => Clear(c, cl[c].cred.tok)
        PROVE  AuthSafe'
    <2> DEFINE s == [cl[c] EXCEPT !.pc = pc]
    <2>1. s \in CallerStates
      BY <1>0, CallerFields
    <2>2. s.pc = pc /\ s.att = cl[c].att /\ s.cred = cl[c].cred
      BY <1>0 DEF CallerStates
    <2>3. cl' = [cl EXCEPT ![c] = s]
      BY <1>c
    <2> HIDE DEF s
    <2> QED
      BY <1>c, <2>1, <2>2, <2>3, SafeCallerMove DEF Settled
  <1>1. CASE Begin(c)
    <2>1. cl'[c] = [IdleCaller EXCEPT !.pc = "fast"] /\ \A d \in Callers : d # c => cl'[d] = cl[d]
      BY <1>1 DEF Begin, TypeOK
    <2>2. cl'[c].pc = "fast" /\ cl'[c].att = 1
      BY <2>1 DEF IdleCaller
    <2>3. banned'[c] = None /\ \A d \in Callers : d # c => banned'[d] = banned[d]
      BY <1>1 DEF Begin, TypeOK
    <2>4. UNCHANGED <<cached, invalidated, invalGen, fl>>
      BY <1>1 DEF Begin, source, flight
    <2>5. GenBound' /\ MarksKept' /\ CacheUnmarked'
      BY <2>3, <2>4 DEF AuthSafe, GenBound, MarksKept, CacheUnmarked
    <2>6. FlightClean'
      BY <2>1, <2>3, <2>4 DEF AuthSafe, FlightClean, Settled, Clear
    <2>7. CallerClean'
      BY <2>1, <2>3 DEF AuthSafe, CallerClean, Clear
    <2> QED
      BY <2>5, <2>6, <2>7 DEF AuthSafe
  <1>2. CASE Fast(c)
    <2>1. UNCHANGED <<source, fl, banned>>
      BY <1>2 DEF Fast, flight, history
    <2>2. CASE FastHit
      BY <1>2, <2>1, <2>2, <1>0, <1>a, <1>b DEF Fast, FastHit
    <2>3. CASE ~FastHit
      BY <1>2, <2>1, <2>3, <1>c DEF Fast, CallerPcs
    <2> QED
      BY <2>2, <2>3
  <1>3. CASE Do(c)
    <2>1. UNCHANGED <<source, banned>> /\ invalGen \in Nat
      BY <1>3 DEF Do, history, TypeOK
    <2>2. cl'[c].pc = "wait" /\ cl'[c].att = cl[c].att
          /\ \A d \in Callers : d # c => cl'[d] = cl[d]
      BY <1>3, <1>0 DEF Do, TypeOK, CallerStates
    <2>3. fl' = fl \/ (fl'.pc = "stat" /\ fl'.gen = invalGen)
      BY <1>3 DEF Do, NoFlight
    <2>4. GenBound' /\ MarksKept' /\ CacheUnmarked'
      BY <2>1, <2>3 DEF AuthSafe, source, GenBound, MarksKept, CacheUnmarked
    <2>5. FlightClean'
      BY <2>1, <2>2, <2>3 DEF AuthSafe, source, FlightClean, Settled, Clear, Accepted
    <2>6. CallerClean'
      BY <2>1, <2>2 DEF AuthSafe, CallerClean, Clear
    <2> QED
      BY <2>4, <2>5, <2>6 DEF AuthSafe
  <1>4. CASE Check(c)
    <2>1. UNCHANGED <<source, fl, banned>> /\ cl[c].pc = "check" /\ cl[c].cred \in Creds
      BY <1>4, <1>0, CallerFields DEF Check, flight, history
    <2>2. CASE cl[c].cred.tok = None
      BY <1>4, <2>1, <2>2, <1>c DEF Check, CallerPcs, Clear
    <2>3. CASE cl[c].cred.tok # None /\ isInvalidated(cl[c].cred.tok) /\ cl[c].att = 1
      <3> DEFINE s == [cl[c] EXCEPT !.pc = "fast", !.att = 2]
      <3>1. s \in CallerStates
        BY <1>0, CallerFields
      <3>2. s.pc = "fast" /\ cl' = [cl EXCEPT ![c] = s]
        BY <1>4, <2>3, <1>0 DEF Check, CallerStates
      <3> HIDE DEF s
      <3> QED
        BY <2>1, <3>1, <3>2, SafeCallerMove DEF Settled
    <2>4. CASE cl[c].cred.tok # None /\ ~isInvalidated(cl[c].cred.tok)
      BY <1>4, <2>1, <2>4, <1>a, <1>b DEF Check
    <2>5. CASE cl[c].cred.tok # None /\ cl[c].att = 2
      <3>1. Clear(c, cl[c].cred.tok)
        BY <2>1, <2>5 DEF AuthSafe, CallerClean
      <3> QED
        BY <1>4, <2>1, <2>5, <3>1, <1>b DEF Check
    <2> QED
      BY <1>0, <2>2, <2>3, <2>4, <2>5
  <1>5. CASE Answered(c) \/ Rejected(c)
    <2>1. Clear(c, cl[c].cred.tok)
      BY <1>5 DEF Answered, Rejected, AuthSafe, CallerClean
    <2> QED
      BY <1>5, <2>1, <1>c DEF Answered, Rejected, CallerPcs, flight, history
  <1>6. CASE Invalidate(c)
    BY <1>6, SafeInvalidate
  <1> QED
    BY <1>1, <1>2, <1>3, <1>4, <1>5, <1>6 DEF CallerStep

\* A load returns.  Its callers become settled, which is harmless because no
\* load runs any more, and those on their second attempt get a clear token.
LEMMA SafeDeliver ==
    ASSUME TypeOK, AuthSafe, NEW cred \in Creds, Deliver(cred),
           \A c \in Callers : cl[c].att = 2 => Clear(c, cred.tok)',
           \A c \in Callers : banned'[c] = banned[c] \/ banned'[c] = None,
           GenBound', MarksKept', CacheUnmarked'
    PROVE  AuthSafe'
  <1>1. ASSUME NEW c \in Callers
        PROVE  \/ cl'[c].pc = "check" /\ cl'[c].att = cl[c].att /\ cl'[c].cred = cred
               \/ cl'[c] = cl[c]
    BY DEF TypeOK, Deliver, CallerStates
  <1>2. CallerClean'
    BY <1>1 DEF AuthSafe, CallerClean, Clear
  <1>3. FlightClean'
    BY DEF Deliver, NoFlight, FlightClean, Accepted
  <1> QED
    BY <1>2, <1>3 DEF AuthSafe

\* The load fails: every caller gets NoCred.
LEMMA SafeFailure ==
    ASSUME TypeOK, AuthSafe, Deliver(NoCred), UNCHANGED source,
           \A c \in Callers : banned'[c] = banned[c] \/ banned'[c] = None
    PROVE  AuthSafe'
  <1>1. \A c \in Callers : Clear(c, NoCred.tok)'
    BY DEF Clear, NoCred
  <1>2. fl'.gen = 0 /\ invalGen' \in Nat
    BY DEF Deliver, NoFlight, source, TypeOK
  <1>3. GenBound' /\ MarksKept' /\ CacheUnmarked'
    BY <1>2 DEF AuthSafe, source, GenBound, MarksKept, CacheUnmarked
  <1> QED
    BY <1>1, <1>3, ConstantTypes, SafeDeliver

\* The load moves on without settling on a token.
LEMMA SafeFlightMove ==
    ASSUME AuthSafe, UNCHANGED <<source, cl, banned>>, fl'.pc \notin Accepted,
           fl'.gen <= invalGen
    PROVE  AuthSafe'
  BY DEF AuthSafe, source, GenBound, MarksKept, CacheUnmarked, FlightClean, CallerClean, Clear

\* The load moves on with the token and the generation it had settled on.
LEMMA SafeFlightKeep ==
    ASSUME AuthSafe, UNCHANGED <<source, cl, banned>>, fl.pc \in Accepted,
           fl'.gen = fl.gen, fl'.cred = fl.cred
    PROVE  AuthSafe'
  BY DEF AuthSafe, source, GenBound, MarksKept, CacheUnmarked, FlightClean, CallerClean,
     Settled, Clear

\* Every step of the load preserves AuthSafe: it settles only on a token that
\* is not marked, or that the endpoint has just issued.
LEMMA SafeFlight == ASSUME TypeOK, AuthSafe, FlightStep PROVE AuthSafe'
  <1>0. /\ fl \in Flights /\ fl.cred \in Creds /\ fl.cred.tok \in Nat /\ fl.gen \in Nat
        /\ invalGen \in Nat /\ fl.gen <= invalGen
    BY FlightFields DEF TypeOK, AuthSafe, GenBound
  <1>1. CASE FlStat
    <2>1. fl'.pc = "read" /\ fl'.gen = fl.gen
      BY <1>1, <1>0 DEF FlStat, Flights
    <2> QED
      BY <1>1, <1>0, <2>1, SafeFlightMove DEF FlStat, history, Accepted
  <1>2. CASE FlRead
    <2>1. UNCHANGED <<source, banned>>
      BY <1>2 DEF FlRead, history
    <2>2. CASE credFrom(file.cred)
      <3>1. fl'.pc = "judge" /\ fl'.gen = fl.gen /\ UNCHANGED cl
        BY <1>2, <1>0, <2>2 DEF FlRead, Flights
      <3> QED
        BY <1>0, <2>1, <3>1, SafeFlightMove DEF Accepted
    <2>3. CASE ~credFrom(file.cred)
      BY <1>2, <2>1, <2>3, SafeFailure DEF FlRead
    <2> QED
      BY <2>2, <2>3
  <1>3. CASE FlJudge
    <2>1. UNCHANGED <<source, banned>>
      BY <1>3 DEF FlJudge, history
    <2>2. CASE Deliver(NoCred)
      BY <2>1, <2>2, SafeFailure
    <2>3. CASE fl' = [fl EXCEPT !.pc = "regen"] \/ fl' = [fl EXCEPT !.pc = "post"]
      <3>1. fl'.pc \in {"regen", "post"} /\ fl'.gen = fl.gen
        BY <2>3, <1>0 DEF Flights
      <3>2. CASE UNCHANGED cl
        BY <1>0, <2>1, <3>1, <3>2, SafeFlightMove DEF Accepted
      <3> QED
        BY <1>3, <2>2, <3>2 DEF FlJudge
    <2>4. CASE /\ ~isInvalidated(fl.cred.tok)
               /\ fl' = [fl EXCEPT !.pc = "store"] /\ UNCHANGED cl
      <3>1. fl'.pc = "store" /\ fl'.gen = fl.gen /\ fl'.cred = fl.cred
        BY <2>4, <1>0 DEF Flights
      <3>2. \A c \in Callers : Clear(c, fl.cred.tok)
        BY <2>4 DEF AuthSafe, MarksKept, Clear, isInvalidated
      <3> QED
        BY <1>0, <2>1, <2>4, <3>1, <3>2 DEF AuthSafe, source, GenBound, MarksKept, CacheUnmarked,
           FlightClean, CallerClean, Clear
    <2> QED
      BY <1>3, <2>2, <2>3, <2>4 DEF FlJudge
  <1>4. CASE FlRegen
    <2>1. fl'.pc = "lock" /\ fl'.gen = invalGen
      BY <1>4, <1>0 DEF FlRegen, Flights
    <2> QED
      BY <1>4, <1>0, <2>1, SafeFlightMove DEF FlRegen, history, Accepted
  <1>5. CASE FlLock
    <2>1. fl'.pc = "stat" /\ fl'.gen = fl.gen
      BY <1>5, <1>0 DEF FlLock, Flights
    <2> QED
      BY <1>5, <1>0, <2>1, SafeFlightMove DEF FlLock, history, Accepted
  <1>6. CASE FlLockGiveUp \/ FlRefused
    BY <1>6, SafeFailure DEF FlLockGiveUp, FlRefused, history
  <1>7. CASE FlGranted
    <2>1. PICK tok \in {fl.cred.tok, serial + 1}, rotate \in BOOLEAN :
             /\ Redeem(tok, rotate)
             /\ fl' = [fl EXCEPT !.pc = "changed", !.cred.tok = tok, !.sent = fl.ref,
                                 !.ref = IF rotate THEN serial + 1 ELSE fl.ref]
      BY <1>7 DEF FlGranted
    <2>2. fl'.gen = fl.gen /\ fl'.cred.tok = tok
      BY <2>1, <1>0 DEF Flights, Creds
    <2>3. UNCHANGED <<cached, invalidated, invalGen, cl>>
      BY <1>7 DEF FlGranted, source
    <2>4. \A c \in Callers : Clear(c, tok)' /\ (banned'[c] = banned[c] \/ banned'[c] = None)
      BY <2>1 DEF Redeem, Clear
    <2>5. GenBound' /\ MarksKept' /\ CacheUnmarked'
      BY <1>0, <2>2, <2>3, <2>4 DEF AuthSafe, GenBound, MarksKept, CacheUnmarked
    <2>6. FlightClean'
      BY <2>2, <2>4 DEF FlightClean, Clear
    <2>7. CallerClean'
      BY <2>3, <2>4 DEF AuthSafe, CallerClean, Clear
    <2> QED
      BY <2>5, <2>6, <2>7 DEF AuthSafe
  <1>8. CASE FlAnswerLost
    <2>1. \A c \in Callers : banned'[c] = banned[c] \/ banned'[c] = None
      BY <1>8 DEF FlAnswerLost, Redeem
    <2> QED
      BY <1>8, <2>1, SafeFailure DEF FlAnswerLost
  <1>9. CASE FlChanged
    <2>1. UNCHANGED <<source, cl, banned>> /\ fl.pc \in Accepted
      BY <1>9 DEF FlChanged, Accepted
    <2>2. \/ fl'.gen = fl.gen /\ fl'.cred = fl.cred
          \/ fl'.gen = fl.gen /\ fl'.pc = "stat"
      BY <1>9, <1>0 DEF FlChanged, Flights
    <2> QED
      BY <1>0, <2>1, <2>2, SafeFlightMove, SafeFlightKeep DEF Accepted
  <1>10. CASE FlWrite \/ FlWriteFails
    <2>1. UNCHANGED <<source, cl, banned>> /\ fl.pc \in Accepted
      BY <1>10 DEF FlWrite, FlWriteFails, Accepted
    <2>2. fl'.gen = fl.gen /\ fl'.cred = fl.cred
      BY <1>10, <1>0 DEF FlWrite, FlWriteFails, Flights
    <2> QED
      BY <2>1, <2>2, SafeFlightKeep
  <1>11. CASE FlRestat
    <2>1. UNCHANGED <<source, cl, banned>> /\ fl.pc \in Accepted
      BY <1>11 DEF FlRestat, Accepted, history
    <2>2. fl'.gen = fl.gen /\ fl'.cred = fl.cred
      BY <1>11, <1>0 DEF FlRestat, Flights
    <2> QED
      BY <2>1, <2>2, SafeFlightKeep
  \* store clears a mark only when no caller still relies on it: either the
  \* token is not marked, or the generations agree and FlightClean applies.
  <1>12. CASE FlStore
    <2>1. /\ fl.pc = "store" /\ store(fl.cred, fl.ver, fl.gen, fl.mem) /\ Deliver(fl.cred)
          /\ UNCHANGED <<invalGen, banned>>
      BY <1>12 DEF FlStore, history
    <2>2. GenBound'
      <3>1. fl'.gen = 0
        BY <2>1 DEF Deliver, NoFlight
      <3> QED
        BY <2>1, <1>0, <3>1 DEF GenBound
    <2>3. MarksKept' /\ CacheUnmarked'
      <3>1. CASE invalGen # fl.gen /\ isInvalidated(fl.cred.tok)
        BY <2>1, <3>1 DEF store, AuthSafe, MarksKept, CacheUnmarked
      <3>2. CASE ~(invalGen # fl.gen /\ isInvalidated(fl.cred.tok))
        <4>1. /\ cached' = [cred |-> fl.cred, ver |-> fl.ver, mem |-> fl.mem]
              /\ invalidated' = invalidated \ {fl.cred.tok}
          BY <2>1, <3>2 DEF store
        <4>2. \A c \in Callers : Clear(c, fl.cred.tok)
          BY <2>1, <3>2 DEF AuthSafe, FlightClean, MarksKept, Clear, isInvalidated, Accepted
        <4>3. MarksKept'
          BY <2>1, <4>1, <4>2 DEF AuthSafe, MarksKept, Clear
        <4>4. CacheUnmarked'
          BY <4>1 DEF CacheUnmarked
        <4> QED
          BY <4>3, <4>4
      <3> QED
        BY <3>1, <3>2
    <2>4. \A c \in Callers : cl[c].att = 2 => Clear(c, fl.cred.tok)
      BY <2>1 DEF AuthSafe, FlightClean, Settled, Accepted
    <2>5. \A c \in Callers : cl[c].att = 2 => (banned'[c] = None \/ banned'[c] # fl.cred.tok)
      BY <2>1, <2>4 DEF Clear
    <2>6. CallerClean'
      <3>1. ASSUME NEW c \in Callers
            PROVE  \/ cl'[c].pc = "check" /\ cl'[c].att = cl[c].att /\ cl'[c].cred = fl.cred
                   \/ cl'[c] = cl[c]
        BY <2>1 DEF TypeOK, Deliver, CallerStates
      <3> QED
        BY <2>1, <2>5, <3>1 DEF AuthSafe, CallerClean, Clear
    <2>7. FlightClean'
      BY <2>1 DEF Deliver, NoFlight, FlightClean, Accepted
    <2> QED
      BY <2>2, <2>3, <2>6, <2>7 DEF AuthSafe
  <1> QED
    BY <1>1, <1>2, <1>3, <1>4, <1>5, <1>6, <1>7, <1>8, <1>9, <1>10, <1>11, <1>12 DEF FlightStep

\* AuthSafe is inductive relative to TypeOK.
LEMMA SafeNext == TypeOK /\ AuthSafe /\ [Next]_vars => AuthSafe'
  <1> SUFFICES ASSUME TypeOK, AuthSafe, [Next]_vars PROVE AuthSafe'
    OBVIOUS
  <1>1. CASE \E c \in Callers : Begin(c) \/ CallerStep(c)
    BY <1>1, SafeCaller
  <1>2. CASE FlightStep
    BY <1>2, SafeFlight
  <1>3. CASE CliStep \/ TokenExpires \/ Revoke
    BY <1>3, SafeFrame DEF CliStep, CliBegin, CliGrant, CliWrite, CliErase, CliEnd, TokenExpires, Revoke,
       flight, history
  <1>4. CASE Crash
    <2>1. fl'.pc = "none" /\ fl'.gen = 0 /\ invalGen' = 0 /\ cached'.cred.tok = None
      BY <1>4 DEF Crash, NoFlight, NoCache, NoCred
    <2>2. \A c \in Callers : banned'[c] = None
      BY <1>4 DEF Crash
    <2> QED
      BY <2>1, <2>2 DEF AuthSafe, GenBound, MarksKept, CacheUnmarked, FlightClean, CallerClean,
         Accepted, Clear
  <1>5. CASE UNCHANGED vars
    BY <1>5, SafeFrame DEF vars, flight, history
  <1> QED
    BY <1>1, <1>2, <1>3, <1>4, <1>5 DEF Next

\* The inductive invariant of the credential source holds in every behaviour.
THEOREM AuthInvariant == Spec => [](TypeOK /\ AuthSafe)
  BY TypeInit, SafeInit, TypeNext, SafeNext, PTL DEF Spec

\* A caller that reported a token rejected is never handed it again by Get,
\* unless the endpoint issued it anew or the bounded set was dropped: the claim
\* behind getAttempts and store's generation check, for any number of callers.
THEOREM AuthNoRejectedTokenAgain == Spec => []NoRejectedTokenAgain
  <1>1. AuthSafe => NoRejectedTokenAgain
    BY DEF AuthSafe, CallerClean, NoRejectedTokenAgain
  <1> QED
    BY <1>1, AuthInvariant, PTL

\* A rejected token is never left in Source.cached.
THEOREM AuthCacheUnmarked == Spec => []CacheUnmarked
  BY AuthInvariant, PTL DEF AuthSafe

\* The marks are a finite set within the bound: each store takes one away, each
\* Invalidate adds one or, at the bound, starts again from one.
LEMMA MarksNext == TypeOK /\ MarksFinite /\ [Next]_vars => MarksFinite'
  <1> SUFFICES ASSUME TypeOK, MarksFinite, [Next]_vars PROVE MarksFinite'
    OBVIOUS
  <1>0. MaxInvalidated \in Nat \ {0} /\ Cardinality(invalidated) \in Nat
    BY AuthAssumption, FS_CardinalityType DEF MarksFinite
  <1>1. ASSUME NEW c \in Callers, Invalidate(c) PROVE MarksFinite'
    <2> DEFINE tok == cl[c].cred.tok
               full == ~isInvalidated(tok) /\ Cardinality(invalidated) >= MaxInvalidated
    <2>1. invalidated' = (IF full THEN {} ELSE invalidated) \cup {tok}
      BY <1>1 DEF Invalidate
    <2>2. CASE full
      <3>1. invalidated' = {tok}
        BY <2>1, <2>2
      <3> QED
        <4>1. IsFiniteSet({tok}) /\ Cardinality({tok}) = 1
          BY FS_Singleton, Zenon
        <4>2. IsFiniteSet(invalidated') /\ Cardinality(invalidated') = 1
          BY <3>1, <4>1
        <4> QED
          BY <1>0, <4>2 DEF MarksFinite
    <2>3. CASE isInvalidated(tok)
      <3>1. invalidated' = invalidated
        BY <2>1, <2>3 DEF isInvalidated
      <3> QED
        BY <3>1 DEF MarksFinite
    <2>4. CASE ~isInvalidated(tok) /\ ~full
      <3>1. invalidated' = invalidated \cup {tok} /\ tok \notin invalidated
        BY <2>1, <2>4 DEF isInvalidated
      <3>2. Cardinality(invalidated) < MaxInvalidated
        BY <1>0, <2>4
      <3>3. /\ IsFiniteSet(invalidated')
            /\ Cardinality(invalidated') = Cardinality(invalidated) + 1
        BY <3>1, FS_AddElement DEF MarksFinite
      <3> QED
        BY <1>0, <3>2, <3>3 DEF MarksFinite
    <2> QED
      BY <2>2, <2>3, <2>4
  <1>2. CASE FlStore
    <2>1. CASE invalidated' = invalidated
      BY <2>1 DEF MarksFinite
    <2>2. CASE invalidated' = invalidated \ {fl.cred.tok}
      <3>1. IsFiniteSet(invalidated') /\ Cardinality(invalidated') <= Cardinality(invalidated)
        BY <2>2, FS_Subset DEF MarksFinite
      <3>2. Cardinality(invalidated') \in Nat
        BY <3>1, FS_CardinalityType
      <3> QED
        BY <1>0, <3>1, <3>2 DEF MarksFinite
    <2> QED
      BY <1>2, <2>1, <2>2 DEF FlStore, store
  <1>3. CASE Crash
    <2>1. invalidated' = {}
      BY <1>3 DEF Crash
    <2> QED
      BY <1>0, <2>1, FS_EmptySet DEF MarksFinite
  <1>4. CASE UNCHANGED invalidated
    BY <1>4 DEF MarksFinite
  <1>5. \/ \E c \in Callers : Invalidate(c)
        \/ FlStore \/ Crash \/ UNCHANGED invalidated
    BY DEF Next, CallerStep, Begin, Fast, Do, Check, Answered, Rejected, FlightStep, FlStat, FlRead,
       FlJudge, FlRegen, FlLock, FlLockGiveUp, FlGranted, FlAnswerLost, FlRefused, FlChanged,
       FlWrite, FlWriteFails, FlRestat, CliStep, CliBegin, CliGrant, CliWrite, CliErase, CliEnd,
       TokenExpires, Revoke, vars, source
  <1> QED
    BY <1>1, <1>2, <1>3, <1>4, <1>5

\* The remembered plaintext tokens never exceed maxInvalidated, and the bound
\* never costs the caller at hand the mark it just set.
THEOREM AuthMarksBounded == Spec => []MarksBounded
  <1>1. Init => MarksFinite
    BY AuthAssumption, FS_EmptySet DEF Init, MarksFinite
  <1>2. MarksFinite /\ AuthSafe => MarksBounded
    BY DEF MarksFinite, AuthSafe, MarksKept, MarksBounded, isInvalidated
  <1> QED
    BY <1>1, <1>2, MarksNext, AuthInvariant, PTL DEF Spec

-----------------------------------------------------------------------------
(***************************************************************************)
(* What the lock of auth.json buys when the CLI takes it too.              *)
(*                                                                         *)
(* CacheMatchesFile is not inductive by itself.  LockDiscipline            *)
(* says who may be where while the lock is held: from the second read on   *)
(* the load owns it, so the version the change check found is still there  *)
(* at the rename.  FileKnown says what a load and the cache know of the    *)
(* file: a fingerprint is never newer than the file, since it is taken     *)
(* before the content is read, and one that still matches has its content. *)
(***************************************************************************)

\* Steps of refreshUnderLock after the second read judged the file stale.
Refreshing == {"post", "changed", "write", "restat"}

LockDiscipline ==
    /\ fl.phase # "load" => lock = "self"
    /\ fl.pc \in Refreshing => fl.phase = "locked"
    /\ cli.pc # "idle" => lock = "cli"
    /\ fl.pc = "write" => file.ver = fl.ver

FileKnown ==
    /\ file.ver > 0 /\ cached.ver <= file.ver /\ fl.ver <= file.ver
    /\ fl.pc = "judge" /\ fl.ver = file.ver => fl.cred = file.cred
    /\ fl.pc = "store" /\ fl.ver = file.ver /\ ~fl.mem => fl.cred = file.cred
    /\ fl.pc = "restat" /\ ~fl.mem => fl.cred = file.cred
    /\ CacheMatchesFile

LockInv == LockDiscipline /\ FileKnown

\* LockInv holds when the daemon starts.
LEMMA LockInit == Init => LockInv
  BY DEF Init, LockInv, LockDiscipline, FileKnown, CacheMatchesFile, NoFlight, NoCache, NoCred,
     None, Refreshing

\* A step that leaves file, lock, load and CLI alone may only drop the cache.
LEMMA LockFrame ==
    ASSUME TypeOK, LockInv, UNCHANGED <<file, lock, fl, cli>>,
           cached' = cached \/ cached' = NoCache
    PROVE  LockInv'
  <1>1. file.ver \in Nat
    BY DEF TypeOK, Files
  <1> QED
    BY <1>1 DEF LockInv, LockDiscipline, FileKnown, CacheMatchesFile, NoCache, NoCred, None

\* A load that returns gives its lock up, and leaves the file as it is.
LEMMA LockDeliver ==
    ASSUME TypeOK, LockInv, NEW cred, Deliver(cred), UNCHANGED <<file, cli>>,
           cached'.ver <= file.ver, CacheMatchesFile'
    PROVE  LockInv'
  <1>1. file.ver \in Nat
    BY DEF TypeOK, Files
  <1>2. /\ fl'.phase = "load" /\ fl'.pc = "none" /\ fl'.ver = 0
        /\ lock' = IF lock = "self" THEN "free" ELSE lock
    BY DEF Deliver, NoFlight, None
  <1>3. LockDiscipline'
    BY <1>2 DEF LockInv, LockDiscipline, Refreshing
  <1>4. FileKnown'
    BY <1>1, <1>2 DEF LockInv, FileKnown
  <1> QED
    BY <1>3, <1>4 DEF LockInv

\* The same for a load that fails, which stores nothing.
LEMMA LockFailure ==
    ASSUME TypeOK, LockInv, NEW cred, Deliver(cred), UNCHANGED <<file, cli, cached>>
    PROVE  LockInv'
  <1>1. cached'.ver <= file.ver /\ CacheMatchesFile'
    BY DEF LockInv, FileKnown, CacheMatchesFile
  <1> QED
    BY <1>1, LockDeliver

\* Every step of the load preserves LockInv.
LEMMA LockFlight == ASSUME TypeOK, LockInv, FlightStep PROVE LockInv'
  <1>0. /\ fl \in Flights /\ file \in Files /\ file.ver \in Nat /\ fl.ver \in Nat
        /\ fl.mem \in BOOLEAN
    BY FlightFields DEF TypeOK, Files
  <1> USE DEF LockInv, LockDiscipline, FileKnown, CacheMatchesFile, Refreshing
  <1>1. CASE FlStat
    BY <1>0, <1>1 DEF FlStat, Flights, source
  <1>2. CASE FlRead
    <2>1. CASE credFrom(file.cred)
      BY <1>0, <1>2, <2>1 DEF FlRead, Flights, source
    <2> QED
      BY <1>2, <2>1, LockFailure DEF FlRead, source
  <1>3. CASE FlJudge
    <2>1. UNCHANGED <<file, cached, cli>>
      BY <1>3 DEF FlJudge, source
    <2>2. CASE Deliver(NoCred)
      BY <2>1, <2>2, LockFailure
    <2>3. CASE fl' = [fl EXCEPT !.pc = "post"] /\ fl.phase = "locked" /\ lock' = lock
      BY <1>0, <2>1, <2>3 DEF Flights
    <2>4. CASE fl' = [fl EXCEPT !.pc = "regen"] /\ lock' = lock
      BY <1>0, <2>1, <2>4 DEF Flights
    <2>5. CASE fl' = [fl EXCEPT !.pc = "store"] /\ lock' = lock
      BY <1>0, <1>3, <2>1, <2>5 DEF FlJudge, Flights
    <2> QED
      BY <1>3, <2>2, <2>3, <2>4, <2>5 DEF FlJudge
  <1>4. CASE FlRegen
    BY <1>0, <1>4 DEF FlRegen, Flights, source
  <1>5. CASE FlLock
    BY <1>0, <1>5 DEF FlLock, Flights, source
  <1>6. CASE FlLockGiveUp \/ FlRefused \/ FlAnswerLost
    BY <1>6, LockFailure DEF FlLockGiveUp, FlRefused, FlAnswerLost, source
  <1>7. CASE FlGranted
    <2>1. /\ fl'.pc = "changed" /\ fl'.phase = fl.phase /\ fl'.ver = fl.ver
          /\ fl.pc = "post" /\ UNCHANGED <<file, lock, cached, cli>>
      BY <1>0, <1>7 DEF FlGranted, Flights, source
    <2> QED
      BY <2>1
  <1>8. CASE FlChanged
    BY <1>0, <1>8 DEF FlChanged, Flights, source
  \* The lock is ours, so the CLI has nothing in hand; no cache entry carries
  \* the version the rename creates.
  <1>9. CASE FlWrite
    <2>1. /\ file'.ver = file.ver + 1 /\ file'.cred = fl.cred
          /\ fl'.pc = "restat" /\ fl'.phase = fl.phase /\ fl'.ver = fl.ver
          /\ fl'.cred = fl.cred /\ fl.pc = "write" /\ UNCHANGED <<lock, cached, cli>>
      BY <1>0, <1>9 DEF FlWrite, Flights, source
    <2> QED
      BY <1>0, <2>1 DEF TypeOK, Caches
  <1>10. CASE FlWriteFails
    BY <1>0, <1>10 DEF FlWriteFails, Flights, source
  <1>11. CASE FlRestat
    <2>1. PICK v \in {file.ver, None} : fl' = [fl EXCEPT !.pc = "store", !.ver = v]
      BY <1>11 DEF FlRestat
    <2>2. UNCHANGED <<file, lock, cached, cli>> /\ fl.pc = "restat"
      BY <1>11 DEF FlRestat, source
    <2> QED
      BY <1>0, <2>1, <2>2 DEF Flights, None
  <1>12. CASE FlStore
    <2>1. /\ fl.pc = "store" /\ Deliver(fl.cred) /\ UNCHANGED <<file, cli>>
          /\ \/ cached' = cached
             \/ cached' = [cred |-> fl.cred, ver |-> fl.ver, mem |-> fl.mem]
      BY <1>12 DEF FlStore, store
    <2>2. cached'.ver <= file.ver /\ CacheMatchesFile'
      BY <2>1
    <2> QED
      BY <2>1, <2>2, LockDeliver
  <1> QED
    BY <1>1, <1>2, <1>3, <1>4, <1>5, <1>6, <1>7, <1>8, <1>9, <1>10, <1>11, <1>12 DEF FlightStep

\* A CLI that takes the lock writes only while no load is refreshing.
LEMMA LockCli == ASSUME CliHonoursLock, TypeOK, LockInv, CliStep PROVE LockInv'
  <1>0. file.ver \in Nat /\ cached.ver \in Nat /\ fl.ver \in Nat /\ cli \in CliStates
    BY DEF TypeOK, Files, Caches, Flights
  <1> USE DEF LockInv, LockDiscipline, FileKnown, CacheMatchesFile, Refreshing
  <1>1. CASE CliBegin
    BY <1>0, <1>1 DEF CliBegin, source, flight
  <1>2. CASE CliGrant
    <2>1. cli'.pc = "granted" /\ cli.pc = "busy" /\ UNCHANGED <<file, lock, cached, fl>>
      BY <1>2 DEF CliGrant, source, flight
    <2> QED
      BY <2>1
  <1>3. CASE CliWrite \/ CliErase
    <2>1. /\ cli.pc # "idle" /\ file'.ver = file.ver + 1 /\ UNCHANGED <<lock, cached, fl>>
      BY <1>3 DEF CliWrite, CliErase, source, flight
    <2>2. fl.phase = "load" /\ fl.pc \notin Refreshing /\ lock = "cli"
      BY <2>1
    <2> QED
      BY <1>0, <2>1, <2>2
  <1>4. CASE CliEnd
    BY <1>0, <1>4 DEF CliEnd, CliStates, source, flight
  <1> QED
    BY <1>1, <1>2, <1>3, <1>4 DEF CliStep

\* LockInv is inductive relative to TypeOK when the CLI takes the lock.
LEMMA LockNext == ASSUME CliHonoursLock PROVE TypeOK /\ LockInv /\ [Next]_vars => LockInv'
  <1> SUFFICES ASSUME TypeOK, LockInv, [Next]_vars PROVE LockInv'
    OBVIOUS
  <1>1. ASSUME NEW c \in Callers, Begin(c) \/ CallerStep(c) PROVE LockInv'
    <2>1. CASE Do(c)
      <3>1. /\ fl' = fl \/ fl' = [NoFlight EXCEPT !.pc = "stat", !.gen = invalGen]
            /\ UNCHANGED <<file, lock, cached, cli>>
        BY <2>1 DEF Do, source
      <3>2. CASE fl' = fl
        BY <3>1, <3>2, LockFrame
      <3>3. CASE fl' = [NoFlight EXCEPT !.pc = "stat", !.gen = invalGen]
        <4>1. fl'.pc = "stat" /\ fl'.phase = "load" /\ fl'.ver = 0
          BY <3>3 DEF NoFlight, None
        <4>2. file.ver \in Nat
          BY DEF TypeOK, Files
        <4> QED
          BY <3>1, <4>1, <4>2 DEF LockInv, LockDiscipline, FileKnown, CacheMatchesFile, Refreshing
      <3> QED
        BY <3>1, <3>2, <3>3
    <2>2. CASE ~Do(c)
      BY <1>1, <2>2, LockFrame DEF CallerStep, Begin, Fast, Check, Answered, Rejected, Invalidate,
         source, flight
    <2> QED
      BY <2>1, <2>2
  <1>2. CASE FlightStep
    BY <1>2, LockFlight
  <1>3. CASE CliStep
    BY <1>3, LockCli
  <1>4. CASE TokenExpires \/ Revoke \/ UNCHANGED vars
    BY <1>4, LockFrame DEF TokenExpires, Revoke, vars, source, flight
  <1>5. CASE Crash
    <2>1. /\ fl' = NoFlight /\ cached' = NoCache /\ UNCHANGED <<file, cli>>
          /\ lock' = IF lock = "self" THEN "free" ELSE lock
      BY <1>5 DEF Crash
    <2> QED
      BY <2>1 DEF LockInv, LockDiscipline, FileKnown, CacheMatchesFile, Refreshing, NoFlight,
         NoCache, NoCred, None, TypeOK, Files
  <1> QED
    BY <1>1, <1>2, <1>3, <1>4, <1>5 DEF Next

\* When the CLI takes the lock, the discipline holds in every behaviour.
THEOREM AuthLockInvariant == ASSUME CliHonoursLock PROVE Spec => [](TypeOK /\ LockInv)
  BY TypeInit, LockInit, TypeNext, LockNext, PTL DEF Spec

\* When the CLI takes the lock, a cached credential whose fingerprint is the
\* file's is the file's, except one kept in memory after a failed write.
THEOREM AuthCacheMatchesFile == ASSUME CliHonoursLock PROVE Spec => []CacheMatchesFile
  BY AuthLockInvariant, PTL DEF LockInv, FileKnown

-----------------------------------------------------------------------------
(***************************************************************************)
(* The refresh token on disk.  Nothing is assumed of the CLI here: it may  *)
(* refresh and write at any moment, the load's check and rename included.  *)
(* DiskRedeemable is not inductive, for a spent token may stand on disk as *)
(* long as someone holds its successor.  Held says who: the load that has  *)
(* redeemed it and not renamed yet, or the CLI that has not written yet.   *)
(* LastLook is what the change check rests on: the token that was sent is  *)
(* the one on disk for as long as nobody has written since the re-read,    *)
(* and what anybody has written since is neither that token nor ours.  So  *)
(* a file the check adopts is one whose token our refresh has not spent.   *)
(* CliOwn keeps the two from spending each other's token.                  *)
(***************************************************************************)

\* The load holds tokens that are not on disk yet.
Holding == fl.pc \in {"changed", "write"}

\* Grants are numbered in order, and nothing newer than the file has been seen.
Numbered ==
    /\ None \notin live /\ \A t \in live : t <= serial
    /\ file.ref <= serial /\ fl.ref <= serial /\ fl.sent <= serial
    /\ fl.ver <= file.ver /\ fl.seen <= file.ver

\* The part of LockDiscipline that the load alone upholds.
OwnLock ==
    /\ fl.phase # "load" => lock = "self"
    /\ fl.pc \in Refreshing => fl.phase = "locked"

LastLook ==
    /\ fl.pc \in {"judge", "post"} =>
          /\ fl.ver <= fl.seen
          /\ file.ver = fl.seen => file.ref = fl.ref
          /\ file.ver # fl.seen => file.ref = None \/ file.ref # fl.ref
    /\ Holding =>
          /\ fl.ver <= fl.seen
          /\ file.ver = fl.seen => file.ref = fl.sent
          /\ file.ver # fl.seen => file.ref = None \/ file.ref \notin {fl.sent, fl.ref}

Held ==
    \/ file.ref = None \/ file.ref \in live \/ file.ref \in lost
    \/ cli.pc = "granted"
    \/ Holding /\ file.ver = fl.seen /\ fl.ref # fl.sent

\* A token the endpoint has just issued to the load is spent by nobody else.
Unspent == Holding /\ fl.ref # fl.sent => fl.ref \in live

CliOwn ==
    cli.pc = "granted" => cli.ref \in live /\ cli.ref \notin {None, file.ref, fl.ref, fl.sent}

DiskInv == Numbered /\ OwnLock /\ LastLook /\ Held /\ Unspent /\ CliOwn

\* DiskInv holds when the daemon starts.
LEMMA DiskInit == Init => DiskInv
  BY DEF Init, DiskInv, Numbered, OwnLock, LastLook, Held, Unspent, CliOwn, Holding, NoFlight, None,
     Refreshing

\* The numbers DiskInv compares are numbers.
LEMMA DiskTypes ==
    ASSUME TypeOK
    PROVE  /\ fl \in Flights /\ fl.ref \in Nat /\ fl.ver \in Nat /\ fl.sent \in Nat
           /\ fl.seen \in Nat /\ file.ref \in Nat /\ file.ver \in Nat
           /\ serial \in Nat /\ live \subseteq Nat /\ lost \subseteq Nat /\ cli.ref \in Nat
  BY DEF TypeOK, Flights, Files, CliStates

\* A step that touches neither the file, its lock, the load, the CLI, the
\* endpoint nor the history of losses.
LEMMA DiskFrame ==
    ASSUME DiskInv, UNCHANGED <<file, lock, fl, cli, serial, live, lost>>
    PROVE  DiskInv'
  BY DEF DiskInv, Numbered, OwnLock, LastLook, Held, Unspent, CliOwn, Holding

\* The load ends, or begins anew, with nothing in hand: what it held is on disk,
\* or its loss is on record.
LEMMA DiskDrop ==
    ASSUME TypeOK, DiskInv, UNCHANGED <<file, cli, serial, live>>,
           fl'.pc \in {"none", "stat"}, fl'.phase = "load", fl'.ref = None, fl'.ver = None,
           fl'.sent = None, fl'.seen = None,
           lost \subseteq lost', Holding => Spent \subseteq lost'
    PROVE  DiskInv'
  <1>1. Numbered'
    BY DiskTypes DEF DiskInv, Numbered, None
  <1>2. OwnLock' /\ LastLook' /\ Unspent'
    BY DEF OwnLock, LastLook, Unspent, Holding, Refreshing
  <1>3. Held'
    <2>1. CASE Holding /\ file.ver = fl.seen /\ fl.ref # fl.sent
      <3>1. file.ref = fl.sent
        BY <2>1 DEF DiskInv, LastLook
      <3>2. file.ref \in lost'
        BY <2>1, <3>1 DEF Spent
      <3> QED
        BY <3>2 DEF Held
    <2>2. CASE ~(Holding /\ file.ver = fl.seen /\ fl.ref # fl.sent)
      BY <2>2 DEF DiskInv, Held
    <2> QED
      BY <2>1, <2>2
  <1>4. CliOwn'
    BY DEF DiskInv, CliOwn
  <1> QED
    BY <1>1, <1>2, <1>3, <1>4 DEF DiskInv

\* A load that returns without having redeemed a token, or after it has put it
\* down.
LEMMA DiskDeliver ==
    ASSUME TypeOK, DiskInv, NEW cred, Deliver(cred), ~Holding,
           UNCHANGED <<file, cli, serial, live, lost>>
    PROVE  DiskInv'
  <1>1. /\ fl'.pc = "none" /\ fl'.phase = "load" /\ fl'.ref = None /\ fl'.ver = None
        /\ fl'.sent = None /\ fl'.seen = None
    BY DEF Deliver, NoFlight
  <1> QED
    BY <1>1, DiskDrop

\* The load moves on, before it holds anything or after it has put it down.
LEMMA DiskMove ==
    ASSUME TypeOK, DiskInv, UNCHANGED <<file, lock, cli, serial, live, lost>>,
           ~Holding, ~Holding',
           fl'.ref \in {fl.ref, file.ref}, fl'.ver \in {fl.ver, file.ver, None},
           fl'.sent = fl.sent, fl'.seen \in {fl.seen, file.ver},
           fl'.phase = fl.phase, fl'.pc \in Refreshing => fl.phase = "locked",
           \/ fl'.pc \notin {"judge", "post"}
           \/ fl'.ref = file.ref /\ fl'.seen = file.ver /\ fl'.ver = fl.ver
           \/ fl.pc \in {"judge", "post"} /\ fl'.ref = fl.ref /\ fl'.seen = fl.seen /\ fl'.ver = fl.ver
    PROVE  DiskInv'
  <1>1. Numbered'
    BY DiskTypes DEF DiskInv, Numbered, None
  <1>2. OwnLock'
    BY DEF DiskInv, OwnLock
  <1>3. LastLook'
    BY DiskTypes DEF DiskInv, LastLook, Numbered
  <1>4. Held' /\ Unspent'
    BY DEF DiskInv, Held, Unspent
  <1>5. CliOwn'
    BY DEF DiskInv, CliOwn
  <1> QED
    BY <1>1, <1>2, <1>3, <1>4, <1>5 DEF DiskInv

\* What the endpoint does to the tokens it redeems: the new one is unlike any
\* before it, and the CLI's own survives.
LEMMA DiskRedeem ==
    ASSUME TypeOK, DiskInv, NEW tok, NEW rotate \in BOOLEAN, Redeem(tok, rotate)
    PROVE  /\ serial' = serial + 1 /\ fl.ref \in live
           /\ rotate => live' = (live \ {fl.ref}) \cup {serial + 1}
           /\ ~rotate => live' = live
           /\ None \notin live' /\ \A t \in live' : t <= serial'
           /\ serial + 1 \notin {None, file.ref, fl.ref}
           /\ cli.pc = "granted" => cli.ref \in live' /\ cli.ref # serial + 1
  <1>1. /\ serial' = serial + 1 /\ fl.ref \in live
        /\ rotate => live' = (live \ {fl.ref}) \cup {serial + 1}
        /\ ~rotate => live' = live
    BY DEF Redeem
  <1>2. \A t \in live : t \in Nat /\ t <= serial
    BY DiskTypes DEF DiskInv, Numbered
  <1>3. None \notin live' /\ \A t \in live' : t <= serial'
    BY <1>1, <1>2, DiskTypes DEF DiskInv, Numbered, None
  <1>4. serial + 1 \notin {None, file.ref, fl.ref}
    BY DiskTypes DEF DiskInv, Numbered, None
  <1>5. ASSUME cli.pc = "granted" PROVE cli.ref \in live' /\ cli.ref # serial + 1
    <2>1. cli.ref \in live /\ cli.ref # fl.ref
      BY <1>5 DEF DiskInv, CliOwn
    <2> QED
      BY <1>1, <1>2, <2>1, DiskTypes
  <1> QED
    BY <1>1, <1>3, <1>4, <1>5

\* The refresh is granted.  From here to the rename the load holds the token
\* that replaces the one on disk, if that is still the one it has sent.
LEMMA DiskGranted == ASSUME TypeOK, DiskInv, FlGranted PROVE DiskInv'
  <1>1. PICK tok \in {fl.cred.tok, serial + 1}, rotate \in BOOLEAN :
           /\ Redeem(tok, rotate)
           /\ fl' = [fl EXCEPT !.pc = "changed", !.cred.tok = tok, !.sent = fl.ref,
                               !.ref = IF rotate THEN serial + 1 ELSE fl.ref]
    BY DEF FlGranted
  <1>2. /\ fl'.pc = "changed" /\ fl'.phase = fl.phase /\ fl'.ver = fl.ver /\ fl'.seen = fl.seen
        /\ fl'.sent = fl.ref /\ fl'.ref = IF rotate THEN serial + 1 ELSE fl.ref
    BY <1>1, DiskTypes DEF Flights
  <1>3. fl.pc = "post" /\ ~Holding /\ Holding' /\ UNCHANGED <<file, lock, cli, lost>>
    BY <1>2 DEF FlGranted, Holding
  <1>4. /\ serial' = serial + 1 /\ fl.ref \in live
        /\ rotate => live' = (live \ {fl.ref}) \cup {serial + 1}
        /\ ~rotate => live' = live
        /\ None \notin live' /\ \A t \in live' : t <= serial'
        /\ serial + 1 \notin {None, file.ref, fl.ref}
        /\ cli.pc = "granted" => cli.ref \in live' /\ cli.ref # serial + 1
    BY <1>1, DiskRedeem
  <1>5. Numbered'
    BY <1>2, <1>3, <1>4, DiskTypes DEF DiskInv, Numbered
  <1>6. OwnLock'
    BY <1>2, <1>3 DEF DiskInv, OwnLock, Refreshing
  <1>7. LastLook'
    BY <1>2, <1>3, <1>4 DEF DiskInv, LastLook
  <1>8. Held'
    <2>1. CASE rotate /\ file.ver = fl.seen
      <3>1. file'.ver = fl'.seen /\ fl'.ref # fl'.sent
        BY <1>2, <1>3, <1>4, <2>1
      <3> QED
        BY <1>3, <3>1 DEF Held
    <2>2. CASE rotate /\ file.ver # fl.seen
      <3>1. file.ref = None \/ file.ref # fl.ref
        BY <1>3, <2>2 DEF DiskInv, LastLook
      <3> QED
        BY <1>3, <1>4, <2>2, <3>1 DEF DiskInv, Held
    <2>3. CASE ~rotate
      BY <1>3, <1>4, <2>3 DEF DiskInv, Held
    <2> QED
      BY <2>1, <2>2, <2>3
  <1>9. Unspent'
    BY <1>2, <1>4 DEF Unspent
  <1>10. CliOwn'
    BY <1>2, <1>3, <1>4 DEF DiskInv, CliOwn
  <1> QED
    BY <1>5, <1>6, <1>7, <1>8, <1>9, <1>10 DEF DiskInv

\* The change check.  It lets the load go on with the version it has looked at
\* last; otherwise what it drops was either never wanted on this disk, or is the
\* successor of the token there, which the re-read had seen and its stat had not.
LEMMA DiskChanged == ASSUME TypeOK, DiskInv, FlChanged PROVE DiskInv'
  <1>1. fl.pc = "changed" /\ Holding /\ UNCHANGED <<file, lock, cli, serial, live>>
    BY DEF FlChanged, Holding, world
  <1>2. fl.phase = "locked" /\ lock = "self"
    BY <1>1 DEF DiskInv, OwnLock, Refreshing
  <1>3. CASE file.ver = fl.ver
    <2>1. /\ fl'.pc = "write" /\ fl'.phase = fl.phase /\ fl'.ref = fl.ref /\ fl'.ver = fl.ver
          /\ fl'.sent = fl.sent /\ fl'.seen = file.ver /\ UNCHANGED lost
      BY <1>3, DiskTypes DEF FlChanged, Flights
    <2>2. fl.seen = file.ver
      BY <1>1, <1>3, DiskTypes DEF DiskInv, LastLook, Numbered
    <2>3. Holding'
      BY <2>1 DEF Holding
    <2>4. Numbered' /\ OwnLock'
      BY <1>1, <1>2, <2>1, <2>2, DiskTypes DEF DiskInv, Numbered, OwnLock
    <2>5. LastLook'
      BY <1>1, <2>1, <2>2 DEF DiskInv, LastLook
    <2>6. Held' /\ Unspent' /\ CliOwn'
      BY <1>1, <2>1, <2>2, <2>3 DEF DiskInv, Held, Unspent, CliOwn
    <2> QED
      BY <2>4, <2>5, <2>6 DEF DiskInv
  <1>4. CASE file.ver # fl.ver
    <2>1. /\ fl'.pc = "stat" /\ fl'.phase = "adopt" /\ fl'.ref = fl.ref /\ fl'.ver = fl.ver
          /\ fl'.sent = fl.sent /\ fl'.seen = fl.seen
          /\ lost' = IF file.ver = fl.seen THEN lost \cup Spent ELSE lost
      BY <1>4, DiskTypes DEF FlChanged, Flights
    <2>2. Numbered' /\ OwnLock' /\ LastLook' /\ Unspent' /\ CliOwn'
      BY <1>1, <1>2, <2>1 DEF DiskInv, Numbered, OwnLock, LastLook, Unspent, CliOwn, Holding,
         Refreshing
    <2>3. Held'
      <3>1. CASE file.ver = fl.seen /\ fl.ref # fl.sent
        <4>1. file.ref = fl.sent
          BY <1>1, <3>1 DEF DiskInv, LastLook
        <4>2. file.ref \in lost'
          BY <2>1, <3>1, <4>1 DEF Spent
        <4> QED
          BY <1>1, <4>2 DEF Held
      <3>2. CASE ~(file.ver = fl.seen /\ fl.ref # fl.sent)
        BY <1>1, <2>1, <3>2 DEF DiskInv, Held
      <3> QED
        BY <3>1, <3>2
    <2> QED
      BY <2>2, <2>3 DEF DiskInv
  <1> QED
    BY <1>3, <1>4

\* The rename.  A rotated token is good whatever lies under it.  One that was
\* not rotated is as good as the one on disk, if that is what was there before;
\* otherwise a CLI has written since the change check.
LEMMA DiskWrite == ASSUME TypeOK, DiskInv, FlWrite PROVE DiskInv'
  <1>1. /\ fl.pc = "write" /\ Holding /\ file'.ref = fl.ref /\ file'.ver = file.ver + 1
        /\ fl'.pc = "restat" /\ fl'.phase = fl.phase /\ fl'.ref = fl.ref /\ fl'.ver = fl.ver
        /\ fl'.sent = fl.sent /\ fl'.seen = fl.seen
        /\ UNCHANGED <<lock, cli, serial, live>>
    BY DiskTypes DEF FlWrite, Flights, world, Holding
  <1>2. lost' = IF file.ver # fl.seen /\ fl.ref = fl.sent THEN lost \cup {fl.ref} ELSE lost
    BY DEF FlWrite
  <1>3. Numbered'
    BY <1>1, DiskTypes DEF DiskInv, Numbered
  <1>4. OwnLock' /\ LastLook' /\ Unspent'
    BY <1>1 DEF DiskInv, OwnLock, LastLook, Unspent, Holding, Refreshing
  <1>5. Held'
    <2>1. CASE fl.ref # fl.sent
      BY <1>1, <2>1 DEF DiskInv, Unspent, Held
    <2>2. CASE fl.ref = fl.sent /\ file.ver # fl.seen
      <3>1. file'.ref \in lost'
        BY <1>1, <1>2, <2>2
      <3> QED
        BY <3>1 DEF Held
    <2>3. CASE fl.ref = fl.sent /\ file.ver = fl.seen
      <3>1. file'.ref = file.ref
        BY <1>1, <2>3 DEF DiskInv, LastLook
      <3> QED
        BY <1>1, <1>2, <2>3, <3>1 DEF DiskInv, Held
    <2> QED
      BY <2>1, <2>2, <2>3
  <1>6. CliOwn'
    BY <1>1 DEF DiskInv, CliOwn
  <1> QED
    BY <1>3, <1>4, <1>5, <1>6 DEF DiskInv

\* Every step of the load preserves DiskInv.
LEMMA DiskFlight == ASSUME TypeOK, DiskInv, FlightStep PROVE DiskInv'
  <1>0. fl \in Flights
    BY DiskTypes
  <1>1. CASE FlStat
    <2>1. /\ fl'.pc = "read" /\ fl'.phase = fl.phase /\ fl'.ref = fl.ref /\ fl'.ver = file.ver
          /\ fl'.sent = fl.sent /\ fl'.seen = fl.seen
          /\ fl.pc = "stat" /\ UNCHANGED <<file, lock, cli, serial, live, lost>>
      BY <1>0, <1>1 DEF FlStat, Flights, world, history
    <2> QED
      BY <2>1, DiskMove DEF Holding, Refreshing
  <1>2. CASE FlRead
    <2>1. fl.pc = "read" /\ ~Holding /\ UNCHANGED <<file, cli, serial, live, lost>>
      BY <1>2 DEF FlRead, Holding, world, history
    <2>2. CASE credFrom(file.cred)
      <3>1. /\ fl'.pc = "judge" /\ fl'.phase = fl.phase /\ fl'.ref = file.ref /\ fl'.ver = fl.ver
            /\ fl'.sent = fl.sent /\ fl'.seen = file.ver /\ UNCHANGED lock
        BY <1>0, <1>2, <2>2 DEF FlRead, Flights
      <3> QED
        BY <2>1, <3>1, DiskMove DEF Holding, Refreshing
    <2> QED
      BY <1>2, <2>1, <2>2, DiskDeliver DEF FlRead
  <1>3. CASE FlJudge
    <2>1. fl.pc = "judge" /\ ~Holding /\ UNCHANGED <<file, cli, serial, live, lost>>
      BY <1>3 DEF FlJudge, Holding, world, history
    <2>2. ASSUME NEW pc \in {"store", "regen", "post"}, fl' = [fl EXCEPT !.pc = pc],
                 pc = "post" => fl.phase = "locked", UNCHANGED lock
          PROVE  DiskInv'
      <3>1. /\ fl'.pc = pc /\ fl'.phase = fl.phase /\ fl'.ref = fl.ref /\ fl'.ver = fl.ver
            /\ fl'.sent = fl.sent /\ fl'.seen = fl.seen
        BY <1>0, <2>2 DEF Flights
      <3> QED
        BY <2>1, <2>2, <3>1, DiskMove DEF Holding, Refreshing
    <2> QED
      BY <1>3, <2>1, <2>2, DiskDeliver DEF FlJudge
  <1>4. CASE FlRegen
    <2>1. /\ fl'.pc = "lock" /\ fl'.phase = fl.phase /\ fl'.ref = fl.ref /\ fl'.ver = fl.ver
          /\ fl'.sent = fl.sent /\ fl'.seen = fl.seen
          /\ fl.pc = "regen" /\ UNCHANGED <<file, lock, cli, serial, live, lost>>
      BY <1>0, <1>4 DEF FlRegen, Flights, world, history
    <2> QED
      BY <2>1, DiskMove DEF Holding, Refreshing
  <1>5. CASE FlLock
    <2>1. /\ fl'.pc = "stat" /\ fl'.phase = "locked" /\ fl'.ref = fl.ref /\ fl'.ver = fl.ver
          /\ fl'.sent = fl.sent /\ fl'.seen = fl.seen
          /\ fl.pc = "lock" /\ lock' = "self" /\ UNCHANGED <<file, cli, serial, live, lost>>
      BY <1>0, <1>5 DEF FlLock, Flights, world, history
    <2> QED
      BY <2>1 DEF DiskInv, Numbered, OwnLock, LastLook, Held, Unspent, CliOwn, Holding, Refreshing
  <1>6. CASE FlLockGiveUp \/ FlRefused
    BY <1>6, DiskDeliver DEF FlLockGiveUp, FlRefused, Holding, world, history
  <1>7. CASE FlGranted
    BY <1>7, DiskGranted
  \* The answer is lost, and with it the only copy of the new token.
  <1>8. CASE FlAnswerLost
    <2>1. /\ serial' = serial + 1 /\ None \notin live' /\ \A t \in live' : t <= serial'
          /\ live \ {fl.ref} \subseteq live'
          /\ cli.pc = "granted" => cli.ref \in live'
      BY <1>8, DiskRedeem DEF FlAnswerLost
    <2>2. /\ fl'.pc = "none" /\ fl'.phase = "load" /\ fl'.ref = None /\ fl'.ver = None
          /\ fl'.sent = None /\ fl'.seen = None
          /\ lost' = lost \cup {fl.ref} /\ ~Holding /\ UNCHANGED <<file, cli>>
      BY <1>8 DEF FlAnswerLost, Deliver, NoFlight, Holding
    <2>3. Numbered'
      BY <2>1, <2>2, DiskTypes DEF DiskInv, Numbered, None
    <2>4. OwnLock' /\ LastLook' /\ Unspent'
      BY <2>2 DEF OwnLock, LastLook, Unspent, Holding, Refreshing
    <2>5. Held' /\ CliOwn'
      BY <2>1, <2>2 DEF DiskInv, Held, CliOwn
    <2> QED
      BY <2>3, <2>4, <2>5 DEF DiskInv
  <1>9. CASE FlChanged
    BY <1>9, DiskChanged
  <1>10. CASE FlWrite
    BY <1>10, DiskWrite
  <1>11. CASE FlWriteFails
    <2>1. /\ fl.pc = "write" /\ fl'.pc = "restat" /\ fl'.phase = fl.phase /\ fl'.ref = fl.ref
          /\ fl'.ver = fl.ver /\ fl'.sent = fl.sent /\ fl'.seen = fl.seen
          /\ lost' = lost \cup Spent /\ UNCHANGED <<file, lock, cli, serial, live>>
      BY <1>0, <1>11 DEF FlWriteFails, Flights, world
    <2>2. Numbered' /\ OwnLock' /\ LastLook' /\ Unspent' /\ CliOwn'
      BY <2>1 DEF DiskInv, Numbered, OwnLock, LastLook, Unspent, CliOwn, Holding, Refreshing
    <2>3. Holding /\ file.ver = fl.seen => file.ref = fl.sent
      BY DEF DiskInv, LastLook
    <2>4. Held'
      BY <2>1, <2>3 DEF DiskInv, Held, Spent
    <2> QED
      BY <2>2, <2>4 DEF DiskInv
  <1>12. CASE FlRestat
    <2>1. PICK v \in {file.ver, None} : fl' = [fl EXCEPT !.pc = "store", !.ver = v]
      BY <1>12 DEF FlRestat
    <2>2. /\ fl'.pc = "store" /\ fl'.phase = fl.phase /\ fl'.ref = fl.ref /\ fl'.ver = v
          /\ fl'.sent = fl.sent /\ fl'.seen = fl.seen
          /\ fl.pc = "restat" /\ UNCHANGED <<file, lock, cli, serial, live, lost>>
      BY <1>0, <1>12, <2>1 DEF FlRestat, Flights, world, history
    <2> QED
      BY <2>1, <2>2, DiskMove DEF Holding, Refreshing
  <1>13. CASE FlStore
    BY <1>13, DiskDeliver DEF FlStore, Holding, world, history
  <1> QED
    BY <1>1, <1>2, <1>3, <1>4, <1>5, <1>6, <1>7, <1>8, <1>9, <1>10, <1>11, <1>12, <1>13
       DEF FlightStep

\* So does every step of the CLI, whatever it thinks of the lock.
LEMMA DiskCli == ASSUME TypeOK, DiskInv, CliStep PROVE DiskInv'
  <1>0. /\ cli \in CliStates /\ file.ver \in Nat /\ fl.ver \in Nat /\ fl.seen \in Nat
        /\ serial \in Nat /\ \A t \in live : t \in Nat /\ t <= serial
    BY DiskTypes DEF TypeOK, DiskInv, Numbered
  <1>1. CASE CliBegin
    <2>1. /\ cli.pc = "idle" /\ cli'.pc = "busy" /\ UNCHANGED <<file, fl, serial, live, lost>>
          /\ lock = "self" => lock' = lock
      BY <1>0, <1>1 DEF CliBegin, CliStates, flight, world, history
    <2> QED
      BY <2>1 DEF DiskInv, Numbered, OwnLock, LastLook, Held, Unspent, CliOwn, Holding
  \* It may spend the token on disk, which is not one the load has been issued.
  <1>2. CASE CliGrant
    <2>1. /\ cli'.pc = "granted" /\ cli'.ref = serial + 1 /\ serial' = serial + 1
          /\ UNCHANGED <<file, lock, fl, lost>>
      BY <1>2 DEF CliGrant, flight, history
    <2>2. /\ serial + 1 \in live' /\ live' \subseteq live \cup {serial + 1}
          /\ live \ {file.ref} \subseteq live'
      BY <1>2 DEF CliGrant
    <2>3. Numbered'
      BY <1>0, <2>1, <2>2, DiskTypes DEF DiskInv, Numbered, None
    <2>4. OwnLock' /\ Held'
      BY <2>1 DEF DiskInv, OwnLock, Held
    <2>5. LastLook'
      BY <2>1 DEF DiskInv, LastLook, Holding
    <2>6. Unspent'
      <3> SUFFICES ASSUME Holding, fl.ref # fl.sent PROVE fl.ref \in live'
        BY <2>1 DEF Unspent, Holding
      <3>1. fl.ref \in live /\ fl.ref # None
        BY DEF DiskInv, Unspent, Numbered
      <3> QED
        BY <2>2, <3>1 DEF DiskInv, LastLook
    <2>7. serial + 1 \notin {None, file.ref, fl.ref, fl.sent}
      BY DiskTypes DEF DiskInv, Numbered, None
    <2>8. CliOwn'
      BY <2>1, <2>2, <2>7 DEF CliOwn
    <2> QED
      BY <2>3, <2>4, <2>5, <2>6, <2>8 DEF DiskInv
  <1>3. CASE CliWrite
    <2>1. /\ cli.pc = "granted" /\ cli'.pc = "busy"
          /\ file'.ref = cli.ref /\ file'.ver = file.ver + 1
          /\ UNCHANGED <<lock, fl, serial, live, lost>>
      BY <1>3 DEF CliWrite, flight, world, history
    <2>2. cli.ref \in live /\ cli.ref \notin {fl.ref, fl.sent}
      BY <2>1 DEF DiskInv, CliOwn
    <2>3. fl.seen <= file.ver /\ file'.ver # fl.seen
      BY <1>0, <2>1 DEF DiskInv, Numbered
    <2>4. Numbered'
      BY <1>0, <2>1, <2>2 DEF DiskInv, Numbered
    <2>5. LastLook'
      BY <2>1, <2>2, <2>3 DEF DiskInv, LastLook, Holding
    <2>6. OwnLock' /\ Held' /\ Unspent' /\ CliOwn'
      BY <2>1, <2>2 DEF DiskInv, OwnLock, Held, Unspent, CliOwn, Holding
    <2> QED
      BY <2>4, <2>5, <2>6 DEF DiskInv
  <1>4. CASE CliErase
    <2>1. /\ cli.pc = "busy" /\ file'.ref = None /\ file'.ver = file.ver + 1
          /\ UNCHANGED <<lock, fl, serial, live, lost, cli>>
      BY <1>4 DEF CliErase, flight, world, history
    <2>2. fl.seen <= file.ver /\ file'.ver # fl.seen
      BY <1>0, <2>1 DEF DiskInv, Numbered
    <2>3. Numbered'
      BY <1>0, <2>1, DiskTypes DEF DiskInv, Numbered, None
    <2>4. LastLook'
      BY <2>1, <2>2 DEF DiskInv, LastLook, Holding
    <2>5. OwnLock' /\ Held' /\ Unspent' /\ CliOwn'
      BY <2>1 DEF DiskInv, OwnLock, Held, Unspent, CliOwn, Holding
    <2> QED
      BY <2>3, <2>4, <2>5 DEF DiskInv
  <1>5. CASE CliEnd
    <2>1. /\ cli.pc = "busy" /\ cli'.pc = "idle" /\ UNCHANGED <<file, fl, serial, live, lost>>
          /\ lock = "self" => lock' = lock
      BY <1>0, <1>5 DEF CliEnd, CliStates, flight, world, history
    <2> QED
      BY <2>1 DEF DiskInv, Numbered, OwnLock, LastLook, Held, Unspent, CliOwn, Holding
  <1> QED
    BY <1>1, <1>2, <1>3, <1>4, <1>5 DEF CliStep

\* DiskInv is inductive relative to TypeOK.
LEMMA DiskNext == TypeOK /\ DiskInv /\ [Next]_vars => DiskInv'
  <1> SUFFICES ASSUME TypeOK, DiskInv, [Next]_vars PROVE DiskInv'
    OBVIOUS
  <1>1. ASSUME NEW c \in Callers, Begin(c) \/ CallerStep(c) PROVE DiskInv'
    <2>1. CASE Do(c)
      <3>1. UNCHANGED <<file, lock, cli, serial, live, lost>>
        BY <2>1 DEF Do, world, history
      <3>2. CASE fl.pc # "none"
        <4>1. fl' = fl
          BY <2>1, <3>2 DEF Do
        <4> QED
          BY <3>1, <4>1, DiskFrame
      <3>3. CASE fl.pc = "none"
        <4>1. fl' = [NoFlight EXCEPT !.pc = "stat", !.gen = invalGen]
          BY <2>1, <3>3 DEF Do
        <4>2. /\ fl'.pc = "stat" /\ fl'.phase = "load" /\ fl'.ref = None /\ fl'.ver = None
              /\ fl'.sent = None /\ fl'.seen = None
          BY <4>1 DEF NoFlight
        <4> QED
          BY <3>1, <3>3, <4>2, DiskDrop DEF Holding
      <3> QED
        BY <3>2, <3>3
    <2>2. CASE ~Do(c)
      BY <1>1, <2>2, DiskFrame DEF CallerStep, Begin, Fast, Check, Answered, Rejected, Invalidate,
         flight, world, history
    <2> QED
      BY <2>1, <2>2
  <1>2. CASE FlightStep
    BY <1>2, DiskFlight
  <1>3. CASE CliStep
    BY <1>3, DiskCli
  <1>4. CASE TokenExpires \/ Revoke \/ UNCHANGED vars
    BY <1>4, DiskFrame DEF TokenExpires, Revoke, vars, flight, world, history
  <1>5. CASE Crash
    <2>1. /\ fl'.pc = "none" /\ fl'.phase = "load" /\ fl'.ref = None /\ fl'.ver = None
          /\ fl'.sent = None /\ fl'.seen = None
          /\ UNCHANGED <<file, cli, serial, live>>
      BY <1>5 DEF Crash, NoFlight, world
    <2>2. lost' = IF Holding THEN lost \cup Spent ELSE lost
      BY <1>5 DEF Crash, Holding
    <2> QED
      BY <2>1, <2>2, DiskDrop
  <1> QED
    BY <1>1, <1>2, <1>3, <1>4, <1>5 DEF Next

\* Whatever the CLI does, a refresh token at rest on disk can be redeemed, unless
\* it is one whose successor one of the five accidents kept from the disk: what
\* refreshUnderLock's change check adopts is never the token its refresh spent,
\* unless the re-read had seen a write that its stat had not.
THEOREM AuthDiskRedeemable == Spec => []DiskRedeemable
  <1>1. DiskInv => DiskRedeemable
    BY DEF DiskInv, Held, OwnLock, Holding, Refreshing, DiskRedeemable
  <1> QED
    BY <1>1, TypeInit, DiskInit, TypeNext, DiskNext, PTL DEF Spec
=============================================================================
