-------------------------- MODULE CodexCatalogProof --------------------------
(***************************************************************************)
(* Whatever the catalog stamps with a client version is what that version  *)
(* was served, for any number of callers, upgrades and revisions.          *)
(*                                                                         *)
(* Only the holder of the singleflight key moves the client version and    *)
(* stores lists, so what it learnt at one step still holds at its next     *)
(* (Sound): the version it resolved is the one in use, the list in its     *)
(* hands was served to that version, and neither memory nor the file has   *)
(* meanwhile gone past it.                                                 *)
(***************************************************************************)
EXTENDS CodexCatalog, TLAPS

\* Stages of the goroutine that holds the singleflight key.
Leading == {"stat", "run", "note", "snap", "get", "commit", "write"}

Stages == {"idle", "look", "revalidate", "do", "wait", "clear"} \cup Leading

Goroutines == [pc : Stages, fp : 0..MaxExe, ver : 0..MaxExe, ns : Snapshots, since : 0..MaxRev]

Probes == [version : 1..MaxExe, fp : 0..MaxExe, aged : BOOLEAN]

Types ==
    /\ exe \in 1..MaxExe /\ rev \in 1..MaxRev /\ (missing => exe < MaxExe)
    /\ st \in Snapshots /\ disk \in Snapshots
    /\ clientVersion \in 1..MaxExe
    /\ pr \in [Procs -> Goroutines]
    /\ probe \in Probes
    /\ fails \in Nat

\* What memory, the file and the probe have in common.
Stored ==
    /\ st \in Leftover /\ disk \in Leftover
    /\ clientVersion = probe.version /\ st.lver <= clientVersion
    /\ probe.version <= exe /\ probe.fp <= exe
    /\ fails = 0 /\ ~missing /\ probe.fp = exe => probe.version = exe

\* What a leader still knows at each stage.
Sound(q) ==
    /\ pr[q].pc \in Leading => leader = q
    /\ pr[q].pc = "run" => pr[q].fp <= exe
    /\ pr[q].pc = "note" =>
          pr[q].fp <= pr[q].ver /\ clientVersion <= pr[q].ver /\ pr[q].ver <= exe
    /\ pr[q].pc \in {"snap", "get", "commit"} => pr[q].ver = clientVersion
    /\ pr[q].pc = "get" =>
          /\ pr[q].ns \in Leftover /\ pr[q].since <= rev
          /\ pr[q].ns.loaded /\ pr[q].ns.etag # 0 => pr[q].ns.lver = clientVersion
    /\ pr[q].pc = "commit" =>
          /\ pr[q].ns \in Leftover /\ pr[q].ns.loaded /\ pr[q].ns.lver = clientVersion
          /\ pr[q].ns.rev >= pr[q].since
          /\ st.rev <= pr[q].ns.rev /\ disk.rev <= pr[q].ns.rev
    /\ pr[q].pc = "write" => pr[q].ns \in Leftover

CatalogInv == Types /\ Stored /\ \A q \in Procs : Sound(q)

-----------------------------------------------------------------------------
(* Facts about the data *)

\* An empty snapshot is one.
LEMMA EmptyType == Empty \in Snapshots /\ Resting \in Goroutines
  <1>1. Empty \in Snapshots
    BY CatalogAssumption DEF Empty, Snapshots
  <1> QED
    BY <1>1, CatalogAssumption DEF Resting, Goroutines, Stages

\* Membership of Leftover, in terms of the fields.
LEMMA LeftoverFields ==
    ASSUME NEW d \in Snapshots
    PROVE  d \in Leftover <=>
             \/ d = Empty
             \/ /\ d.loaded /\ d.lver \in 1..exe /\ d.ver = d.lver
                /\ d.rev \in 1..rev /\ d.etag \in {0, d.rev}
  BY DEF Leftover

\* A list that could be relied on still can after an upgrade or a publication.
LEMMA LeftoverGrows ==
    ASSUME Types, exe' \in Nat, rev' \in Nat, exe <= exe', rev <= rev', NEW d \in Leftover
    PROVE  d \in Leftover'
  BY DEF Types, Leftover

\* A goroutine that leads nothing owes nothing.
LEMMA BystanderSound == ASSUME NEW q, pr[q].pc \notin Leading PROVE Sound(q)
  BY DEF Sound, Leading

\* There is one leader.
LEMMA OneLeader ==
    ASSUME CatalogInv, NEW q \in Procs, NEW r \in Procs, r # q, pr[q].pc \in Leading
    PROVE  pr[r].pc \notin Leading
  BY DEF CatalogInv, Sound

-----------------------------------------------------------------------------
(* One lemma per shape of step *)

\* The current leader steps on, alone; the lemma leaves its own soundness and
\* what is stored to the caller.
LEMMA LeaderStep ==
    ASSUME CatalogInv, NEW q \in Procs, pr[q].pc \in Leading,
           Types', Stored', Sound(q)',
           \A r \in Procs : r # q => pr'[r] = pr[r] \/ pr'[r].pc \notin Leading
    PROVE  CatalogInv'
  <1>1. ASSUME NEW r \in Procs, r # q PROVE Sound(r)'
    <2>1. pr'[r].pc \notin Leading
      BY <1>1, OneLeader
    <2> QED
      BY <2>1 DEF Sound, Leading
  <1> QED
    BY <1>1 DEF CatalogInv

\* The shared fetch returns.
LEMMA ReturnStep ==
    ASSUME CatalogInv, NEW q \in Procs, pr[q].pc \in Leading, Return(q),
           Stored', UNCHANGED <<env, st, clientVersion, probe>>, disk' \in Snapshots, fails' \in Nat
    PROVE  CatalogInv'
  <1>1. ASSUME NEW r \in Procs
        PROVE  /\ [Resting EXCEPT !.pc = AfterFetch(r)] \in Goroutines
               /\ [Resting EXCEPT !.pc = AfterFetch(r)].pc \in {"idle", "clear"}
    <2>1. PICK s \in Goroutines : s = Resting
      BY EmptyType
    <2> QED
      BY <2>1 DEF AfterFetch, Goroutines, Stages
  <1>2. pr' \in [Procs -> Goroutines]
    BY <1>1 DEF Return, CatalogInv, Types
  <1>3. Types'
    BY <1>2 DEF CatalogInv, Types, env
  <1>4. ASSUME NEW r \in Procs PROVE (pr'[r] = pr[r] /\ r # q) \/ pr'[r].pc \notin Leading
    BY <1>1 DEF Return, Leading
  <1>5. Sound(q)'
    BY <1>4 DEF Sound, Leading
  <1> QED
    BY <1>3, <1>4, <1>5, LeaderStep

\* Goroutines that lead nothing move between stages in which they lead nothing.
LEMMA BystanderStep ==
    ASSUME CatalogInv, UNCHANGED <<env, disk, clientVersion, leader, probe, fails>>,
           st' = st \/ (st' = disk /\ DiskUsable),
           pr' \in [Procs -> Goroutines],
           \A r \in Procs : pr'[r] = pr[r] \/ pr'[r].pc \notin Leading
    PROVE  CatalogInv'
  <1>1. Types'
    BY DEF CatalogInv, Types, env
  <1>2. st'.lver <= clientVersion
    <2>1. CASE st' = disk /\ DiskUsable
      <3>1. disk.ver = disk.lver \/ disk.lver = 0
        BY LeftoverFields DEF CatalogInv, Types, Stored, Empty
      <3> QED
        BY <2>1, <3>1 DEF CatalogInv, Types, DiskUsable, versionsDiffer, Snapshots
    <2> QED
      BY <2>1 DEF CatalogInv, Stored
  <1>3. Stored'
    BY <1>2 DEF CatalogInv, Stored, Leftover, env
  <1>4. ASSUME NEW r \in Procs PROVE Sound(r)'
    <2>1. CASE pr'[r].pc \notin Leading
      BY <2>1 DEF Sound, Leading
    <2>2. CASE pr'[r] = pr[r]
      BY <2>2 DEF CatalogInv, Sound, Leftover, env
    <2> QED
      BY <2>1, <2>2
  <1> QED
    BY <1>1, <1>3, <1>4 DEF CatalogInv

\* The world moves: lists stay good, fingerprints stay old.
LEMMA WorldStep == ASSUME CatalogInv, World PROVE CatalogInv'
  <1>0. /\ exe \in 1..MaxExe /\ rev \in 1..MaxRev /\ probe \in Probes
        /\ UNCHANGED <<st, disk, clientVersion, leader, pr, fails>>
    BY DEF World, Publish, UpgradeBegin, UpgradeEnd, Expire, ProbeAges, cache, env, CatalogInv, Types
  <1>1. /\ exe' \in exe..MaxExe /\ rev' \in rev..MaxRev /\ (missing' => exe' < MaxExe)
        /\ exe' # exe => exe' = exe + 1
        /\ missing /\ ~missing' => exe' = exe + 1
    BY <1>0, CatalogAssumption DEF World, Publish, UpgradeBegin, UpgradeEnd, Expire, ProbeAges, env, CatalogInv, Types
  <1>2. probe' \in Probes /\ probe'.version = probe.version /\ probe'.fp = probe.fp
    <2>1. CASE ProbeAges
      BY <1>0, <2>1 DEF ProbeAges, Probes
    <2> QED
      BY <1>0, <2>1 DEF World, Publish, UpgradeBegin, UpgradeEnd, Expire
  <1>3. \A d \in Leftover : d \in Leftover'
    BY <1>0, <1>1, LeftoverGrows DEF CatalogInv
  <1>4. Types'
    BY <1>0, <1>1, <1>2 DEF CatalogInv, Types
  <1>5. Stored'
    BY <1>0, <1>1, <1>2, <1>3 DEF CatalogInv, Stored, Probes
  <1>6. ASSUME NEW q \in Procs PROVE Sound(q)'
    <2>1. pr[q] \in Goroutines
      BY DEF CatalogInv, Types
    <2> QED
      BY <1>0, <1>1, <1>3, <2>1 DEF CatalogInv, Sound, Goroutines
  <1> QED
    BY <1>4, <1>5, <1>6 DEF CatalogInv

-----------------------------------------------------------------------------
(* Each action *)

\* Updates of a goroutine's record keep its type.
LEMMA GoroutineFields ==
    ASSUME NEW s \in Goroutines
    PROVE  /\ s.pc \in Stages /\ s.fp \in 0..MaxExe /\ s.ver \in 0..MaxExe
           /\ s.ns \in Snapshots /\ s.since \in 0..MaxRev
           /\ \A p \in Stages : [s EXCEPT !.pc = p] \in Goroutines
           /\ \A v \in 0..MaxExe :
                 /\ [s EXCEPT !.pc = "snap", !.ver = v, !.fp = 0] \in Goroutines
                 /\ [s EXCEPT !.pc = "run", !.fp = v] \in Goroutines
                 /\ [s EXCEPT !.pc = "note", !.ver = v] \in Goroutines
           /\ \A n \in Snapshots, k \in 0..MaxRev :
                 [s EXCEPT !.pc = "get", !.since = k, !.ns = n] \in Goroutines
           /\ \A n \in Snapshots : [s EXCEPT !.pc = "commit", !.ns = n] \in Goroutines
  <1>1. 0 \in 0..MaxExe
    BY CatalogAssumption
  <1> QED
    BY <1>1 DEF Goroutines, Stages, Leading

\* One goroutine's record is replaced.
LEMMA Replaced ==
    ASSUME Types, NEW q \in Procs, NEW s \in Goroutines, pr' = [pr EXCEPT ![q] = s]
    PROVE  pr' \in [Procs -> Goroutines] /\ pr'[q] = s /\ \A r \in Procs : r # q => pr'[r] = pr[r]
  BY DEF Types

\* The types that hold at every step, for use in the lemmas below.
LEMMA Known ==
    ASSUME CatalogInv, NEW q \in Procs
    PROVE  /\ pr[q] \in Goroutines /\ pr[q].ver \in 0..MaxExe /\ pr[q].fp \in 0..MaxExe
           /\ pr[q].ns \in Snapshots
           /\ exe \in 1..MaxExe /\ rev \in 1..MaxRev /\ clientVersion \in 1..MaxExe
           /\ probe.version \in 1..MaxExe /\ probe.fp \in 0..MaxExe
           /\ MaxExe \in Nat /\ MaxRev \in Nat
  BY GoroutineFields, CatalogAssumption DEF CatalogInv, Types, Probes

\* The client version is resolved: it never goes back.
LEMMA ResolvedStep ==
    ASSUME CatalogInv, NEW q \in Procs, pr[q].pc \in Leading, NEW v \in 1..MaxExe, Resolved(q, v),
           v >= clientVersion, probe'.version = v, probe' \in Probes, Stored',
           UNCHANGED <<cache, leader, env>>, fails' \in Nat
    PROVE  CatalogInv'
  <1> DEFINE s == [pr[q] EXCEPT !.pc = "snap", !.ver = v, !.fp = 0]
  <1>0. pr[q] \in Goroutines /\ v \in 0..MaxExe
    BY Known
  <1>1. s \in Goroutines
    BY <1>0, GoroutineFields
  <1>2. pr' = [pr EXCEPT ![q] = s] /\ clientVersion' = v
    BY DEF Resolved
  <1>3. s.pc = "snap" /\ s.ver = v
    BY <1>0 DEF Goroutines
  <1> HIDE DEF s
  <1>4. pr' \in [Procs -> Goroutines] /\ pr'[q] = s /\ \A r \in Procs : r # q => pr'[r] = pr[r]
    BY <1>1, <1>2, Replaced DEF CatalogInv
  <1>5. Types'
    BY <1>2, <1>4 DEF CatalogInv, Types, cache, env
  <1>6. Sound(q)'
    BY <1>2, <1>3, <1>4 DEF CatalogInv, Sound
  <1> QED
    BY <1>4, <1>5, <1>6, LeaderStep

\* The goroutine's record changes and nothing else does.
LEMMA OwnStep ==
    ASSUME CatalogInv, NEW q \in Procs, pr[q].pc \in Leading, NEW s \in Goroutines,
           pr' = [pr EXCEPT ![q] = s], Sound(q)',
           UNCHANGED <<cache, clientVersion, probe, env, fails>>
    PROVE  CatalogInv'
  <1>1. pr' \in [Procs -> Goroutines] /\ \A r \in Procs : r # q => pr'[r] = pr[r]
    BY Replaced DEF CatalogInv
  <1>2. Types'
    BY <1>1 DEF CatalogInv, Types, cache, env
  <1>3. Stored'
    BY DEF CatalogInv, Stored, Leftover, cache, env
  <1> QED
    BY <1>1, <1>2, <1>3, LeaderStep

\* The key is taken, or waited for.
LEMMA SharedStep == ASSUME CatalogInv, NEW q \in Procs, fetchShared(q) PROVE CatalogInv'
  <1>0. /\ pr[q].pc = "do" /\ UNCHANGED <<cache, clientVersion, probe, env, fails>>
        /\ pr[q] \in Goroutines /\ "stat" \in Stages /\ "wait" \in Stages
    BY Known DEF fetchShared, Stages, Leading
  <1>1. CASE CanLead
    <2> DEFINE s == [pr[q] EXCEPT !.pc = "stat"]
    <2>1. s \in Goroutines /\ s.pc = "stat"
      BY <1>0, GoroutineFields DEF Goroutines
    <2>2. pr' = [pr EXCEPT ![q] = s] /\ leader' = q
      BY <1>1 DEF fetchShared, GoTo
    <2> HIDE DEF s
    <2>3. pr' \in [Procs -> Goroutines] /\ pr'[q] = s /\ \A r \in Procs : r # q => pr'[r] = pr[r]
      BY <2>1, <2>2, Replaced DEF CatalogInv
    <2>4. Types'
      BY <1>0, <2>3 DEF CatalogInv, Types, cache, env
    <2>5. Stored'
      BY <1>0 DEF CatalogInv, Stored, Leftover, cache, env
    <2>6. Sound(q)'
      BY <2>1, <2>2, <2>3 DEF Sound
    <2>7. ASSUME NEW r \in Procs, r # q PROVE Sound(r)'
      <3>1. pr[r].pc \notin Leading
        BY <1>1, CatalogAssumption DEF CanLead, CatalogInv, Sound, Procs
      <3> QED
        BY <2>3, <2>7, <3>1 DEF Sound, Leading
    <2> QED
      BY <2>4, <2>5, <2>6, <2>7 DEF CatalogInv
  <1>2. CASE ~CanLead
    <2>1. pr' = [pr EXCEPT ![q] = [pr[q] EXCEPT !.pc = "wait"]] /\ leader' = leader
      BY <1>2 DEF fetchShared, GoTo
    <2>2. [pr[q] EXCEPT !.pc = "wait"] \in Goroutines /\ [pr[q] EXCEPT !.pc = "wait"].pc = "wait"
      BY <1>0, GoroutineFields DEF Goroutines
    <2>3. /\ pr' \in [Procs -> Goroutines]
          /\ \A r \in Procs : pr'[r] = pr[r] \/ pr'[r].pc \notin Leading
      BY <2>1, <2>2, Replaced DEF CatalogInv, Leading
    <2> QED
      BY <1>0, <2>1, <2>3, BystanderStep DEF cache
  <1> QED
    BY <1>1, <1>2

\* Models and /healthz: at most the file is loaded, and only for the version in use.
LEMMA ModelsStep ==
    ASSUME CatalogInv, (\E q \in Procs : Models(q)) \/ BgDone \/ HealthPoll
    PROVE  CatalogInv'
  <1>0. /\ UNCHANGED <<env, disk, clientVersion, leader, probe, fails>>
        /\ st' = st \/ (st' = disk /\ DiskUsable)
    BY DEF Models, Call, Look, revalidateAsync, BgDone, HealthPoll, ensureDiskLoaded, cache
  <1>1. ASSUME NEW q \in Procs, NEW p \in Stages \ Leading, GoTo(q, p)
        PROVE  /\ pr' \in [Procs -> Goroutines]
               /\ \A r \in Procs : pr'[r] = pr[r] \/ pr'[r].pc \notin Leading
    <2>1. pr[q] \in Goroutines
      BY Known
    <2>2. [pr[q] EXCEPT !.pc = p] \in Goroutines /\ [pr[q] EXCEPT !.pc = p].pc = p
      BY <2>1, GoroutineFields DEF Goroutines
    <2>3. pr' = [pr EXCEPT ![q] = [pr[q] EXCEPT !.pc = p]]
      BY <1>1 DEF GoTo
    <2> QED
      BY <2>2, <2>3, Replaced DEF CatalogInv
  <1>2. ASSUME NEW q \in Procs, Call(q) \/ Look(q)
        PROVE  \E p \in Stages \ Leading : GoTo(q, p)
    <2>1. "look" \in Stages \ Leading /\ "do" \in Stages \ Leading
      BY DEF Stages, Leading
    <2>2. "idle" \in Stages \ Leading /\ "revalidate" \in Stages \ Leading
      BY DEF Stages, Leading
    <2>3. Call(q) => GoTo(q, "look")
      BY DEF Call
    <2>4. Look(q) => GoTo(q, "do") \/ GoTo(q, "idle") \/ GoTo(q, "revalidate")
      BY DEF Look
    <2> QED
      BY <1>2, <2>1, <2>2, <2>3, <2>4
  <1>3. ASSUME NEW q \in Procs, revalidateAsync(q)
        PROVE  /\ pr' \in [Procs -> Goroutines]
               /\ \A r \in Procs : pr'[r] = pr[r] \/ pr'[r].pc \notin Leading
    <2>1. ASSUME NEW r \in Procs
          PROVE  /\ [pr[r] EXCEPT !.pc = "idle"] \in Goroutines
                 /\ [pr[r] EXCEPT !.pc = "idle"].pc = "idle"
                 /\ [pr[r] EXCEPT !.pc = "do"] \in Goroutines
                 /\ [pr[r] EXCEPT !.pc = "do"].pc = "do"
                 /\ [[pr[r] EXCEPT !.pc = "idle"] EXCEPT !.pc = "do"] \in Goroutines
                 /\ [[pr[r] EXCEPT !.pc = "idle"] EXCEPT !.pc = "do"].pc = "do"
      <3>1. pr[r] \in Goroutines
        BY Known
      <3> QED
        BY <3>1 DEF Goroutines, Stages
    <2>2. Bg \in Procs /\ pr \in [Procs -> Goroutines]
      BY DEF Procs, CatalogInv, Types
    <2>3. \/ pr' = [pr EXCEPT ![q].pc = "idle"]
          \/ pr' = [pr EXCEPT ![q].pc = "idle", ![Bg].pc = "do"]
      BY <1>3 DEF revalidateAsync
    <2> QED
      BY <2>1, <2>2, <2>3 DEF Leading
  <1>4. CASE \E q \in Procs : Models(q)
    BY <1>0, <1>1, <1>2, <1>3, <1>4, BystanderStep DEF Models
  <1>5. CASE BgDone
    <2>1. GoTo(Bg, "idle") /\ "idle" \in Stages \ Leading /\ Bg \in Procs
      BY <1>5 DEF BgDone, Stages, Leading, Procs
    <2> QED
      BY <1>0, <1>1, <2>1, BystanderStep
  <1>6. CASE HealthPoll
    <2>1. pr' = pr /\ pr \in [Procs -> Goroutines]
      BY <1>6 DEF HealthPoll, CatalogInv, Types
    <2> QED
      BY <1>0, <2>1, BystanderStep
  <1> QED
    BY <1>4, <1>5, <1>6

\* The probe: the version it resolves is that of an executable at least as new.
LEMMA ProbeStep ==
    ASSUME CatalogInv, NEW q \in Procs,
           ProbeStat(q) \/ ProbeRun(q) \/ ProbeNote(q) \/ ProbeRunFails(q)
    PROVE  CatalogInv'
  <1>0. /\ pr[q] \in Goroutines /\ Sound(q) /\ Stored /\ Types
        /\ pr[q].pc \in Leading /\ leader = q
    BY Known DEF ProbeStat, ProbeRun, ProbeNote, ProbeRunFails, Leading, CatalogInv, Sound
  <1>k. /\ pr[q].ver \in 0..MaxExe /\ pr[q].fp \in 0..MaxExe /\ exe \in 1..MaxExe
        /\ clientVersion \in 1..MaxExe /\ probe.version \in 1..MaxExe /\ probe \in Probes
        /\ fails \in Nat /\ MaxExe \in Nat
    BY Known DEF CatalogInv, Types
  <1>x. exe \in 0..MaxExe
    BY <1>k
  <1>1. CASE ProbeStat(q) \/ ProbeRunFails(q)
    <2>1. CASE Resolved(q, LastGood)
      <3>1. UNCHANGED <<cache, leader, env>>
        BY <1>1 DEF ProbeStat, ProbeRunFails
      <3>2. fails' \in Nat /\ (fails' = 0 => fails = 0 /\ (fails' = fails))
        BY <1>1, <1>k DEF ProbeStat, ProbeRunFails
      <3>3. \/ probe' = probe
            \/ /\ probe' = [probe EXCEPT !.fp = pr[q].fp, !.aged = FALSE]
               /\ pr[q].fp <= exe /\ (~missing => fails' # 0)
        BY <1>0, <1>1, <1>k DEF ProbeStat, ProbeRunFails, Sound
      <3>4. probe' \in Probes /\ probe'.version = probe.version
        BY <1>k, <3>3 DEF Probes
      <3>5. Stored'
        <4>1. st' = st /\ disk' = disk /\ exe' = exe /\ rev' = rev /\ missing' = missing
          BY <3>1 DEF cache, env
        <4>2. st' \in Leftover' /\ disk' \in Leftover'
          BY <1>0, <4>1 DEF Stored, Leftover
        <4>3. clientVersion' = probe'.version /\ st'.lver <= clientVersion'
          BY <1>0, <2>1, <3>4, <4>1 DEF Stored, Resolved, LastGood
        <4>4. probe'.version <= exe' /\ probe'.fp <= exe'
          BY <1>0, <1>k, <3>3, <3>4, <4>1 DEF Stored, Probes
        <4>5. fails' = 0 /\ ~missing' /\ probe'.fp = exe' => probe'.version = exe'
          BY <1>0, <3>2, <3>3, <4>1 DEF Stored
        <4> QED
          BY <4>2, <4>3, <4>4, <4>5 DEF Stored
      <3>6. LastGood \in 1..MaxExe /\ LastGood >= clientVersion /\ probe'.version = LastGood
        BY <1>0, <1>k, <3>4 DEF LastGood, Stored
      <3> QED
        BY <1>0, <2>1, <3>1, <3>2, <3>4, <3>5, <3>6, ResolvedStep
    <2>2. CASE pr' = [pr EXCEPT ![q].pc = "run", ![q].fp = exe] /\ UNCHANGED clientVersion /\ ProbeStat(q)
      <3> DEFINE s == [pr[q] EXCEPT !.pc = "run", !.fp = exe]
      <3>1. s \in Goroutines /\ s.pc = "run" /\ s.fp = exe
        BY <1>0, <1>x DEF Goroutines, Stages, Leading
      <3>2. pr' = [pr EXCEPT ![q] = s] /\ UNCHANGED <<cache, clientVersion, probe, env, fails, leader>>
        BY <2>2 DEF ProbeStat
      <3> HIDE DEF s
      <3>3. pr'[q] = s
        BY <1>0, <3>1, <3>2, Replaced
      <3>4. Sound(q)'
        BY <1>0, <1>k, <3>1, <3>2, <3>3 DEF Sound, env
      <3> QED
        BY <1>0, <3>1, <3>2, <3>4, OwnStep
    <2> QED
      BY <1>1, <2>1, <2>2 DEF ProbeStat, ProbeRunFails
  <1>2. CASE ProbeRun(q)
    <2> DEFINE s == [pr[q] EXCEPT !.pc = "note", !.ver = exe]
    <2>1. s \in Goroutines /\ s.pc = "note" /\ s.ver = exe /\ s.fp = pr[q].fp
      BY <1>0, <1>x DEF Goroutines, Stages, Leading
    <2>2. pr' = [pr EXCEPT ![q] = s] /\ UNCHANGED <<cache, clientVersion, probe, env, fails, leader>>
      BY <1>2 DEF ProbeRun
    <2> HIDE DEF s
    <2>3. pr'[q] = s
      BY <1>0, <2>1, <2>2, Replaced
    <2>4. pr[q].fp <= exe /\ clientVersion <= exe
      BY <1>0, <1>2 DEF ProbeRun, Sound, Stored
    <2>5. Sound(q)'
      BY <1>0, <1>k, <2>1, <2>2, <2>3, <2>4 DEF Sound, env
    <2> QED
      BY <1>0, <2>1, <2>2, <2>5, OwnStep
  <1>3. CASE ProbeNote(q)
    <2>1. /\ probe' = [version |-> pr[q].ver, fp |-> pr[q].fp, aged |-> FALSE]
          /\ Resolved(q, pr[q].ver) /\ UNCHANGED <<cache, leader, env, fails>>
      BY <1>3 DEF ProbeNote, ProbedWith
    <2>2. pr[q].fp <= pr[q].ver /\ clientVersion <= pr[q].ver /\ pr[q].ver <= exe
      BY <1>0, <1>3 DEF ProbeNote, Sound
    <2>3. pr[q].ver \in 1..MaxExe
      BY <1>k, <2>2
    <2>4. probe' \in Probes /\ probe'.version = pr[q].ver /\ probe'.fp = pr[q].fp
      BY <1>k, <2>1, <2>3 DEF Probes
    <2>5. Stored'
      <3>1. st' = st /\ disk' = disk /\ exe' = exe /\ rev' = rev /\ clientVersion' = pr[q].ver
        BY <2>1 DEF cache, env, Resolved
      <3>2. st' \in Leftover' /\ disk' \in Leftover'
        BY <1>0, <3>1 DEF Stored, Leftover
      <3>3. st'.lver <= clientVersion'
        <4>1. st.lver \in Nat
          BY <1>k DEF CatalogInv, Types, Snapshots
        <4> QED
          BY <1>0, <1>k, <2>2, <3>1, <4>1 DEF Stored
      <3> QED
        BY <1>k, <2>2, <2>4, <3>1, <3>2, <3>3 DEF Stored
    <2> QED
      BY <1>0, <1>k, <2>1, <2>2, <2>3, <2>4, <2>5, ResolvedStep
  <1> QED
    BY <1>1, <1>2, <1>3

\* The fetch: the validator is offered only for its own version, so a 304 keeps
\* a list of the version in use; what it stores is as new as the request.
LEMMA FetchStep ==
    ASSUME CatalogInv, NEW q \in Procs,
           Snapshot(q) \/ NotModified(q) \/ OK200(q) \/ FetchFails(q) \/ Commit(q) \/ WriteDisk(q)
    PROVE  CatalogInv'
  <1>0. /\ pr[q] \in Goroutines /\ Sound(q) /\ Stored /\ Types
        /\ pr[q].pc \in Leading /\ leader = q
    BY Known DEF Snapshot, NotModified, OK200, FetchFails, Commit, WriteDisk, Leading, CatalogInv,
       Sound
  <1>k. /\ pr[q].ns \in Snapshots /\ st \in Snapshots /\ disk \in Snapshots
        /\ exe \in 1..MaxExe /\ rev \in 1..MaxRev /\ clientVersion \in 1..MaxExe
        /\ rev \in 0..MaxRev /\ fails \in Nat /\ MaxExe \in Nat /\ MaxRev \in Nat
    BY Known DEF CatalogInv, Types
  <1>1. CASE Snapshot(q)
    <2> DEFINE n == [st EXCEPT !.etag = OfferedEtag(q)]
               s == [pr[q] EXCEPT !.pc = "get", !.since = rev, !.ns = n]
    <2>1. /\ n \in Snapshots /\ n.etag \in {0, st.etag} /\ n.loaded = st.loaded
          /\ n.lver = st.lver /\ n.ver = st.ver /\ n.rev = st.rev
          /\ n.etag # 0 => ~versionsDiffer(st.ver, pr[q].ver) /\ n.etag = st.etag
      BY <1>k DEF Snapshots, OfferedEtag
    <2>2. n \in Leftover
      <3>1. CASE st = Empty
        <4>1. n = Empty
          BY <2>1, <3>1 DEF Empty, OfferedEtag
        <4> QED
          BY <4>1 DEF Leftover
      <3>2. CASE st.loaded /\ st.lver \in 1..exe /\ st.ver = st.lver /\ st.rev \in 1..rev
                 /\ st.etag \in {0, st.rev}
        BY <2>1, <3>2 DEF Leftover
      <3> QED
        BY <1>0, <1>k, <3>1, <3>2, LeftoverFields DEF Stored
    <2>v. pr[q].ver = clientVersion
      BY <1>0, <1>1 DEF Snapshot, Sound
    <2>3. n.loaded /\ n.etag # 0 => n.lver = clientVersion
      <3>2. n.loaded => st.ver = st.lver /\ st.lver # 0
        BY <1>0, <1>k, <2>1, LeftoverFields DEF Stored, Empty
      <3> QED
        BY <1>k, <2>1, <2>v, <3>2 DEF versionsDiffer
    <2> HIDE DEF n
    <2>4. s \in Goroutines /\ s.pc = "get" /\ s.since = rev /\ s.ns = n
          /\ s.ver = pr[q].ver
      BY <1>0, <1>k, <2>1 DEF Goroutines, Stages, Leading
    <2>5. pr' = [pr EXCEPT ![q] = s] /\ UNCHANGED <<cache, clientVersion, probe, env, fails, leader>>
      BY <1>1 DEF Snapshot, n
    <2> HIDE DEF s
    <2>6. pr'[q] = s
      BY <1>0, <2>4, <2>5, Replaced
    <2>7. n \in Leftover' /\ rev' = rev
      BY <2>2, <2>5 DEF Leftover, env
    <2>8. Sound(q)'
      BY <1>0, <1>k, <2>v, <2>3, <2>4, <2>5, <2>6, <2>7 DEF Sound
    <2> QED
      BY <1>0, <2>4, <2>5, <2>8, OwnStep
  <1>2. CASE NotModified(q)
    <2> DEFINE s == [pr[q] EXCEPT !.pc = "commit"]
    <2>1. s \in Goroutines /\ s.pc = "commit" /\ s.ns = pr[q].ns /\ s.since = pr[q].since
          /\ s.ver = pr[q].ver
      BY <1>0 DEF Goroutines, Stages, Leading
    <2>2. pr' = [pr EXCEPT ![q] = s] /\ UNCHANGED <<cache, clientVersion, probe, env, fails, leader>>
      BY <1>2 DEF NotModified
    <2> HIDE DEF s
    <2>3. pr'[q] = s
      BY <1>0, <2>1, <2>2, Replaced
    <2>4. /\ pr[q].ns \in Leftover /\ pr[q].ns.loaded /\ pr[q].ns.etag = rev
          /\ pr[q].since <= rev /\ pr[q].ns.lver = clientVersion /\ pr[q].ver = clientVersion
      BY <1>0, <1>2, <1>k DEF NotModified, Sound
    <2>5. pr[q].ns.rev = rev
      BY <1>k, <2>4, LeftoverFields DEF Empty
    <2>6. st.rev <= rev /\ disk.rev <= rev
      BY <1>0, <1>k, LeftoverFields DEF Stored, Empty
    <2>7. pr[q].ns \in Leftover' /\ UNCHANGED <<st, disk, clientVersion>>
      BY <2>2, <2>4 DEF Leftover, env, cache
    <2>8. Sound(q)'
      BY <1>0, <1>k, <2>1, <2>2, <2>3, <2>4, <2>5, <2>6, <2>7 DEF Sound
    <2> QED
      BY <1>0, <2>1, <2>2, <2>8, OwnStep
  <1>3. CASE OK200(q)
    <2>0. PICK own \in {0, rev} :
             pr' = [pr EXCEPT ![q].pc = "commit",
                      ![q].ns = [loaded |-> TRUE, lver |-> pr[q].ver, rev |-> rev,
                                 etag |-> EtagOf200(q, own), ver |-> pr[q].ver]]
      BY <1>3 DEF OK200
    <2> DEFINE n == [loaded |-> TRUE, lver |-> pr[q].ver, rev |-> rev,
                     etag |-> own, ver |-> pr[q].ver]
               s == [pr[q] EXCEPT !.pc = "commit", !.ns = n]
    <2>1. pr[q].ver = clientVersion /\ pr[q].since <= rev
      BY <1>0, <1>3 DEF OK200, Sound
    <2>2. /\ n \in Snapshots /\ n.loaded /\ n.lver = clientVersion /\ n.ver = clientVersion
          /\ n.rev = rev /\ n.etag \in {0, rev}
      <3>1. pr[q].ver \in 0..MaxExe /\ own \in 0..MaxRev
        BY <1>k, <2>1
      <3> QED
        BY <1>k, <2>1, <3>1 DEF Snapshots
    <2>3. n \in Leftover
      BY <1>0, <1>k, <2>2 DEF Leftover, Stored
    <2> HIDE DEF n
    <2>4. s \in Goroutines /\ s.pc = "commit" /\ s.ns = n /\ s.since = pr[q].since
          /\ s.ver = pr[q].ver
      BY <1>0, <2>2 DEF Goroutines, Stages, Leading
    <2>5. pr' = [pr EXCEPT ![q] = s] /\ UNCHANGED <<cache, clientVersion, probe, env, fails, leader>>
      BY <1>3, <2>0 DEF OK200, EtagOf200, n
    <2> HIDE DEF s
    <2>6. pr'[q] = s
      BY <1>0, <2>4, <2>5, Replaced
    <2>7. st.rev <= rev /\ disk.rev <= rev
      BY <1>0, <1>k, LeftoverFields DEF Stored, Empty
    <2>8. n \in Leftover' /\ UNCHANGED <<st, disk, clientVersion>>
      BY <2>3, <2>5 DEF Leftover, env, cache
    <2>9. Sound(q)'
      BY <1>0, <1>k, <2>1, <2>2, <2>4, <2>5, <2>6, <2>7, <2>8 DEF Sound
    <2> QED
      BY <1>0, <2>4, <2>5, <2>9, OwnStep
  <1>4. CASE FetchFails(q)
    <2>1. /\ Return(q) /\ fails' = fails + 1 /\ disk' \in Snapshots
          /\ UNCHANGED <<env, st, clientVersion, probe>> /\ disk' = disk
      BY <1>4, <1>k DEF FetchFails, cache
    <2>2. Stored'
      BY <1>0, <1>k, <2>1 DEF Stored, Leftover, env
    <2> QED
      BY <1>0, <1>k, <2>1, <2>2, ReturnStep
  <1>5. CASE Commit(q)
    <2> DEFINE s == [Resting EXCEPT !.pc = "write", !.ns = pr[q].ns]
    <2>1. s \in Goroutines /\ s.pc = "write" /\ s.ns = pr[q].ns
      <3>1. PICK x \in Goroutines : x = Resting
        BY EmptyType
      <3> QED
        BY <1>k, <3>1 DEF Goroutines, Stages, Leading
    <2>2. /\ pr' = [pr EXCEPT ![q] = s] /\ st' = pr[q].ns
          /\ UNCHANGED <<disk, clientVersion, leader, probe, env, fails>>
      BY <1>5 DEF Commit
    <2> HIDE DEF s
    <2>3. /\ pr' \in [Procs -> Goroutines] /\ pr'[q] = s
          /\ \A r \in Procs : r # q => pr'[r] = pr[r]
      BY <1>0, <2>1, <2>2, Replaced
    <2>4. pr[q].ns \in Leftover /\ pr[q].ns.lver = clientVersion
      BY <1>0, <1>5 DEF Commit, Sound
    <2>5. Types'
      BY <1>0, <1>k, <2>2, <2>3 DEF Types, env
    <2>6. Stored'
      BY <1>0, <1>k, <2>2, <2>4 DEF Stored, Leftover, env
    <2>7. pr[q].ns \in Leftover'
      BY <2>2, <2>4 DEF Leftover, env
    <2>8. Sound(q)'
      BY <1>0, <2>1, <2>2, <2>3, <2>7 DEF Sound
    <2> QED
      BY <1>0, <2>3, <2>5, <2>6, <2>8, LeaderStep
  <1>6. CASE WriteDisk(q)
    <2>1. /\ Return(q) /\ fails' = fails /\ disk' \in {pr[q].ns, disk}
          /\ UNCHANGED <<env, st, clientVersion, probe>>
      BY <1>6 DEF WriteDisk
    <2>2. pr[q].ns \in Leftover
      BY <1>0, <1>6 DEF WriteDisk, Sound
    <2>3. Stored'
      BY <1>0, <2>1, <2>2 DEF Stored, Leftover, env
    <2> QED
      BY <1>0, <1>k, <2>1, <2>3, ReturnStep
  <1> QED
    BY <1>1, <1>2, <1>3, <1>4, <1>5, <1>6

-----------------------------------------------------------------------------

\* A new process, whatever legal file it finds.
LEMMA CatalogInit == Init => CatalogInv
  <1> SUFFICES ASSUME Init PROVE CatalogInv
    OBVIOUS
  <1>1. disk \in Snapshots /\ st \in Snapshots /\ st.lver = 0
    BY EmptyType DEF Init, Leftover, Empty
  <1>2. Types
    <2>1. /\ exe \in 1..MaxExe /\ rev \in 1..MaxRev /\ missing = FALSE /\ fails \in Nat
          /\ clientVersion = exe
      BY DEF Init
    <2>2. probe \in Probes
      <3>1. exe \in 1..MaxExe /\ {0, exe} \subseteq 0..MaxExe /\ {FALSE} \subseteq BOOLEAN
        BY <2>1, CatalogAssumption
      <3>2. PICK p \in [version : {exe}, fp : {0, exe}, aged : {FALSE}] : p = probe
        BY DEF Init
      <3>3. /\ p.version \in 1..MaxExe /\ p.fp \in 0..MaxExe /\ p.aged \in BOOLEAN
            /\ p = [version |-> p.version, fp |-> p.fp, aged |-> p.aged]
        BY <3>1
      <3> QED
        BY <3>2, <3>3 DEF Probes
    <2>3. pr \in [Procs -> Goroutines]
      BY EmptyType DEF Init
    <2> QED
      BY <1>1, <2>1, <2>2, <2>3 DEF Types
  <1>3. Stored
    BY <1>1, CatalogAssumption DEF Init, Stored, Leftover
  <1>4. \A q \in Procs : Sound(q)
    BY BystanderSound DEF Init, Resting, Leading
  <1> QED
    BY <1>2, <1>3, <1>4 DEF CatalogInv

\* CatalogInv is inductive.
LEMMA CatalogNext == CatalogInv /\ [Next]_vars => CatalogInv'
  <1> SUFFICES ASSUME CatalogInv, [Next]_vars PROVE CatalogInv'
    OBVIOUS
  <1>1. CASE UNCHANGED vars
    <2>1. /\ UNCHANGED <<env, disk, clientVersion, leader, probe, fails>>
          /\ st' = st /\ pr' = pr
      BY <1>1 DEF vars, cache
    <2> QED
      BY <2>1, BystanderStep DEF CatalogInv, Types
  <1>2. CASE \E q \in Procs : Fetch(q)
    BY <1>2, SharedStep, ProbeStep, FetchStep DEF Fetch
  <1>3. CASE World
    BY <1>3, WorldStep
  <1> QED
    BY <1>1, <1>2, <1>3, ModelsStep DEF Next

\* Memory never goes back: what is committed is of the version in use, and as
\* new as what memory has meanwhile taken from the file.
LEMMA CommitCurrent ==
    ASSUME CatalogInv, [Next]_vars
    PROVE  /\ st'.loaded /\ ~st.loaded => st'.lver = clientVersion
           /\ st.loaded /\ st'.loaded => st'.rev >= st.rev /\ st'.lver >= st.lver
  <1>0. st \in Snapshots /\ disk \in Snapshots /\ clientVersion \in 1..MaxExe
    BY DEF CatalogInv, Types
  <1>1. CASE \E q \in Procs : Commit(q)
    BY <1>0, <1>1 DEF Commit, CatalogInv, Sound, Stored, Snapshots
  <1>2. CASE st' = disk /\ DiskUsable /\ ~st.loaded
    <2>1. disk.ver = disk.lver /\ disk.ver # 0
      BY <1>0, <1>2, LeftoverFields DEF DiskUsable, CatalogInv, Stored, Empty
    <2> QED
      BY <1>0, <1>2, <2>1 DEF DiskUsable, versionsDiffer
  <1>3. CASE st' = st
    BY <1>0, <1>3 DEF Snapshots
  <1> QED
    BY <1>1, <1>2, <1>3 DEF Next, Models, Fetch, World, Call, Look, revalidateAsync, BgDone, HealthPoll,
       ensureDiskLoaded, fetchShared, ProbeStat, ProbeRun, ProbeNote, ProbeRunFails, Snapshot,
       NotModified, OK200, FetchFails, WriteDisk, Publish, UpgradeBegin, UpgradeEnd, Expire, ProbeAges,
       cache, vars

\* A step from "commit" to "write" is Commit.
LEMMA CommitIs ==
    ASSUME CatalogInv, [Next]_vars, NEW q \in Procs, pr[q].pc = "commit", pr'[q].pc = "write"
    PROVE  Commit(q)
  <1>1. pr \in [Procs -> Goroutines] /\ pr[q] \in Goroutines /\ Bg \in Procs
    BY DEF CatalogInv, Types, Procs
  <1>2. ASSUME NEW r \in Procs, r # q, pr[r].pc \in Leading PROVE FALSE
    BY <1>2, OneLeader DEF Leading
  <1>3. pr'[q] # pr[q]
    BY <1>1
  <1>4. ASSUME NEW r \in Procs, Fetch(r) PROVE Commit(q)
    <2>1. CASE fetchShared(r)
      BY <1>1, <1>3, <2>1 DEF fetchShared, GoTo, Goroutines
    <2>2. CASE ~fetchShared(r)
      <3>1. r = q
        BY <1>2, <1>4, <2>2 DEF Fetch, ProbeStat, ProbeRun, ProbeNote, ProbeRunFails, Snapshot,
           NotModified, OK200, FetchFails, Commit, WriteDisk, Leading
      <3> QED
        BY <1>4, <2>2, <3>1 DEF Fetch, ProbeStat, ProbeRun, ProbeNote, ProbeRunFails, Snapshot,
           NotModified, OK200, FetchFails, WriteDisk
    <2> QED
      BY <2>1, <2>2
  <1>5. ASSUME NEW r \in Procs, Models(r) PROVE FALSE
    BY <1>1, <1>5 DEF Models, Call, Look, revalidateAsync, GoTo, Goroutines
  <1>6. ~BgDone
    BY <1>1 DEF BgDone, GoTo, Goroutines
  <1>7. ~HealthPoll /\ ~World /\ ~UNCHANGED vars
    BY <1>3 DEF HealthPoll, World, Publish, UpgradeBegin, UpgradeEnd, Expire, ProbeAges, vars
  <1> QED
    BY <1>4, <1>5, <1>6, <1>7 DEF Next

\* "A 304 can never revalidate the old version's list": for any number of
\* callers, upgrades, revisions and failures, whatever legal file was found.
THEOREM CatalogStampedIsCurrent == Spec => StampedIsCurrent
  <1>1. CatalogInv /\ [Next]_vars =>
           [ /\ st'.loaded /\ ~st.loaded => st'.lver = clientVersion
             /\ \A q \in Procs : pr[q].pc = "commit" /\ pr'[q].pc = "write" =>
                   st'.lver = clientVersion /\ st'.rev >= pr[q].since
             /\ st.loaded /\ st'.loaded => st'.rev >= st.rev /\ st'.lver >= st.lver
             /\ disk' \in Leftover
             /\ fails' = 0 /\ ~missing' /\ probe'.fp = exe' => probe'.version = exe']_vars
    <2> SUFFICES ASSUME CatalogInv, [Next]_vars
                 PROVE  /\ st'.loaded /\ ~st.loaded => st'.lver = clientVersion
                        /\ \A q \in Procs : pr[q].pc = "commit" /\ pr'[q].pc = "write" =>
                              st'.lver = clientVersion /\ st'.rev >= pr[q].since
                        /\ st.loaded /\ st'.loaded => st'.rev >= st.rev /\ st'.lver >= st.lver
                        /\ disk' \in Leftover
                        /\ fails' = 0 /\ ~missing' /\ probe'.fp = exe' => probe'.version = exe'
      OBVIOUS
    <2>1. \A q \in Procs : pr[q].pc = "commit" /\ pr'[q].pc = "write" =>
             st'.lver = clientVersion /\ st'.rev >= pr[q].since
      BY CommitIs DEF Commit, CatalogInv, Sound
    \* The set a file must be in is the one of the moment before: only WriteDisk
    \* changes the file, and it leaves the world alone.
    <2>2. disk' \in Leftover
      <3>1. CASE \E q \in Procs : WriteDisk(q)
        BY <3>1 DEF WriteDisk, CatalogInv, Sound, Stored
      <3>2. CASE disk' = disk
        BY <3>2 DEF CatalogInv, Stored
      <3> QED
        BY <3>1, <3>2 DEF Next, Models, Fetch, World, Call, Look, revalidateAsync, BgDone, HealthPoll,
           fetchShared, ProbeStat, ProbeRun, ProbeNote, ProbeRunFails, Snapshot, NotModified, OK200,
           FetchFails, Commit, Publish, UpgradeBegin, UpgradeEnd, Expire, ProbeAges, cache, vars
    <2>3. fails' = 0 /\ ~missing' /\ probe'.fp = exe' => probe'.version = exe'
      BY CatalogNext DEF CatalogInv, Stored
    <2> QED
      BY <2>1, <2>2, <2>3, CommitCurrent
  <1> QED
    BY <1>1, CatalogInit, CatalogNext, PTL DEF Spec, StampedIsCurrent

=============================================================================
