---------------------------- MODULE CodexCatalog ----------------------------
(***************************************************************************)
(* The Codex model catalog (internal/codex/catalog) and the probe that     *)
(* tells it which version of the Codex CLI is installed                    *)
(* (cmd/utraque/codex_version.go).                                         *)
(*                                                                         *)
(* The backend lists models per client version, so a list is a pair: the   *)
(* version it was served to (`lver`) and the backend's revision (`rev`).   *)
(* The backend's ETag names the revision only; whether it also tells       *)
(* versions apart is not known to the code, which never relies on it.      *)
(* Installed executables are numbered: the number is both the version      *)
(* `codex --version` prints and the fingerprint of the file.               *)
(***************************************************************************)
EXTENDS Integers, FiniteSets

CONSTANTS
    Callers,        \* goroutines that call Models
    Bg,             \* the goroutine of revalidateAsync
    MaxExe,         \* bound: executables ever installed
    MaxRev,         \* bound: revisions the backend ever publishes
    MaxFails        \* bound: failed requests and failed --version runs

Nobody == "nobody"

ASSUME CatalogAssumption ==
    /\ IsFiniteSet(Callers) /\ Bg \notin Callers
    /\ Nobody \notin Callers \cup {Bg}
    /\ MaxExe \in Nat \ {0} /\ MaxRev \in Nat \ {0}
    /\ MaxFails \in Nat

VARIABLES
    st,             \* c.st, the snapshot in memory
    fresh,          \* c.now() - c.st.fetchedAt < c.ttl
    disk,           \* the cache file
    diskTried,      \* c.diskTried
    clientVersion,  \* c.clientVersion
    refreshing,     \* c.refreshing
    leader,         \* who runs fetch for the singleflight key; Nobody if none
    pr,             \* per goroutine: where it is and what it holds
    probe,          \* codexVersionProbe: version, fp, and whether max age passed
    exe, missing,   \* installed executable; TRUE while an upgrade replaces it
    rev,            \* the backend's current revision
    fails           \* failures so far

cache == <<st, fresh, disk, diskTried>>
env == <<exe, missing, rev>>
vars == <<cache, clientVersion, refreshing, leader, pr, probe, env, fails>>

Procs == Callers \cup {Bg}

(***************************************************************************)
(* A snapshot: `state` in memory, cschema.Cache on disk.  etag 0 is no     *)
(* ETag, `ver` the client version recorded with the list.                  *)
(***************************************************************************)
Snapshots == [loaded: BOOLEAN, lver: 0..MaxExe, rev: 0..MaxRev,
              etag: 0..MaxRev, ver: 0..MaxExe]
Empty == [loaded |-> FALSE, lver |-> 0, rev |-> 0, etag |-> 0, ver |-> 0]

(***************************************************************************)
(* A goroutine: "look" and "revalidate" are the two halves of Models,      *)
(* "do" group.Do, "wait" waiting for another leader; the leader goes       *)
(* through "stat", "run" (codex --version), "note", "snap", "get",         *)
(* "commit" and "write"; "clear" is the deferred refreshing.Store(false).  *)
(***************************************************************************)
Resting == [pc |-> "idle", fp |-> 0, ver |-> 0, ns |-> Empty, since |-> 0]

(***************************************************************************)
(* The cache file an earlier process may have left: none, or a list it was *)
(* served, with that list's ETag or none.  A file without a client version *)
(* is assumed away: WriteDisk always records one, and whatever version the *)
(* process knows is taken for that of an old file (versionsDiffer).        *)
(***************************************************************************)
Leftover ==
    {Empty} \cup {d \in Snapshots :
                    /\ d.loaded
                    /\ d.lver \in 1..exe /\ d.ver = d.lver
                    /\ d.rev \in 1..rev /\ d.etag \in {0, d.rev}}

(***************************************************************************)
(* Start of the process: New, with the seed discoverInitial found.  The    *)
(* fingerprint it keeps is 0 when the stat failed or the executable was    *)
(* replaced between the stat and the run: it then matches no later one.    *)
(* A crash at any moment leads to one of these states again, because       *)
(* nothing but the file survives; StampedIsCurrent closes that circle.     *)
(***************************************************************************)
Init ==
    /\ exe \in 1..MaxExe /\ missing = FALSE /\ rev \in 1..MaxRev
    /\ st = Empty /\ fresh = FALSE /\ disk \in Leftover /\ diskTried = FALSE
    /\ clientVersion = exe /\ refreshing = FALSE /\ leader = Nobody
    /\ pr = [q \in Procs |-> Resting]
    /\ probe \in [version: {exe}, fp: {0, exe}, aged: {FALSE}]
    /\ fails = 0

versionsDiffer(held, current) ==
    held # 0 /\ current # 0 /\ held # current

\* The file is not missing and not of another client version.
DiskUsable == disk.loaded /\ ~versionsDiffer(disk.ver, clientVersion)

(***************************************************************************)
(* How the file's fetched_at compares with the clock is open: the daemon   *)
(* may have been down for long, and the clock may have been set back; a    *)
(* file dated beyond the allowed skew is ignored.                          *)
(***************************************************************************)
DiskAges == {"fresh", "stale", "future"}

ensureDiskLoaded ==
    /\ diskTried' = TRUE
    /\ \E age \in DiskAges :
         IF ~diskTried /\ ~st.loaded /\ DiskUsable /\ age # "future"
         THEN st' = disk /\ fresh' = (age = "fresh")
         ELSE UNCHANGED <<st, fresh>>

GoTo(q, stage) == pr' = [pr EXCEPT ![q].pc = stage]

-----------------------------------------------------------------------------
(* Models *)

Call(q) ==
    /\ pr[q].pc = "idle" /\ q \in Callers
    /\ ensureDiskLoaded
    /\ GoTo(q, "look")
    /\ UNCHANGED <<disk, clientVersion, refreshing, leader, probe, env, fails>>

\* A fresh snapshot is returned; a stale one too, once a revalidation was asked
\* for; without one the caller has to fetch.
Look(q) ==
    /\ pr[q].pc = "look"
    /\ GoTo(q, CASE ~st.loaded -> "do"
                 [] st.loaded /\ fresh -> "idle"
                 [] OTHER -> "revalidate")
    /\ UNCHANGED <<cache, clientVersion, refreshing, leader, probe, env, fails>>

\* The compare-and-swap lets one goroutine at a time start the background fetch.
revalidateAsync(q) ==
    /\ pr[q].pc = "revalidate"
    /\ refreshing' = TRUE
    /\ pr' = IF refreshing
             THEN [pr EXCEPT ![q].pc = "idle"]
             ELSE [pr EXCEPT ![q].pc = "idle", ![Bg].pc = "do"]
    /\ UNCHANGED <<cache, clientVersion, leader, probe, env, fails>>

\* /healthz: Age and Snapshot only load the disk cache.
HealthPoll ==
    /\ ensureDiskLoaded
    /\ UNCHANGED <<disk, clientVersion, refreshing, leader, pr, probe, env,
                   fails>>

-----------------------------------------------------------------------------
(* fetchShared *)

CanLead == leader = Nobody

fetchShared(q) ==
    /\ pr[q].pc = "do"
    /\ IF CanLead
       THEN leader' = q /\ GoTo(q, "stat")
       ELSE leader' = leader /\ GoTo(q, "wait")
    /\ UNCHANGED <<cache, clientVersion, refreshing, probe, env, fails>>

\* Where a goroutine goes when its fetch, led or shared, is over.
AfterFetch(q) == IF q = Bg THEN "clear" ELSE "idle"

\* fn returns: the key is free again and everyone who waited has the answer.
Return(q) ==
    /\ leader' = Nobody
    /\ pr' = [r \in Procs |->
                IF r = q \/ pr[r].pc = "wait"
                THEN [Resting EXCEPT !.pc = AfterFetch(r)] ELSE pr[r]]

\* Mutant: the flag stays up.
ClearRefreshingNever == refreshing' = refreshing

ClearRefreshing == refreshing' = FALSE

BgDone ==
    /\ pr[Bg].pc = "clear"
    /\ ClearRefreshing
    /\ GoTo(Bg, "idle")
    /\ UNCHANGED <<cache, clientVersion, leader, probe, env, fails>>

-----------------------------------------------------------------------------
(* codexVersionProbe.ClientVersion, and resolveClientVersion around it *)

Resolved(q, v) ==
    /\ clientVersion' = v
    /\ pr' = [pr EXCEPT ![q].pc = "snap", ![q].ver = v, ![q].fp = 0]

LastGood == probe.version

\* One stat: with the file gone, or unchanged since the last run of it, the
\* version in hand stands.
ProbeStat(q) ==
    /\ pr[q].pc = "stat"
    /\ IF missing \/ (exe = probe.fp /\ ~probe.aged)
       THEN Resolved(q, LastGood)
       ELSE /\ pr' = [pr EXCEPT ![q].pc = "run", ![q].fp = exe]
            /\ UNCHANGED clientVersion
    /\ UNCHANGED <<cache, refreshing, leader, probe, env, fails>>

\* codex --version prints the version of the file that is there when it starts.
ProbeRun(q) ==
    /\ pr[q].pc = "run" /\ ~missing
    /\ pr' = [pr EXCEPT ![q].pc = "note", ![q].ver = exe]
    /\ UNCHANGED <<cache, clientVersion, refreshing, leader, probe, env, fails>>

ProbedWith(q) == pr[q].fp

ProbeNote(q) ==
    /\ pr[q].pc = "note"
    /\ probe' = [version |-> pr[q].ver, fp |-> ProbedWith(q), aged |-> FALSE]
    /\ Resolved(q, pr[q].ver)
    /\ UNCHANGED <<cache, refreshing, leader, env, fails>>

\* The run fails.  The fingerprint is recorded all the same, so that a broken
\* executable is not run before every fetch, unless the caller had given up.
ProbeRunFails(q) ==
    /\ pr[q].pc = "run"
    /\ missing \/ fails < MaxFails
    /\ fails' = IF missing THEN fails ELSE fails + 1
    /\ \/ probe' = [probe EXCEPT !.fp = pr[q].fp, !.aged = FALSE]
       \/ probe' = probe
    /\ Resolved(q, LastGood)
    /\ UNCHANGED <<cache, refreshing, leader, env>>

-----------------------------------------------------------------------------
(* fetch *)

\* Mutant: the validator goes along whatever the version.
OfferedEtagAlways(q) == st.etag

\* The validator goes along only with the version it was given for.
OfferedEtag(q) == IF versionsDiffer(st.ver, pr[q].ver) THEN 0 ELSE st.etag

Snapshot(q) ==
    /\ pr[q].pc = "snap"
    /\ pr' = [pr EXCEPT ![q].pc = "get", ![q].since = rev,
                        ![q].ns = [st EXCEPT !.etag = OfferedEtag(q)]]
    /\ UNCHANGED <<cache, clientVersion, refreshing, leader, probe, env, fails>>

\* 304: the held list stands and is fresh again.
NotModified(q) ==
    /\ pr[q].pc = "get" /\ pr[q].ns.loaded
    /\ pr[q].ns.etag = rev
    /\ pr' = [pr EXCEPT ![q].pc = "commit"]
    /\ UNCHANGED <<cache, clientVersion, refreshing, leader, probe, env, fails>>

EtagOf200(q, own) == own

OK200(q) ==
    /\ pr[q].pc = "get"
    /\ \E own \in {0, rev} :
         pr' = [pr EXCEPT ![q].pc = "commit",
                  ![q].ns = [loaded |-> TRUE, lver |-> pr[q].ver, rev |-> rev,
                             etag |-> EtagOf200(q, own), ver |-> pr[q].ver]]
    /\ UNCHANGED <<cache, clientVersion, refreshing, leader, probe, env, fails>>

\* No answer, an unreadable one, a status that is an error (a 304 that was not
\* asked for included), or the leader's context cancelled: nothing is stored.
FetchFails(q) ==
    /\ pr[q].pc = "get" /\ fails < MaxFails
    /\ fails' = fails + 1
    /\ Return(q)
    /\ UNCHANGED <<cache, clientVersion, refreshing, probe, env>>

\* commit: memory first.
Commit(q) ==
    /\ pr[q].pc = "commit"
    /\ st' = pr[q].ns /\ fresh' = TRUE
    /\ pr' = [pr EXCEPT ![q] = [Resting EXCEPT !.pc = "write", !.ns = pr[q].ns]]
    /\ UNCHANGED <<disk, diskTried, clientVersion, refreshing, leader, probe,
                   env, fails>>

\* then the file, by an atomic rename that may fail and is then forgotten.
WriteDisk(q) ==
    /\ pr[q].pc = "write"
    /\ disk' \in {pr[q].ns, disk}
    /\ Return(q)
    /\ UNCHANGED <<st, fresh, diskTried, clientVersion, refreshing, probe, env,
                   fails>>

-----------------------------------------------------------------------------
(* The rest of the world *)

Publish ==
    /\ rev < MaxRev /\ rev' = rev + 1
    /\ UNCHANGED <<cache, clientVersion, refreshing, leader, pr,
                   probe, exe, missing, fails>>

UpgradeBegin ==
    /\ ~missing /\ exe < MaxExe /\ missing' = TRUE
    /\ UNCHANGED <<cache, clientVersion, refreshing, leader, pr,
                   probe, exe, rev, fails>>

UpgradeEnd ==
    /\ missing /\ missing' = FALSE /\ exe' = exe + 1
    /\ UNCHANGED <<cache, clientVersion, refreshing, leader, pr,
                   probe, rev, fails>>

\* DefaultTTL passes.
Expire ==
    /\ fresh /\ fresh' = FALSE
    /\ UNCHANGED <<st, disk, diskTried, clientVersion, refreshing, leader, pr,
                   probe, env, fails>>

\* codexVersionMaxAge passes.
ProbeAges ==
    /\ ~probe.aged /\ probe' = [probe EXCEPT !.aged = TRUE]
    /\ UNCHANGED <<cache, clientVersion, refreshing, leader, pr, env, fails>>

Fetch(q) ==
    \/ fetchShared(q) \/ ProbeStat(q) \/ ProbeRun(q) \/ ProbeNote(q)
    \/ ProbeRunFails(q)
    \/ Snapshot(q) \/ NotModified(q) \/ OK200(q) \/ FetchFails(q)
    \/ Commit(q) \/ WriteDisk(q)

Models(q) == Call(q) \/ Look(q) \/ revalidateAsync(q)

World == Publish \/ UpgradeBegin \/ UpgradeEnd \/ Expire \/ ProbeAges

Next ==
    \/ \E q \in Procs : Models(q) \/ Fetch(q)
    \/ BgDone \/ HealthPoll \/ World

(***************************************************************************)
(* Fairness: goroutines run and the HTTP client has a timeout; callers     *)
(* keep asking (Converges is about a catalog that is in use); an upgrade   *)
(* that began ends; time passes.                                           *)
(***************************************************************************)
Fairness ==
    /\ \A q \in Procs : WF_vars(Models(q) \/ Fetch(q))
    /\ WF_vars(BgDone) /\ WF_vars(UpgradeEnd)
    /\ WF_vars(Expire) /\ WF_vars(ProbeAges)

Spec == Init /\ [][Next]_vars /\ Fairness

-----------------------------------------------------------------------------
(* Properties *)

\* Whatever is stamped with a client version is what that version was served.
\* A list that enters memory, from the backend or from the file, is one for the
\* version in use; what a fetch stores, a 304's reuse included, is at least as new
\* as what the backend had when the request was made (catalog.go, fetch: "a 304 can
\* never revalidate the old version's list"); and within one process no later list
\* gives way to an earlier one, of the backend's or of the CLI's making.  At any
\* moment, and so after a crash at any moment, the file is one that a new process
\* can rely on.  And the probe never records a version under a later file's
\* fingerprint, unless a run of that very file failed.
StampedIsCurrent ==
    [][/\ st'.loaded /\ ~st.loaded => st'.lver = clientVersion
       /\ \A q \in Procs : pr[q].pc = "commit" /\ pr'[q].pc = "write" =>
             st'.lver = clientVersion /\ st'.rev >= pr[q].since
       /\ st.loaded /\ st'.loaded => st'.rev >= st.rev /\ st'.lver >= st.lver
       /\ disk' \in Leftover
       /\ fails' = 0 /\ ~missing' /\ probe'.fp = exe' => probe'.version = exe']_vars

\* A catalog in use ends up with the backend's current list for the installed
\* CLI, although fetches and --version runs fail, the CLI is upgraded while the
\* daemon runs, and whatever file was found at the start.
Converges == <>[](st.loaded /\ st.lver = exe /\ st.rev = rev)

=============================================================================
