--------------------------- MODULE ProviderReport ---------------------------
(***************************************************************************)
(* The provider report (internal/providerreport) over the quota client     *)
(* whose flights and cooldowns its collections share (internal/            *)
(* providerquota, http.go).                                                *)
(*                                                                         *)
(* Callers ask; those of the same scope share one collection               *)
(* (singleflight), collections compete for the slots of h.sem, and         *)
(* collections of different Codex accounts still share the quota request   *)
(* of one Anthropic token.  Meanwhile the Codex login changes, time        *)
(* passes, and every deadline may run out at any moment.  There is no      *)
(* clock: reports have an age, cooldowns the time they have left.          *)
(*                                                                         *)
(* An observation is the credential it was made with and the number of the *)
(* collection it belongs to.  The history tool, the price list and the     *)
(* Codex app-server are the subject of SideBySide; here their outcome is  *)
(* chosen when a collection gathers its results.  The DeepSeek balance is  *)
(* read by the same getJSON under a single scope, and a caller without a   *)
(* token has a section that fails without a request: neither has a part of *)
(* its own here.  The date range being part of the scope, the model stays  *)
(* within one UTC day.                                                     *)
(***************************************************************************)
EXTENDS Integers, FiniteSets

CONSTANTS
    Tokens,         \* Anthropic credentials a caller may send
    Accounts,       \* Codex accounts that may be logged in
    None,           \* no credential, no observation, no entry
    Slots,          \* capacity of h.sem
    MaxCache,       \* maxCacheEntries of the report cache
    MaxEntries,     \* maxHTTPStateEntries of a quota client
    TTL,            \* age at which a cached report expires
    Backoff,        \* defaultRateLimitBackoff
    MaxBackoff,     \* maxRateLimitBackoff
    RetryAfters,    \* delta-seconds an upstream may put in Retry-After
    MaxCollections  \* bound on the collections of a behaviour

ASSUME BoundsAssumption ==
    /\ {Slots, MaxCache, MaxEntries, TTL, Backoff, MaxBackoff} \subseteq Nat \ {0}
    /\ MaxCollections \in Nat
    /\ RetryAfters \subseteq Nat
    /\ Backoff <= MaxBackoff
    /\ None \notin Tokens \cup Accounts

VARIABLES
    account,      \* what the Codex credential source answers, None if it fails
    collection,   \* the singleflight of each scope, None when idle
    sem,          \* slots of h.sem taken
    cache,        \* h.cache
    entries,      \* httpState.entries of the Anthropic quota client
    count,        \* collections begun
    cooldown,     \* history: how long the upstream still wants no request of a token
    complete      \* history: the last complete observation of each scope

vars == <<account, collection, sem, cache, entries, count, cooldown, complete>>

Providers == {"anthropic", "codex"}

Credentials == [token : Tokens, account : Accounts \cup {None}]

\* The scope without the Codex account, as a broken key would have it.
scopeKey_NoAccount(creds) == [creds EXCEPT !.account = None]

\* What one report may be reused for: the same credentials.
scopeKey(creds) == creds

Observed(who, n) == [who |-> who, n |-> n]

Observations == [who : Tokens \cup Accounts, n : Nat] \cup {None}

\* One provider's part of a report: its quota, whether all of it was read, and
\* the snapshot kept from an earlier collection.
Sections == [quota : Observations, complete : BOOLEAN, last : Observations]

Reports == [report : [Providers -> Sections], age : Nat]

\* An entry of a quota client: who leads the request in flight, the time the
\* cooldown has left, and the 429s in a row.
Entries == [leader : Credentials \cup {None}, retryAfter : Nat, refusals : Nat]

ASSUME NoneAssumption == None \notin Reports /\ None \notin Entries /\ None \notin Credentials

Init ==
    /\ account = None
    /\ collection = [k \in Credentials |-> None]
    /\ sem = 0
    /\ cache = [k \in Credentials |-> None]
    /\ entries = [t \in Tokens |-> None]
    /\ count = 0
    /\ cooldown = [t \in Tokens |-> 0]
    /\ complete = [k \in Credentials |-> [p \in Providers |-> None]]

-----------------------------------------------------------------------------
(* The requests: Handler.serve.                                            *)

\* Whose observations a report shows, in its sections and their snapshots.
Owners(report) ==
    {o.who : o \in ({report[p].quota : p \in Providers} \cup
                    {report[p].last : p \in Providers}) \ {None}}

cached(k) == cache[k] # None /\ cache[k].age < TTL

\* serve and the start of group.DoChan.  A report that is cached is answered at
\* once, and a caller whose scope is being collected waits for that; both change
\* nothing, nor does a caller that gives up waiting (504).  Another look at the
\* cache inside the singleflight closes the gap between the first look and
\* DoChan, so that they are one step.  The guard on count bounds the model.
Ask(token) ==
    LET creds == [token |-> token, account |-> account]
        k == scopeKey(creds)
    IN /\ ~cached(k)
       /\ collection[k] = None
       /\ count < MaxCollections
       /\ count' = count + 1
       /\ collection' = [collection EXCEPT ![k] =
             [pc |-> "slot", creds |-> creds, n |-> count',
              quota |-> [pc |-> "new"]]]
       /\ UNCHANGED <<account, sem, cache, entries, cooldown, complete>>

\* The singleflight of a scope returns to everyone who waits for it.
Return(k) == collection' = [collection EXCEPT ![k] = None]

-----------------------------------------------------------------------------
(* One collection: the function given to DoChan.                           *)

At(k, pc) == collection[k] # None /\ collection[k].pc = pc

TakeSlot(k) ==
    /\ At(k, "slot")
    /\ sem < Slots
    /\ sem' = sem + 1
    /\ collection' = [collection EXCEPT ![k].pc = "collect"]
    /\ UNCHANGED <<account, cache, entries, count, cooldown, complete>>

\* No slot before the collection's deadline: 503 for everyone.
NoSlot(k) ==
    /\ At(k, "slot")
    /\ Return(k)
    /\ UNCHANGED <<account, sem, cache, entries, count, cooldown, complete>>

-----------------------------------------------------------------------------
(* The Anthropic quota read: httpSettings.getJSON.                         *)

Reads(k, pc) == At(k, "collect") /\ collection[k].quota.pc = pc

Failed == [pc |-> "done", obs |-> None]

Cooling(t) == entries[t] # None /\ entries[t].retryAfter > 0

Held == {t \in Tokens : entries[t] # None}

\* The eviction that forgets to spare the entries that cool down.
makeRoom_Cooling ==
    IF Cardinality(Held) < MaxEntries THEN {{}}
    ELSE {{t} : t \in {u \in Held : entries[u].leader = None}}

\* makeRoomLocked: the ways of making room, each the set of entries evicted (the
\* code takes the one touched longest ago).
makeRoom ==
    IF Cardinality(Held) < MaxEntries THEN {{}}
    ELSE {{t} : t \in {u \in Held : entries[u].leader = None /\ ~Cooling(u)}}

Lead(k, t, evicted) ==
    /\ collection' = [collection EXCEPT ![k].quota = [pc |-> "lead"]]
    /\ entries' = [u \in Tokens |->
          IF u \in evicted THEN None
          ELSE IF u # t THEN entries[u]
          ELSE IF entries[t] = None
               THEN [leader |-> k, retryAfter |-> 0, refusals |-> 0]
               ELSE [entries[t] EXCEPT !.leader = k]]

\* AnthropicClient.Read, getJSON and acquire: refused by a cooldown, behind the
\* request in flight, or the leader of a new one if there is room for its entry.
ReadQuota(k) ==
    LET t == collection[k].creds.token
        fails == collection' = [collection EXCEPT ![k].quota = Failed] /\ UNCHANGED entries
    IN /\ Reads(k, "new")
       /\ \/ Cooling(t) /\ fails
          \/ /\ ~Cooling(t)
             /\ entries[t] # None /\ entries[t].leader # None
             /\ collection' = [collection EXCEPT ![k].quota =
                                 [pc |-> "wait", on |-> entries[t].leader]]
             /\ UNCHANGED entries
          \/ /\ ~Cooling(t)
             /\ entries[t] # None /\ entries[t].leader = None
             /\ Lead(k, t, {})
          \/ /\ entries[t] = None
             /\ \/ makeRoom = {} /\ fails
                \/ \E evicted \in makeRoom : Lead(k, t, evicted)
       /\ UNCHANGED <<account, sem, cache, count, cooldown, complete>>

\* finish closes flight.done: the leader and all who wait get the one result.
closeDone(k, quota) ==
    [l \in Credentials |->
        IF l = k \/ (Reads(l, "wait") /\ collection[l].quota.on = k)
        THEN [collection[l] EXCEPT !.quota = quota]
        ELSE collection[l]]

\* finish with a body, or with any failure but a 429: the entry goes.
Finish(k, quota) ==
    LET t == collection[k].creds.token IN
    /\ Reads(k, "lead")
    /\ collection' = closeDone(k, quota)
    /\ entries' = [entries EXCEPT ![t] = None]
    /\ UNCHANGED <<account, sem, cache, count, cooldown, complete>>

QuotaAnswered(k) ==
    Reads(k, "lead") /\
    Finish(k, [pc |-> "done", obs |-> Observed(collection[k].creds.token, collection[k].n)])

\* A transport error, a deadline, a status, a body too large or not understood.
QuotaFails(k) == Finish(k, Failed)

fallbackBackoff(refusals) ==
    LET grown == Backoff * 2^(refusals - 1) IN
    IF grown \in 0 .. MaxBackoff THEN grown ELSE MaxBackoff

\* finish after a 429: the entry stays, with the deadline Retry-After gives or,
\* when there is none to use, the fallback.  The count of refusals is kept only
\* as far as it still makes a difference.
QuotaRefused(k, retryAfter) ==
    LET t == collection[k].creds.token
        before == entries[t].refusals
        refusals == IF before > 0 /\ fallbackBackoff(before) = MaxBackoff
                    THEN before ELSE before + 1
        pause == IF retryAfter = None THEN fallbackBackoff(refusals) ELSE retryAfter
    IN /\ Reads(k, "lead")
       /\ collection' = closeDone(k, Failed)
       /\ entries' = [entries EXCEPT ![t] =
             [leader |-> None, retryAfter |-> pause, refusals |-> refusals]]
       /\ cooldown' = [cooldown EXCEPT ![t] = pause]
       /\ UNCHANGED <<account, sem, cache, count, complete>>

\* A follower's own context ends first.
StopsWaiting(k) ==
    /\ Reads(k, "wait")
    /\ collection' = [collection EXCEPT ![k].quota = Failed]
    /\ UNCHANGED <<account, sem, cache, entries, count, cooldown, complete>>

-----------------------------------------------------------------------------
(* The end of a collection: buildProvider, the check of the Codex scope    *)
(* and storeAttempt.                                                       *)

\* buildProvider: a section is complete (StatusOK) when no source of it failed.
buildProvider(quota, otherErr) ==
    [quota |-> quota, complete |-> quota # None /\ ~otherErr, last |-> None]

\* markCodexUnavailable: what a login that changed meanwhile leaves of it.
markCodexUnavailable == [quota |-> None, complete |-> FALSE, last |-> None]

\* The snapshot of an earlier success kept for a login that changed meanwhile.
carryLast_Discarded(k, p, section, discard) ==
    LET old == cache[k] IN
    IF old = None \/ section.complete THEN section
    ELSE [section EXCEPT !.last =
            IF old.report[p].last # None THEN old.report[p].last
            ELSE IF old.report[p].complete THEN old.report[p].quota ELSE None]

\* storeAttempt: the last complete snapshot goes on to a section that is not
\* complete itself, unless it must be discarded.
carryLast(k, p, section, discard) ==
    LET old == cache[k] IN
    IF old = None \/ section.complete \/ discard THEN section
    ELSE [section EXCEPT !.last =
            IF old.report[p].last # None THEN old.report[p].last
            ELSE IF old.report[p].complete THEN old.report[p].quota ELSE None]

Stored == {k \in Credentials : cache[k] # None}

\* storeAttempt evicts the oldest report of a full cache, although the entry it
\* writes may replace one.
Evicted ==
    IF Cardinality(Stored) < MaxCache THEN {{}}
    ELSE {{k} : k \in {j \in Stored :
                         \A l \in Stored : cache[j].age >= cache[l].age}}

\* The slot returned only by collections that kept their login.
releaseSlot_IfKept(kept) == sem' = IF kept THEN sem - 1 ELSE sem

\* The deferred receive from h.sem, on every path.
releaseSlot(kept) == sem' = sem - 1

\* storeAttempt, after the login was asked for once more: kept says that it is
\* still the one the collection began with.
Store(k, report, kept) ==
    \E evicted \in Evicted :
        LET Discard(p) == p = "codex" /\ ~kept IN
        /\ cache' = [l \in Credentials |->
              IF l = k THEN [report |-> [p \in Providers |->
                                           carryLast(k, p, report[p], Discard(p))],
                             age |-> 0]
              ELSE IF l \in evicted THEN None
              ELSE cache[l]]
        /\ complete' = [l \in Credentials |-> [p \in Providers |->
              IF l = k /\ report[p].complete THEN report[p].quota
              ELSE IF l = k /\ Discard(p) THEN None
              ELSE IF l \in evicted \ {k} THEN None
              ELSE complete[l][p]]]

\* collect has joined its readers; the deferred calls give the slot back.
Gather(k) ==
    LET col == collection[k]
        kept == col.creds.account \in {None, account}
    IN /\ At(k, "collect") /\ col.quota.pc = "done"
       /\ \E codexErr, otherErr \in BOOLEAN :
            LET codex == IF codexErr \/ col.creds.account = None THEN None
                         ELSE Observed(col.creds.account, col.n)
            IN Store(k, [anthropic |-> buildProvider(col.quota.obs, otherErr),
                         codex |-> IF kept THEN buildProvider(codex, otherErr)
                                   ELSE markCodexUnavailable],
                     kept)
       /\ Return(k)
       /\ releaseSlot(kept)
       /\ UNCHANGED <<account, entries, count, cooldown>>

-----------------------------------------------------------------------------
(* The world: a login, a logout, the passing of time.                      *)

Login(a) ==
    /\ a # account
    /\ account' = a
    /\ UNCHANGED <<collection, sem, cache, entries, count, cooldown, complete>>

\* Time passes: reports age, as far as it matters, and cooldowns run off.
Less(d) == IF d > 0 THEN d - 1 ELSE 0

Tick ==
    /\ cache' = [k \in Credentials |->
                   IF cache[k] = None \/ cache[k].age = TTL THEN cache[k]
                   ELSE [cache[k] EXCEPT !.age = @ + 1]]
    /\ entries' = [t \in Tokens |->
                     IF entries[t] = None THEN None
                     ELSE [entries[t] EXCEPT !.retryAfter = Less(@)]]
    /\ cooldown' = [t \in Tokens |-> Less(cooldown[t])]
    /\ UNCHANGED <<account, collection, sem, count, complete>>

\* What the program does by itself: the answers and failures it waits for come
\* because the HTTP clients and the history tool have deadlines of their own.
Progress ==
    \E k \in Credentials :
        \/ TakeSlot(k) \/ ReadQuota(k) \/ QuotaAnswered(k) \/ QuotaFails(k) \/ Gather(k)
        \/ \E d \in RetryAfters \cup {None} : QuotaRefused(k, d)

Next ==
    \/ Progress
    \/ \E t \in Tokens : Ask(t)
    \/ \E k \in Credentials : NoSlot(k) \/ StopsWaiting(k)
    \/ \E a \in Accounts \cup {None} : Login(a)
    \/ Tick

Spec == Init /\ [][Next]_vars /\ WF_vars(Progress)

-----------------------------------------------------------------------------
(* Properties.                                                             *)

\* Whatever credentials a caller comes with, the report the cache holds for it
\* shows only the quota of its own Anthropic token and of the Codex account that
\* is logged in when it asks, in the sections and in the snapshots kept from
\* earlier collections: across shared collections, shared quota requests and
\* logins in between (scopeKey, acquire, serve).
ScopeIsolated ==
    \A creds \in Credentials :
        LET k == scopeKey(creds) IN
        k \in Stored => Owners(cache[k].report) \subseteq {creds.token, creds.account}

\* What a cached section shows as its last complete state is the latest one: its
\* own quota when it is complete, otherwise the observation of the last complete
\* collection of the scope; and never one from before a login change was
\* detected (storeAttempt, markCodexUnavailable).
LatestComplete ==
    \A k \in Stored, p \in Providers :
        LET section == cache[k].report[p] IN
        IF section.complete
        THEN section.quota = complete[k][p] /\ section.last = None
        ELSE section.last = complete[k][p]

\* Once the upstream has refused a token until some time, no request with that
\* token leaves before it, whatever else the bounded table of entries had to
\* take in meanwhile (finish, acquire, makeRoomLocked).
CooldownHonoured ==
    [][\A k \in Credentials :
         Reads(k, "lead")' /\ ~Reads(k, "lead") =>
             cooldown[collection[k].creds.token] = 0]_vars

\* Collections do not block one another for ever: again and again none is under
\* way (their number being bounded, each one ends), without the help of
\* anybody's deadline.  The ones before give back their slots, and the requests
\* they share come back to all of them also when they fail (serve, finish).
CollectionsEnd == []<>(\A k \in Credentials : collection[k] = None)
=============================================================================
