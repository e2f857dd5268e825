---------------------------- MODULE ReportProof ----------------------------
(***************************************************************************)
(* Proofs about ProviderReport, for any tokens, accounts, bounds and number *)
(* of collections: what the report cache holds for a scope belongs to the   *)
(* credentials of that scope, what it shows as the last complete state is   *)
(* the latest one, and a token that was refused rests.                      *)
(*                                                                         *)
(* None of the three is inductive.  A report's owner is settled long before *)
(* the report is stored: the flight that a collection leads, joins and is   *)
(* answered by has to belong to its token all along (CollectionsOwn,        *)
(* EntriesOwn).  The snapshot carried over from the previous report is the  *)
(* latest only if a scope the cache has dropped has none left that could    *)
(* come back (NothingForgotten).  And a new request of a token is held back *)
(* by its entry alone, so the entry must know the whole cooldown for as     *)
(* long as it lasts (EntriesCool).                                          *)
(***************************************************************************)
EXTENDS ProviderReport, TLAPS

Quotas ==
    [pc : {"new", "lead"}] \cup [pc : {"wait"}, on : Credentials]
        \cup [pc : {"done"}, obs : Observations]

Collections == [pc : {"slot", "collect"}, creds : Credentials, n : Nat, quota : Quotas]

\* A collection belongs to the scope k, and so does its shared quota request: the
\* one it waits for, and what that brought back.
CollectionOwn(k, c) ==
    c # None =>
        /\ c.creds = k
        /\ c.pc = "slot" => c.quota.pc = "new"
        /\ c.quota.pc = "wait" => c.quota.on.token = k.token
        /\ c.quota.pc = "done" /\ c.quota.obs # None => c.quota.obs.who = k.token

CollectionsOwn ==
    /\ account \in Accounts \cup {None}
    /\ count \in Nat
    /\ collection \in [Credentials -> Collections \cup {None}]
    /\ \A k \in Credentials : CollectionOwn(k, collection[k])

EntriesOwn ==
    /\ entries \in [Tokens -> Entries \cup {None}]
    /\ \A t \in Tokens : entries[t] # None /\ entries[t].leader # None =>
          entries[t].leader.token = t

\* The entry of a token knows what is left of its cooldown; without an entry there
\* is none, and none while a request of the token is in flight.
EntriesCool ==
    /\ cooldown \in [Tokens -> Nat]
    /\ \A t \in Tokens :
          /\ entries[t] = None => cooldown[t] = 0
          /\ entries[t] # None => cooldown[t] = entries[t].retryAfter
          /\ entries[t] # None /\ entries[t].leader # None => cooldown[t] = 0

\* Whoever leads a request is named by the entry of its token.
LeadersKnown ==
    \A k \in Credentials :
        Reads(k, "lead") => entries[k.token] # None /\ entries[k.token].leader = k

Owned(k, o) == o # None => o.who \in {k.token, k.account}

CacheOwn ==
    /\ cache \in [Credentials -> Reports \cup {None}]
    /\ \A k \in Credentials : cache[k] # None =>
          \A p \in Providers : /\ Owned(k, cache[k].report[p].quota)
                               /\ Owned(k, cache[k].report[p].last)

\* There is no last complete state of a scope the cache does not hold.
NothingForgotten ==
    \A k \in Credentials : cache[k] = None => \A p \in Providers : complete[k][p] = None

ReportInv ==
    /\ CollectionsOwn /\ EntriesOwn /\ EntriesCool /\ LeadersKnown /\ CacheOwn
    /\ NothingForgotten /\ LatestComplete

-----------------------------------------------------------------------------
(* The collections.                                                        *)

\* The constants of the model are members of the sets drawn from.
LEMMA QuotaTypes ==
    /\ [pc |-> "new"] \in Quotas /\ [pc |-> "lead"] \in Quotas /\ Failed \in Quotas
    /\ \A k \in Credentials : [pc |-> "wait", on |-> k] \in Quotas
    /\ \A o \in Observations : [pc |-> "done", obs |-> o] \in Quotas
  BY DEF Quotas, Failed, Observations

\* A collection under way may turn to any quota that belongs to its token.
LEMMA QuotaKept ==
    ASSUME CollectionsOwn, NEW k \in Credentials, At(k, "collect"),
           NEW q \in Quotas,
           q.pc = "wait" => q.on.token = k.token,
           q.pc = "done" /\ q.obs # None => q.obs.who = k.token
    PROVE  /\ [collection[k] EXCEPT !.quota = q] \in Collections
           /\ CollectionOwn(k, [collection[k] EXCEPT !.quota = q])
           /\ [collection[k] EXCEPT !.quota = q].quota = q
  <1>1. collection[k] \in Collections /\ collection[k].pc = "collect" /\ collection[k].creds = k
    BY DEF CollectionsOwn, CollectionOwn, At
  <1>2. PICK c \in Collections : c = collection[k]
    BY <1>1
  <1>3. [c EXCEPT !.quota = q] \in Collections
    BY <1>2 DEF Collections
  <1>4. CollectionOwn(k, [c EXCEPT !.quota = q]) /\ [c EXCEPT !.quota = q].quota = q
    BY <1>1, <1>2 DEF Collections, CollectionOwn
  <1> QED
    BY <1>2, <1>3, <1>4

\* A shared request ends, for the one who leads it and for all who wait for it.
LEMMA CloseDone ==
    ASSUME CollectionsOwn, account' = account, count' = count,
           NEW k \in Credentials, Reads(k, "lead"),
           NEW q \in Quotas, q.pc = "done", q.obs # None => q.obs.who = k.token,
           collection' = closeDone(k, q)
    PROVE  CollectionsOwn'
  <1> DEFINE c(l) == IF l = k \/ (Reads(l, "wait") /\ collection[l].quota.on = k)
                     THEN [collection[l] EXCEPT !.quota = q]
                     ELSE collection[l]
  <1>1. collection' = [l \in Credentials |-> c(l)]
    BY DEF closeDone
  <1>2. ASSUME NEW l \in Credentials, c(l) # collection[l]
        PROVE  c(l) \in Collections /\ CollectionOwn(l, c(l))
    <2>1. c(l) = [collection[l] EXCEPT !.quota = q] /\ At(l, "collect")
      BY <1>2 DEF Reads
    <2>2. l.token = k.token
      BY <1>2 DEF Reads, At, CollectionsOwn, CollectionOwn
    <2> QED
      BY <2>1, <2>2, QuotaKept
  <1>3. \A l \in Credentials :
           \/ c(l) = collection[l] \/ c(l) = None
           \/ c(l) \in Collections /\ CollectionOwn(l, c(l))
    BY <1>2
  <1> HIDE DEF c
  <1> QED
    BY <1>1, <1>3 DEF CollectionsOwn, CollectionOwn

\* Whatever a step does, a collection works for its scope.
LEMMA CollectionsNext == ASSUME ReportInv, [Next]_vars PROVE CollectionsOwn'
  <1> USE DEF ReportInv
  <1>0. ASSUME NEW k \in Credentials, NEW q \in Quotas, At(k, "collect"),
               q.pc = "wait" => q.on.token = k.token,
               q.pc = "done" /\ q.obs # None => q.obs.who = k.token,
               account' = account, count' = count,
               collection' = [collection EXCEPT ![k].quota = q]
        PROVE  CollectionsOwn'
    <2>1. [collection[k] EXCEPT !.quota = q] \in Collections
          /\ CollectionOwn(k, [collection[k] EXCEPT !.quota = q])
      BY <1>0, QuotaKept
    <2>2. PICK d : d = [collection[k] EXCEPT !.quota = q]
      OBVIOUS
    <2>3. collection' = [collection EXCEPT ![k] = d]
      BY <1>0, <2>2 DEF CollectionsOwn
    <2> QED
      BY <1>0, <2>1, <2>2, <2>3 DEF CollectionsOwn, CollectionOwn
  <1>1. ASSUME NEW t \in Tokens, Ask(t) PROVE CollectionsOwn'
    <2> DEFINE creds == [token |-> t, account |-> account]
               new == [pc |-> "slot", creds |-> creds, n |-> count', quota |-> [pc |-> "new"]]
    <2>1. creds \in Credentials
      BY DEF CollectionsOwn, Credentials
    <2>2. account' = account /\ count' \in Nat /\ collection' = [collection EXCEPT ![creds] = new]
      BY <1>1 DEF Ask, scopeKey, CollectionsOwn
    <2>3. new \in Collections /\ CollectionOwn(creds, new)
      BY <2>1, <2>2, QuotaTypes DEF Collections, CollectionOwn
    <2> HIDE DEF creds, new
    <2> QED
      BY <2>1, <2>2, <2>3 DEF CollectionsOwn, CollectionOwn
  <1>2. ASSUME NEW k \in Credentials, TakeSlot(k) PROVE CollectionsOwn'
    <2>1. PICK c \in Collections : c = collection[k]
      BY <1>2 DEF TakeSlot, At, CollectionsOwn
    <2>2. [c EXCEPT !.pc = "collect"] \in Collections /\ CollectionOwn(k, [c EXCEPT !.pc = "collect"])
      BY <1>2, <2>1 DEF Collections, CollectionsOwn, CollectionOwn, TakeSlot, At
    <2>3. PICK d : d = [c EXCEPT !.pc = "collect"]
      OBVIOUS
    <2>4. collection' = [collection EXCEPT ![k] = d]
      BY <1>2, <2>1, <2>3 DEF TakeSlot, CollectionsOwn
    <2>5. d \in Collections /\ CollectionOwn(k, d) /\ account' = account /\ count' = count
      BY <1>2, <2>2, <2>3 DEF TakeSlot
    <2> QED
      BY <2>4, <2>5 DEF CollectionsOwn, CollectionOwn
  <1>3. ASSUME NEW k \in Credentials, NoSlot(k) \/ Gather(k) PROVE CollectionsOwn'
    <2>1. collection' = [collection EXCEPT ![k] = None] /\ account' = account /\ count' = count
      BY <1>3 DEF NoSlot, Gather, Return
    <2> QED
      BY <2>1 DEF CollectionsOwn, CollectionOwn
  <1>4. ASSUME NEW k \in Credentials, ReadQuota(k) PROVE CollectionsOwn'
    <2> DEFINE t == collection[k].creds.token
    <2>1. At(k, "collect") /\ account' = account /\ count' = count
      BY <1>4 DEF ReadQuota, Reads
    <2>2. t = k.token /\ t \in Tokens
      BY <2>1 DEF At, CollectionsOwn, CollectionOwn, Credentials
    <2>3. CASE collection' = [collection EXCEPT ![k].quota = Failed]
      BY <1>0, <2>1, <2>3, QuotaTypes DEF Failed
    <2>4. CASE \E evicted : Lead(k, t, evicted)
      <3>1. collection' = [collection EXCEPT ![k].quota = [pc |-> "lead"]]
        BY <2>4 DEF Lead
      <3> QED
        BY <1>0, <2>1, <3>1, QuotaTypes
    <2>5. CASE /\ entries[t] # None /\ entries[t].leader # None
               /\ collection' = [collection EXCEPT ![k].quota =
                                   [pc |-> "wait", on |-> entries[t].leader]]
      <3>1. entries[t].leader \in Credentials /\ entries[t].leader.token = k.token
        BY <2>2, <2>5 DEF EntriesOwn, Entries
      <3>2. [pc |-> "wait", on |-> entries[t].leader] \in Quotas
        BY <3>1, QuotaTypes
      <3> QED
        BY <1>0, <2>1, <2>5, <3>1, <3>2
    <2> QED
      BY <1>4, <2>3, <2>4, <2>5 DEF ReadQuota
  <1>5. ASSUME NEW k \in Credentials, StopsWaiting(k) PROVE CollectionsOwn'
    BY <1>0, <1>5, QuotaTypes DEF StopsWaiting, Reads, Failed
  <1>6. ASSUME NEW k \in Credentials, QuotaAnswered(k) PROVE CollectionsOwn'
    <2> DEFINE obs == Observed(collection[k].creds.token, collection[k].n)
               q == [pc |-> "done", obs |-> obs]
    <2>1. Reads(k, "lead") /\ collection' = closeDone(k, q) /\ account' = account /\ count' = count
      BY <1>6 DEF QuotaAnswered, Finish
    <2>2. collection[k] \in Collections /\ collection[k].creds = k
      BY <2>1 DEF Reads, At, CollectionsOwn, CollectionOwn
    <2>3. obs \in Observations /\ obs.who = k.token
      BY <2>2 DEF Observed, Observations, Collections, Credentials
    <2>4. q \in Quotas /\ q.pc = "done" /\ q.obs.who = k.token
      BY <2>3, QuotaTypes
    <2> HIDE DEF q
    <2> QED
      BY <2>1, <2>4, CloseDone
  <1>7. ASSUME NEW k \in Credentials,
               QuotaFails(k) \/ \E d \in RetryAfters \cup {None} : QuotaRefused(k, d)
        PROVE  CollectionsOwn'
    <2>1. Reads(k, "lead") /\ collection' = closeDone(k, Failed) /\ account' = account /\ count' = count
      BY <1>7 DEF QuotaFails, QuotaRefused, Finish
    <2>2. Failed \in Quotas /\ Failed.pc = "done" /\ Failed.obs = None
      BY QuotaTypes DEF Failed
    <2> QED
      BY <2>1, <2>2, CloseDone
  <1>8. ASSUME NEW a \in Accounts \cup {None}, Login(a) PROVE CollectionsOwn'
    BY <1>8 DEF Login, CollectionsOwn, CollectionOwn
  <1>9. CASE Tick \/ UNCHANGED vars
    BY <1>9 DEF Tick, vars, CollectionsOwn, CollectionOwn
  <1> QED
    BY <1>1, <1>2, <1>3, <1>4, <1>5, <1>6, <1>7, <1>8, <1>9 DEF Next, Progress

-----------------------------------------------------------------------------
(* The entries of the quota client.                                        *)

\* A pause after a refusal is a length of time.
LEMMA PauseType == \A n : fallbackBackoff(n) \in Nat
  <1>1. \A g : (IF g \in 0 .. MaxBackoff THEN g ELSE MaxBackoff) \in Nat
    BY BoundsAssumption
  <1> QED
    BY <1>1, Zenon DEF fallbackBackoff

\* Leading a request keeps the entry of its token, with what it knows.
LEMMA LeadEntries ==
    ASSUME EntriesOwn, EntriesCool, NEW k \in Credentials, NEW t \in Tokens, k.token = t,
           NEW evicted, \A u \in evicted : ~Cooling(u) /\ u # t,
           ~Cooling(t), cooldown' = cooldown, Lead(k, t, evicted)
    PROVE  EntriesOwn' /\ EntriesCool'
  <1> DEFINE new == IF entries[t] = None THEN [leader |-> k, retryAfter |-> 0, refusals |-> 0]
                    ELSE [entries[t] EXCEPT !.leader = k]
  <1>1. new \in Entries /\ new.leader = k /\ new.retryAfter = 0 /\ cooldown[t] = 0
    <2>1. CASE entries[t] = None
      BY <2>1 DEF Entries, EntriesCool
    <2>2. CASE entries[t] # None
      <3>1. PICK e \in Entries : e = entries[t]
        BY <2>2 DEF EntriesOwn
      <3>2. e.retryAfter = 0
        BY <2>2, <3>1 DEF Cooling, Entries
      <3>3. [e EXCEPT !.leader = k] \in Entries /\ [e EXCEPT !.leader = k].leader = k
            /\ [e EXCEPT !.leader = k].retryAfter = 0
        BY <3>2 DEF Entries
      <3> QED
        BY <2>2, <3>1, <3>2, <3>3 DEF EntriesCool
    <2> QED
      BY <2>1, <2>2
  <1>2. entries' = [u \in Tokens |-> IF u \in evicted THEN None
                                    ELSE IF u # t THEN entries[u] ELSE new]
    BY DEF Lead
  <1>3. \A u \in Tokens : u \in evicted => cooldown[u] = 0
    BY DEF Cooling, EntriesCool, EntriesOwn, Entries
  <1> HIDE DEF new
  <1>4. EntriesOwn'
    BY <1>1, <1>2 DEF EntriesOwn
  <1>5. EntriesCool'
    BY <1>1, <1>2, <1>3, NoneAssumption DEF EntriesCool
  <1> QED
    BY <1>4, <1>5

\* Whatever a step does, the entries belong to their tokens and know the cooldowns.
LEMMA EntriesNext == ASSUME ReportInv, [Next]_vars PROVE EntriesOwn' /\ EntriesCool'
  <1> USE DEF ReportInv
  <1>1. ASSUME NEW k \in Credentials, ReadQuota(k) PROVE EntriesOwn' /\ EntriesCool'
    <2> DEFINE t == collection[k].creds.token
    <2>1. t = k.token /\ t \in Tokens /\ cooldown' = cooldown
      BY <1>1 DEF ReadQuota, Reads, At, CollectionsOwn, CollectionOwn, Credentials
    <2>2. CASE UNCHANGED entries
      BY <2>1, <2>2 DEF EntriesOwn, EntriesCool
    <2>3. CASE ~Cooling(t) /\ Lead(k, t, {})
      BY <2>1, <2>3, LeadEntries
    <2>4. ASSUME entries[t] = None, NEW evicted \in makeRoom, Lead(k, t, evicted)
          PROVE  EntriesOwn' /\ EntriesCool'
      <3>1. ~Cooling(t) /\ \A u \in evicted : ~Cooling(u) /\ u # t
        BY <2>4 DEF makeRoom, Cooling, Held
      <3> QED
        BY <2>1, <2>4, <3>1, LeadEntries
    <2> QED
      BY <1>1, <2>2, <2>3, <2>4 DEF ReadQuota
  <1>2. ASSUME NEW k \in Credentials, QuotaAnswered(k) \/ QuotaFails(k)
        PROVE  EntriesOwn' /\ EntriesCool'
    <2>1. Reads(k, "lead") /\ cooldown' = cooldown
          /\ entries' = [entries EXCEPT ![collection[k].creds.token] = None]
      BY <1>2 DEF QuotaAnswered, QuotaFails, Finish
    <2>2. collection[k].creds.token = k.token /\ k.token \in Tokens
      BY <2>1 DEF Reads, At, CollectionsOwn, CollectionOwn, Credentials
    <2>3. cooldown[k.token] = 0
      BY <2>1, <2>2, NoneAssumption DEF LeadersKnown, EntriesCool
    <2> QED
      BY <2>1, <2>2, <2>3 DEF EntriesOwn, EntriesCool
  <1>3. ASSUME NEW k \in Credentials, NEW d \in RetryAfters \cup {None}, QuotaRefused(k, d)
        PROVE  EntriesOwn' /\ EntriesCool'
    <2> DEFINE t == collection[k].creds.token
               before == entries[t].refusals
               refusals == IF before > 0 /\ fallbackBackoff(before) = MaxBackoff
                           THEN before ELSE before + 1
               pause == IF d = None THEN fallbackBackoff(refusals) ELSE d
               new == [leader |-> None, retryAfter |-> pause, refusals |-> refusals]
    <2>1. Reads(k, "lead") /\ cooldown' = [cooldown EXCEPT ![t] = pause]
          /\ entries' = [entries EXCEPT ![t] = new]
      BY <1>3 DEF QuotaRefused
    <2>2. t = k.token /\ t \in Tokens
      BY <2>1 DEF Reads, At, CollectionsOwn, CollectionOwn, Credentials
    <2>3. before \in Nat
      BY <2>1, <2>2 DEF LeadersKnown, EntriesOwn, Entries
    <2>4. pause \in Nat
      <3> HIDE DEF refusals
      <3>1. fallbackBackoff(refusals) \in Nat
        BY PauseType
      <3> QED
        BY <3>1, BoundsAssumption
    <2>5. refusals \in Nat
      BY <2>3
    <2> HIDE DEF t, before, refusals, pause
    <2>6. new \in Entries /\ new.leader = None /\ new.retryAfter = pause
      BY <2>4, <2>5 DEF Entries
    <2> HIDE DEF new
    <2> QED
      BY <2>1, <2>2, <2>4, <2>6, NoneAssumption DEF EntriesOwn, EntriesCool
  <1>4. CASE Tick
    <2>1. \A n \in Nat : Less(n) \in Nat /\ (n = 0 => Less(n) = 0)
      BY DEF Less
    <2> DEFINE e(t) == IF entries[t] = None THEN None
                       ELSE [entries[t] EXCEPT !.retryAfter = Less(@)]
    <2>2. entries' = [t \in Tokens |-> e(t)] /\ cooldown' = [t \in Tokens |-> Less(cooldown[t])]
      BY <1>4 DEF Tick
    <2>3. ASSUME NEW t \in Tokens, entries[t] # None
          PROVE  /\ e(t) \in Entries /\ e(t).leader = entries[t].leader
                 /\ e(t).retryAfter = Less(entries[t].retryAfter)
      <3>1. PICK x \in Entries : x = entries[t]
        BY <2>3 DEF EntriesOwn
      <3>2. e(t) = [x EXCEPT !.retryAfter = Less(x.retryAfter)]
        BY <2>3, <3>1
      <3>3. Less(x.retryAfter) \in Nat
        BY <2>1 DEF Entries
      <3> QED
        BY <3>1, <3>2, <3>3 DEF Entries
    <2>4. \A t \in Tokens : entries[t] = None => e(t) = None
      OBVIOUS
    <2> HIDE DEF e
    <2>5. EntriesOwn'
      BY <2>2, <2>3, <2>4, NoneAssumption DEF EntriesOwn
    <2>6. EntriesCool'
      BY <2>1, <2>2, <2>3, <2>4, NoneAssumption DEF EntriesCool, EntriesOwn, Entries
    <2> QED
      BY <2>5, <2>6
  <1>5. CASE UNCHANGED <<entries, cooldown>>
    BY <1>5 DEF EntriesOwn, EntriesCool
  <1>6. \/ \E k \in Credentials :
              \/ ReadQuota(k) \/ QuotaAnswered(k) \/ QuotaFails(k)
              \/ \E d \in RetryAfters \cup {None} : QuotaRefused(k, d)
        \/ Tick
        \/ UNCHANGED <<entries, cooldown>>
    BY DEF Next, Progress, Ask, TakeSlot, NoSlot, Gather, StopsWaiting, Login, vars
  <1> QED
    BY <1>1, <1>2, <1>3, <1>4, <1>5, <1>6

\* The request of a token that neither cools down nor is asked for begins, in the
\* place of entries nobody leads.
Begins(k) ==
    /\ ~Cooling(k.token)
    /\ entries[k.token] = None \/ entries[k.token].leader = None
    /\ \E evicted : /\ \A u \in evicted : entries[u].leader = None /\ u # k.token
                    /\ Lead(k, k.token, evicted)

\* Reading a quota is refused, waits, or begins a request.
LEMMA ReadCases ==
    ASSUME CollectionsOwn, NEW k \in Credentials, ReadQuota(k)
    PROVE  \/ /\ UNCHANGED entries
              /\ \/ collection' = [collection EXCEPT ![k].quota = Failed]
                 \/ collection' = [collection EXCEPT ![k].quota =
                                     [pc |-> "wait", on |-> entries[k.token].leader]]
           \/ Begins(k)
  <1> DEFINE t == collection[k].creds.token
  <1>1. t = k.token
    BY DEF ReadQuota, Reads, At, CollectionsOwn, CollectionOwn
  <1>2. CASE ~Cooling(t) /\ entries[t].leader = None /\ Lead(k, t, {})
    BY <1>1, <1>2 DEF Begins
  <1>3. ASSUME entries[t] = None, NEW evicted \in makeRoom, Lead(k, t, evicted)
        PROVE  Begins(k)
    <2>1. ~Cooling(t) /\ \A u \in evicted : entries[u].leader = None /\ u # t
      BY <1>3 DEF makeRoom, Cooling, Held
    <2> QED
      BY <1>1, <1>3, <2>1 DEF Begins
  <1> QED
    BY <1>1, <1>2, <1>3 DEF ReadQuota

\* The end of a request: it ends for all who share it, and leaves the entries of
\* other tokens alone.
LEMMA FinishCases ==
    ASSUME CollectionsOwn, EntriesOwn, NEW k \in Credentials,
           QuotaAnswered(k) \/ QuotaFails(k) \/ \E d \in RetryAfters \cup {None} : QuotaRefused(k, d)
    PROVE  /\ Reads(k, "lead")
           /\ \/ collection' = closeDone(k, Failed)
              \/ collection' = closeDone(k, [pc |-> "done", obs |->
                                    Observed(collection[k].creds.token, collection[k].n)])
           /\ \A t \in Tokens \ {k.token} : entries'[t] = entries[t]
  <1>1. Reads(k, "lead") => collection[k].creds.token = k.token
    BY DEF Reads, At, CollectionsOwn, CollectionOwn
  <1> QED
    BY <1>1 DEF QuotaAnswered, QuotaFails, QuotaRefused, Finish, EntriesOwn

\* Only reading a quota begins a request.
LEMMA LeadBegins ==
    ASSUME ReportInv, [Next]_vars, NEW k \in Credentials, ~Reads(k, "lead"), Reads(k, "lead")'
    PROVE  Begins(k) /\ collection[k].creds = k
  <1> USE DEF ReportInv
  <1>1. /\ collection'[k] # collection[k]
        /\ collection'[k] # None /\ collection'[k].pc = "collect" /\ collection'[k].quota.pc = "lead"
    BY DEF Reads, At
  <1>2. ASSUME NEW t \in Tokens, Ask(t) PROVE FALSE
    BY <1>1, <1>2 DEF Ask, CollectionsOwn
  <1>3. ASSUME NEW j \in Credentials, TakeSlot(j) PROVE FALSE
    <2>1. collection' = [collection EXCEPT ![j].pc = "collect"] /\ At(j, "slot")
      BY <1>3 DEF TakeSlot
    <2>2. k = j
      BY <1>1, <2>1 DEF CollectionsOwn
    <2>3. PICK c \in Collections : c = collection[k] /\ c.quota.pc = "new"
      BY <2>1, <2>2 DEF At, CollectionsOwn, CollectionOwn
    <2>4. collection'[k].quota = c.quota
      BY <2>1, <2>2, <2>3 DEF CollectionsOwn, Collections
    <2> QED
      BY <1>1, <2>3, <2>4
  <1>4. ASSUME NEW j \in Credentials, NoSlot(j) \/ Gather(j) PROVE FALSE
    BY <1>1, <1>4 DEF NoSlot, Gather, Return, CollectionsOwn
  <1>5. ASSUME NEW j \in Credentials, NEW q, q.pc # "lead",
               collection' = [collection EXCEPT ![j].quota = q], At(j, "collect")
        PROVE  FALSE
    <2>1. k = j
      BY <1>1, <1>5 DEF CollectionsOwn
    <2>2. PICK c \in Collections : c = collection[k]
      BY <1>5, <2>1 DEF At, CollectionsOwn
    <2>3. collection'[k].quota = q
      BY <1>5, <2>1, <2>2 DEF CollectionsOwn, Collections
    <2> QED
      BY <1>1, <1>5, <2>3
  <1>6. ASSUME NEW j \in Credentials, NEW q, q.pc = "done", collection' = closeDone(j, q)
        PROVE  FALSE
    <2>1. collection'[k] = [collection[k] EXCEPT !.quota = q]
      BY <1>1, <1>6 DEF closeDone
    <2>2. CASE collection[k] = None
      BY <1>1, <1>6, <2>1, <2>2 DEF closeDone, Reads, At
    <2>3. CASE collection[k] # None
      <3>1. PICK c \in Collections : c = collection[k]
        BY <2>3 DEF CollectionsOwn
      <3>2. collection'[k].quota = q
        BY <2>1, <3>1 DEF Collections
      <3> QED
        BY <1>1, <1>6, <3>2
    <2> QED
      BY <2>2, <2>3
  <1>7. ASSUME NEW j \in Credentials,
               QuotaAnswered(j) \/ QuotaFails(j) \/ \E d \in RetryAfters \cup {None} : QuotaRefused(j, d)
        PROVE  FALSE
    <2> DEFINE answered ==
                 [pc |-> "done", obs |-> Observed(collection[j].creds.token, collection[j].n)]
    <2>1. Failed.pc = "done" /\ answered.pc = "done"
      BY DEF Failed
    <2>2. collection' = closeDone(j, Failed) \/ collection' = closeDone(j, answered)
      BY <1>7, FinishCases
    <2> HIDE DEF answered
    <2> QED
      BY <1>6, <2>1, <2>2
  <1>8. ASSUME NEW j \in Credentials, StopsWaiting(j) PROVE FALSE
    <2>1. /\ At(j, "collect") /\ collection' = [collection EXCEPT ![j].quota = Failed]
          /\ Failed.pc # "lead"
      BY <1>8 DEF StopsWaiting, Reads, Failed
    <2> QED
      BY <1>5, <2>1
  <1>9. ASSUME NEW j \in Credentials, ReadQuota(j)
        PROVE  Begins(k) /\ collection[k].creds = k
    <2>1. At(j, "collect")
      BY <1>9 DEF ReadQuota, Reads
    <2>2. CASE Begins(j)
      <3>1. collection' = [collection EXCEPT ![j].quota = [pc |-> "lead"]]
        BY <2>2 DEF Begins, Lead
      <3>2. k = j
        BY <1>1, <3>1 DEF CollectionsOwn
      <3> QED
        BY <2>1, <2>2, <3>2 DEF At, CollectionsOwn, CollectionOwn
    <2> DEFINE waiting == [pc |-> "wait", on |-> entries[j.token].leader]
    <2>3. Failed.pc # "lead" /\ waiting.pc # "lead"
      BY DEF Failed
    <2>4. \/ Begins(j)
          \/ collection' = [collection EXCEPT ![j].quota = Failed]
          \/ collection' = [collection EXCEPT ![j].quota = waiting]
      BY <1>9, ReadCases
    <2> HIDE DEF waiting
    <2> QED
      BY <1>5, <2>1, <2>2, <2>3, <2>4
  <1>10. CASE \E a \in Accounts \cup {None} : Login(a)
    BY <1>1, <1>10 DEF Login
  <1>11. CASE Tick \/ UNCHANGED vars
    BY <1>1, <1>11 DEF Tick, vars
  <1> QED
    BY <1>2, <1>3, <1>4, <1>7, <1>8, <1>9, <1>10, <1>11 DEF Next, Progress

\* Whatever a step does, a request under way is the one its token's entry names.
LEMMA LeadersNext == ASSUME ReportInv, [Next]_vars PROVE LeadersKnown'
  <1> USE DEF ReportInv
  <1> SUFFICES ASSUME NEW k \in Credentials, Reads(k, "lead")'
               PROVE  entries'[k.token] # None /\ entries'[k.token].leader = k
    BY DEF LeadersKnown, Reads, At
  <1>0. k.token \in Tokens /\ k # None
    BY NoneAssumption DEF Credentials
  <1>1. CASE ~Reads(k, "lead")
    <2>1. PICK evicted : (\A u \in evicted : u # k.token) /\ Lead(k, k.token, evicted)
      BY <1>1, LeadBegins DEF Begins
    <2>2. CASE entries[k.token] = None
      BY <1>0, <2>1, <2>2, NoneAssumption DEF Lead, Entries
    <2>3. CASE entries[k.token] # None
      <3>1. PICK e \in Entries : e = entries[k.token]
        BY <1>0, <2>3 DEF EntriesOwn
      <3>2. [e EXCEPT !.leader = k] \in Entries /\ [e EXCEPT !.leader = k].leader = k
        BY DEF Entries
      <3>3. entries'[k.token] = [e EXCEPT !.leader = k]
        BY <1>0, <2>1, <2>3, <3>1 DEF Lead
      <3> QED
        BY <3>2, <3>3, NoneAssumption
    <2> QED
      BY <2>2, <2>3
  <1>2. CASE Reads(k, "lead")
    <2>0. entries[k.token] # None /\ entries[k.token].leader = k
      BY <1>2 DEF LeadersKnown
    <2>1. CASE entries'[k.token] = entries[k.token]
      BY <2>0, <2>1
    <2>2. ASSUME NEW j \in Credentials, ReadQuota(j) PROVE entries'[k.token] = entries[k.token]
      <3>1. CASE Begins(j)
        <4>1. PICK evicted : /\ \A u \in evicted : entries[u].leader = None
                             /\ Lead(j, j.token, evicted)
          BY <3>1 DEF Begins
        <4>2. k.token \notin evicted /\ k.token # j.token
          BY <1>0, <2>0, <3>1, <4>1 DEF Begins
        <4> QED
          BY <1>0, <4>1, <4>2 DEF Lead
      <3> QED
        BY <2>2, <3>1, ReadCases
    <2>3. ASSUME NEW j \in Credentials,
                 QuotaAnswered(j) \/ QuotaFails(j) \/ \E d \in RetryAfters \cup {None} : QuotaRefused(j, d)
          PROVE  entries'[k.token] = entries[k.token]
      <3>1. Reads(j, "lead")
        BY <2>3, FinishCases
      <3>2. CASE j = k
        <4>1. PICK c \in Collections : c = collection[k]
          BY <1>2 DEF Reads, At, CollectionsOwn
        <4>2. ASSUME NEW q, q.pc = "done", collection' = closeDone(k, q) PROVE FALSE
          <5>1. collection'[k] = [c EXCEPT !.quota = q]
            BY <4>1, <4>2 DEF closeDone
          <5>2. collection'[k].quota = q
            BY <5>1 DEF Collections
          <5> QED
            BY <4>2, <5>2 DEF Reads
        <4> DEFINE answered ==
                     [pc |-> "done", obs |-> Observed(collection[k].creds.token, collection[k].n)]
        <4>3. Failed.pc = "done" /\ answered.pc = "done"
          BY DEF Failed
        <4>4. collection' = closeDone(k, Failed) \/ collection' = closeDone(k, answered)
          BY <2>3, <3>2, FinishCases
        <4> HIDE DEF answered
        <4> QED
          BY <4>2, <4>3, <4>4
      <3>3. CASE j # k
        <4>1. j.token # k.token
          BY <2>0, <3>1, <3>3 DEF LeadersKnown
        <4> QED
          BY <1>0, <2>3, <4>1, FinishCases
      <3> QED
        BY <3>2, <3>3
    <2>4. CASE Tick
      <3>1. PICK e \in Entries : e = entries[k.token]
        BY <1>0, <2>0 DEF EntriesOwn
      <3>2. entries'[k.token] = [e EXCEPT !.retryAfter = Less(e.retryAfter)]
        BY <1>0, <2>0, <2>4, <3>1 DEF Tick
      <3>3. Less(e.retryAfter) \in Nat
        BY DEF Less, Entries
      <3>4. entries'[k.token] \in Entries /\ entries'[k.token].leader = e.leader
        BY <3>2, <3>3 DEF Entries
      <3> QED
        BY <2>0, <3>1, <3>4, NoneAssumption
    <2>5. CASE UNCHANGED entries
      BY <2>1, <2>5
    <2>6. \/ \E j \in Credentials :
                \/ ReadQuota(j) \/ QuotaAnswered(j) \/ QuotaFails(j)
                \/ \E d \in RetryAfters \cup {None} : QuotaRefused(j, d)
          \/ Tick
          \/ UNCHANGED entries
      BY DEF Next, Progress, Ask, TakeSlot, NoSlot, Gather, StopsWaiting, Login, vars
    <2> QED
      BY <2>1, <2>2, <2>3, <2>4, <2>5, <2>6
  <1> QED
    BY <1>1, <1>2

-----------------------------------------------------------------------------
(* The cache of reports.                                                   *)

\* What a report shows of a provider after carryLast: it belongs to the scope, and
\* its last complete state is the latest one.
LEMMA CarriedSection ==
    ASSUME CacheOwn, NothingForgotten, LatestComplete,
           NEW k \in Credentials, NEW p \in Providers,
           NEW section \in Sections, section.last = None, Owned(k, section.quota),
           NEW discard \in BOOLEAN
    PROVE  LET new == carryLast(k, p, section, discard) IN
           /\ new \in Sections /\ Owned(k, new.quota) /\ Owned(k, new.last)
           /\ new.complete = section.complete /\ new.quota = section.quota
           /\ section.complete => new.last = None
           /\ ~section.complete => new.last = IF discard THEN None ELSE complete[k][p]
  <1> DEFINE old == cache[k]
             kept == IF old.report[p].last # None THEN old.report[p].last
                     ELSE IF old.report[p].complete THEN old.report[p].quota ELSE None
  <1>1. CASE old = None \/ section.complete \/ discard
    <2>1. carryLast(k, p, section, discard) = section
      BY <1>1 DEF carryLast
    <2>2. ~section.complete /\ ~discard => complete[k][p] = None
      BY <1>1 DEF NothingForgotten
    <2> QED
      BY <2>1, <2>2 DEF Owned
  <1>2. CASE ~(old = None \/ section.complete \/ discard)
    <2>1. old.report[p] \in Sections
      BY <1>2 DEF CacheOwn, Reports
    <2>2. Owned(k, old.report[p].quota) /\ Owned(k, old.report[p].last)
      BY <1>2 DEF CacheOwn
    <2>3. IF old.report[p].complete
          THEN old.report[p].quota = complete[k][p] /\ old.report[p].last = None
          ELSE old.report[p].last = complete[k][p]
      BY <1>2 DEF LatestComplete, Stored
    <2>4. kept \in Observations /\ Owned(k, kept) /\ kept = complete[k][p]
      BY <2>1, <2>2, <2>3 DEF Sections, Observations, Owned
    <2>5. carryLast(k, p, section, discard) = [section EXCEPT !.last = kept]
      BY <1>2 DEF carryLast
    <2> HIDE DEF kept, old
    <2>6. [section EXCEPT !.last = kept] \in Sections
          /\ [section EXCEPT !.last = kept].quota = section.quota
          /\ [section EXCEPT !.last = kept].complete = section.complete
          /\ [section EXCEPT !.last = kept].last = kept
      BY <2>4 DEF Sections
    <2>7. ~section.complete /\ ~discard
      BY <1>2
    <2> QED
      BY <2>4, <2>5, <2>6, <2>7
  <1> QED
    BY <1>1, <1>2

\* Storing a report that belongs to its scope keeps what the cache promises.
LEMMA StoreKeeps ==
    ASSUME CacheOwn, NothingForgotten, LatestComplete,
           NEW k \in Credentials, NEW kept \in BOOLEAN, NEW report,
           \A p \in Providers :
              report[p] \in Sections /\ report[p].last = None /\ Owned(k, report[p].quota),
           Store(k, report, kept)
    PROVE  CacheOwn' /\ NothingForgotten' /\ LatestComplete'
  <1> DEFINE discard(p) == p = "codex" /\ ~kept
             new(p) == carryLast(k, p, report[p], discard(p))
             entry == [report |-> [p \in Providers |-> new(p)], age |-> 0]
             latest(p) == IF report[p].complete THEN report[p].quota
                          ELSE IF discard(p) THEN None ELSE complete[k][p]
  <1>0. PICK evicted \in Evicted :
           /\ cache' = [l \in Credentials |-> IF l = k THEN entry
                                             ELSE IF l \in evicted THEN None ELSE cache[l]]
           /\ complete' = [l \in Credentials |-> [p \in Providers |->
                 IF l = k /\ report[p].complete THEN report[p].quota
                 ELSE IF l = k /\ discard(p) THEN None
                 ELSE IF l \in evicted \ {k} THEN None
                 ELSE complete[l][p]]]
    BY Zenon DEF Store
  <1>1. /\ cache' = [l \in Credentials |-> IF l = k THEN entry
                                          ELSE IF l \in evicted THEN None ELSE cache[l]]
        /\ \A p \in Providers : complete'[k][p] = latest(p)
        /\ \A l \in Credentials \ {k}, p \in Providers :
              complete'[l][p] = IF l \in evicted THEN None ELSE complete[l][p]
    <2> HIDE DEF entry, discard
    <2> QED
      BY <1>0
  <1>2. ASSUME NEW p \in Providers
        PROVE  /\ new(p) \in Sections /\ Owned(k, new(p).quota) /\ Owned(k, new(p).last)
               /\ new(p).complete => new(p).quota = latest(p) /\ new(p).last = None
               /\ ~new(p).complete => new(p).last = latest(p)
    <2>1. discard(p) \in BOOLEAN
      OBVIOUS
    <2> HIDE DEF discard
    <2> QED
      BY <2>1, CarriedSection
  <1> HIDE DEF new, latest
  <1>3. entry \in Reports
    BY <1>2 DEF Reports
  <1>4. \A p \in Providers : entry.report[p] = new(p)
    OBVIOUS
  <1> HIDE DEF entry
  <1>5. CacheOwn'
    BY <1>1, <1>2, <1>3, <1>4 DEF CacheOwn
  <1>6. NothingForgotten'
    BY <1>1, <1>3, NoneAssumption DEF NothingForgotten
  <1>7. LatestComplete'
    BY <1>1, <1>2, <1>4 DEF LatestComplete, Stored
  <1> QED
    BY <1>5, <1>6, <1>7

\* Whatever a step does, the cache keeps its promises.
LEMMA CacheNext ==
    ASSUME ReportInv, [Next]_vars
    PROVE  CacheOwn' /\ NothingForgotten' /\ LatestComplete'
  <1> USE DEF ReportInv
  <1>1. ASSUME NEW k \in Credentials, Gather(k)
        PROVE  CacheOwn' /\ NothingForgotten' /\ LatestComplete'
    <2> DEFINE col == collection[k]
               kept == col.creds.account \in {None, account}
    <2>1. /\ col \in Collections /\ col.creds = k /\ col.quota.pc = "done"
          /\ col.quota.obs # None => col.quota.obs.who = k.token
      BY <1>1 DEF Gather, At, CollectionsOwn, CollectionOwn
    <2>2. col.quota.obs \in Observations /\ Owned(k, col.quota.obs)
      BY <2>1 DEF Collections, Quotas, Owned
    <2>3. PICK codexErr \in BOOLEAN, otherErr \in BOOLEAN :
             LET codex == IF codexErr \/ col.creds.account = None THEN None
                          ELSE Observed(col.creds.account, col.n)
             IN Store(k, [anthropic |-> buildProvider(col.quota.obs, otherErr),
                          codex |-> IF kept THEN buildProvider(codex, otherErr)
                                    ELSE markCodexUnavailable],
                      kept)
      BY <1>1 DEF Gather
    <2> DEFINE codex == IF codexErr \/ col.creds.account = None THEN None
                        ELSE Observed(col.creds.account, col.n)
               report == [anthropic |-> buildProvider(col.quota.obs, otherErr),
                          codex |-> IF kept THEN buildProvider(codex, otherErr)
                                    ELSE markCodexUnavailable]
    <2>4. codex \in Observations /\ Owned(k, codex)
      BY <2>1 DEF Observed, Observations, Owned, Collections, Credentials
    <2> HIDE DEF codex
    <2>5. ASSUME NEW o \in Observations, Owned(k, o)
          PROVE  /\ buildProvider(o, otherErr) \in Sections
                 /\ buildProvider(o, otherErr).last = None
                 /\ Owned(k, buildProvider(o, otherErr).quota)
      BY <2>5 DEF buildProvider, Sections, Observations
    <2>6. markCodexUnavailable \in Sections /\ markCodexUnavailable.last = None
          /\ Owned(k, markCodexUnavailable.quota)
      BY DEF markCodexUnavailable, Sections, Observations, Owned
    <2>7. ASSUME NEW p \in Providers
          PROVE  report[p] \in Sections /\ report[p].last = None /\ Owned(k, report[p].quota)
      <3>1. CASE p = "anthropic"
        <4>1. report[p] = buildProvider(col.quota.obs, otherErr)
          BY <3>1
        <4> QED
          BY <2>2, <2>5, <4>1
      <3>2. CASE p = "codex"
        <4>1. report[p] = IF kept THEN buildProvider(codex, otherErr) ELSE markCodexUnavailable
          BY <3>2
        <4> HIDE DEF report
        <4> QED
          BY <2>4, <2>5, <2>6, <4>1
      <3> QED
        BY <3>1, <3>2 DEF Providers
    <2>8. Store(k, report, kept)
      BY <2>3 DEF codex
    <2>9. kept \in BOOLEAN
      OBVIOUS
    <2> HIDE DEF report, kept
    <2> QED
      BY <2>7, <2>8, <2>9, StoreKeeps
  <1>2. CASE Tick
    <2> DEFINE c(k) == IF cache[k] = None \/ cache[k].age = TTL THEN cache[k]
                       ELSE [cache[k] EXCEPT !.age = @ + 1]
    <2>1. cache' = [k \in Credentials |-> c(k)] /\ complete' = complete
      BY <1>2 DEF Tick
    <2>2. ASSUME NEW k \in Credentials
          PROVE  /\ cache[k] = None => c(k) = None
                 /\ cache[k] # None => c(k) \in Reports /\ c(k).report = cache[k].report
      <3>1. CASE cache[k] # None
        <4>1. PICK r \in Reports : r = cache[k]
          BY <3>1 DEF CacheOwn
        <4>2. r.age + 1 \in Nat
          BY DEF Reports
        <4>3. [r EXCEPT !.age = r.age + 1] \in Reports
              /\ [r EXCEPT !.age = r.age + 1].report = r.report
          BY <4>2 DEF Reports
        <4>4. c(k) = r \/ c(k) = [r EXCEPT !.age = r.age + 1]
          BY <4>1
        <4> QED
          BY <3>1, <4>1, <4>3, <4>4
      <3> QED
        BY <3>1
    <2> HIDE DEF c
    <2> QED
      BY <2>1, <2>2, NoneAssumption DEF CacheOwn, NothingForgotten, LatestComplete, Stored
  <1>3. CASE UNCHANGED <<cache, complete>>
    BY <1>3 DEF CacheOwn, NothingForgotten, LatestComplete, Stored
  <1>4. (\E k \in Credentials : Gather(k)) \/ Tick \/ UNCHANGED <<cache, complete>>
    BY DEF Next, Progress, Ask, TakeSlot, NoSlot, ReadQuota, QuotaAnswered, QuotaFails, Finish,
       QuotaRefused, StopsWaiting, Login, vars
  <1> QED
    BY <1>1, <1>2, <1>3, <1>4

-----------------------------------------------------------------------------
(* The theorems.                                                           *)

LEMMA ReportInit == Init => ReportInv
  <1> SUFFICES ASSUME Init PROVE ReportInv
    OBVIOUS
  <1>1. CollectionsOwn /\ EntriesOwn /\ CacheOwn /\ NothingForgotten
    BY DEF Init, CollectionsOwn, CollectionOwn, EntriesOwn, CacheOwn, NothingForgotten
  <1>2. EntriesCool
    BY DEF Init, EntriesCool
  <1>3. LeadersKnown /\ LatestComplete
    BY DEF Init, LeadersKnown, Reads, At, LatestComplete, Stored
  <1> QED
    BY <1>1, <1>2, <1>3 DEF ReportInv

\* The invariant the theorems follow from holds in every state.
LEMMA ReportInvariant == Spec => []ReportInv
  <1>1. ReportInv /\ [Next]_vars => ReportInv'
    BY CollectionsNext, EntriesNext, LeadersNext, CacheNext DEF ReportInv
  <1> QED
    BY ReportInit, <1>1, PTL DEF Spec

\* A report the cache holds shows only what belongs to the credentials it is kept
\* for, across shared collections, shared quota requests and changes of the login
\* (scopeKey, acquire, storeAttempt).
THEOREM ReportScopeIsolated == Spec => []ScopeIsolated
  <1>1. ReportInv => ScopeIsolated
    BY DEF ReportInv, CacheOwn, Owned, ScopeIsolated, scopeKey, Stored, Owners
  <1> QED
    BY <1>1, ReportInvariant, PTL

\* What a report shows as the last complete state of a provider is the latest
\* complete observation of its scope (storeAttempt, markCodexUnavailable).
THEOREM ReportLatestComplete == Spec => []LatestComplete
  <1>1. ReportInv => LatestComplete
    BY DEF ReportInv
  <1> QED
    BY <1>1, ReportInvariant, PTL

\* No request with a refused token leaves before its cooldown is over, whatever the
\* bounded table of entries had to take in meanwhile (acquire, makeRoomLocked).
THEOREM ReportCooldownHonoured == Spec => CooldownHonoured
  <1>1. ASSUME ReportInv, [Next]_vars, NEW k \in Credentials,
               ~Reads(k, "lead"), Reads(k, "lead")'
        PROVE  cooldown[collection[k].creds.token] = 0
    <2>1. ~Cooling(k.token) /\ collection[k].creds = k /\ k.token \in Tokens
      BY <1>1, LeadBegins DEF Begins, Credentials
    <2>2. CASE entries[k.token] = None
      BY <1>1, <2>1, <2>2 DEF ReportInv, EntriesCool
    <2>3. CASE entries[k.token] # None
      BY <1>1, <2>1, <2>3 DEF ReportInv, EntriesCool, EntriesOwn, Entries, Cooling
    <2> QED
      BY <2>2, <2>3
  <1>2. ReportInv /\ [Next]_vars =>
          [\A k \in Credentials :
             Reads(k, "lead")' /\ ~Reads(k, "lead") =>
                 cooldown[collection[k].creds.token] = 0]_vars
    BY <1>1
  <1> QED
    BY <1>2, ReportInvariant, PTL DEF Spec, CooldownHonoured
=============================================================================
