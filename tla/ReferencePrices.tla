-------------------------- MODULE ReferencePrices --------------------------
(***************************************************************************)
(* The reference price catalog (referenceprice/modelsdev.go): one cached   *)
(* snapshot with a lifetime, an entity tag and, after a failure, a time    *)
(* before which no new attempt is made; one shared fetch that outlives the *)
(* readers waiting for it.  Times are ages and remaining times: Tick moves *)
(* all of them.                                                            *)
(***************************************************************************)
EXTENDS Naturals

CONSTANTS Readers,      \* collections that read prices
          TTL,          \* lifetime of a snapshot, in ticks
          Backoff       \* wait after a failed fetch, in ticks

ASSUME PriceAssumption == {TTL, Backoff} \subseteq Nat \ {0}

VARIABLES
  cache,     \* [models, fresh, retry, etag, age]: remaining times, and the snapshot's true age
  flight,    \* the shared fetch: "none", "begun", "sent"; and the etag it sent
  reader,    \* per reader: "idle", "missed", "waiting", "answered"
  answer,    \* per reader: what Read returned, with the age it really had
  upstream,  \* the catalog published now, a number
  sinceFail  \* ticks since the last fetch failed, capped

priceVars == <<cache, flight, reader, answer, upstream, sinceFail>>

Empty == [models |-> 0, fresh |-> 0, retry |-> 0, etag |-> 0, age |-> 0]
NoAnswer == [models |-> 0, stale |-> FALSE, err |-> FALSE, age |-> 0]
Oldest == TTL + 1

PricesInit ==
  /\ cache = Empty
  /\ flight = [at |-> "none", etag |-> 0]
  /\ reader = [r \in Readers |-> "idle"]
  /\ answer = [r \in Readers |-> NoAnswer]
  /\ upstream = 1
  /\ sinceFail = Backoff

(* What a reader is handed: a copy of the cache, marked or not. *)
Copy(c, stale, err) == [models |-> c.models, stale |-> stale, err |-> err, age |-> c.age]
JustError == [NoAnswer EXCEPT !.err = TRUE]

(* Client.cached: the answer that needs no fetch, if there is one. *)
cached(c) ==
  IF c.models # 0 /\ c.fresh > 0 THEN {Copy(c, FALSE, FALSE)}
  ELSE IF c.retry = 0 THEN {}
  ELSE IF c.models = 0 THEN {JustError}
  ELSE {Copy(c, TRUE, TRUE)}

Reply(r, a) ==
  /\ reader' = [reader EXCEPT ![r] = "answered"]
  /\ answer' = [answer EXCEPT ![r] = a]

(* Read: the cache answers, or the reader is on its way to the flight. *)
Read(r) ==
  /\ reader[r] = "idle"
  /\ \/ \E a \in cached(cache) : Reply(r, a)
     \/ /\ cached(cache) = {}
        /\ reader' = [reader EXCEPT ![r] = "missed"]
        /\ UNCHANGED answer
  /\ UNCHANGED <<cache, flight, upstream, sinceFail>>

(* group.DoChan: join the flight, or begin one. *)
DoChan(r) ==
  /\ reader[r] = "missed"
  /\ reader' = [reader EXCEPT ![r] = "waiting"]
  /\ flight' = IF flight.at = "none" THEN [at |-> "begun", etag |-> 0] ELSE flight
  /\ UNCHANGED <<cache, answer, upstream, sinceFail>>

Land(a) ==
  /\ flight' = [at |-> "none", etag |-> 0]
  /\ reader' = [r \in Readers |-> IF reader[r] = "waiting" THEN "answered" ELSE reader[r]]
  /\ answer' = [r \in Readers |-> IF reader[r] = "waiting" THEN a ELSE answer[r]]

(* The flight fetches without a second look. *)
secondLook_None(c) == {}

(* The flight looks at the cache again before it fetches. *)
secondLook(c) == cached(c)

BeginFlight ==
  /\ flight.at = "begun"
  /\ \/ \E a \in secondLook(cache) : Land(a)
     \/ /\ secondLook(cache) = {}
        /\ flight' = [at |-> "sent", etag |-> cache.etag]
        /\ UNCHANGED <<reader, answer>>
  /\ UNCHANGED <<cache, upstream, sinceFail>>

(* refresh: a full answer, with or without a usable tag. *)
RefreshFull == \E tagged \in BOOLEAN :
  /\ flight.at = "sent"
  /\ cache' = [models |-> upstream, fresh |-> TTL, retry |-> 0,
               etag |-> IF tagged THEN upstream ELSE 0, age |-> 0]
  /\ Land(Copy(cache', FALSE, FALSE))
  /\ UNCHANGED <<upstream, sinceFail>>

failedLocked(c) == [c EXCEPT !.retry = Backoff]

Failed(c) ==
  /\ cache' = failedLocked(c)
  /\ sinceFail' = 0
  /\ Land(IF c.models = 0 THEN JustError ELSE Copy(c, TRUE, TRUE))

(* notModified: the publisher answers 304 only to the tag of the catalog   *)
(* it publishes.                                                           *)
RefreshNotModified ==
  /\ flight.at = "sent" /\ flight.etag # 0 /\ flight.etag = upstream
  /\ cache' = [cache EXCEPT !.fresh = TTL, !.retry = 0, !.age = 0]
  /\ Land(Copy(cache', FALSE, FALSE))
  /\ UNCHANGED <<upstream, sinceFail>>

(* Any error, any other status, too long a body, or a body without prices  *)
(* for each provider (parseModelsDev).                                     *)
RefreshFails ==
  /\ flight.at = "sent"
  /\ Failed(cache)
  /\ UNCHANGED <<upstream>>

(* The collection that reads gives up; the flight goes on. *)
ReaderLeaves(r) ==
  /\ reader[r] = "waiting"
  /\ Reply(r, JustError)
  /\ UNCHANGED <<cache, flight, upstream, sinceFail>>

(* The report is sent and a later collection reads again. *)
ReadAgain(r) ==
  /\ reader[r] = "answered"
  /\ reader' = [reader EXCEPT ![r] = "idle"]
  /\ answer' = [answer EXCEPT ![r] = NoAnswer]
  /\ UNCHANGED <<cache, flight, upstream, sinceFail>>

Publish ==
  /\ upstream < 2 /\ upstream' = upstream + 1
  /\ UNCHANGED <<cache, flight, reader, answer, sinceFail>>

Down(n) == IF n > 0 THEN n - 1 ELSE 0
Up1(n, cap) == IF n < cap THEN n + 1 ELSE cap

PriceTick ==
  /\ cache' = [cache EXCEPT !.fresh = Down(@), !.retry = Down(@), !.age = Up1(@, Oldest)]
  /\ sinceFail' = Up1(sinceFail, Backoff)
  /\ UNCHANGED <<flight, reader, answer, upstream>>

PricesNext ==
  \/ BeginFlight \/ RefreshFull \/ RefreshNotModified \/ RefreshFails \/ Publish \/ PriceTick
  \/ \E r \in Readers : Read(r) \/ DoChan(r) \/ ReaderLeaves(r) \/ ReadAgain(r)

(* The goroutines run, and the client's timeout ends every fetch. *)
PricesFairness ==
  /\ WF_priceVars(BeginFlight)
  /\ WF_priceVars(RefreshFull \/ RefreshNotModified \/ RefreshFails)
  /\ \A r \in Readers : WF_priceVars(Read(r)) /\ WF_priceVars(DoChan(r))

---------------------------------------------------------------------------
(* PROPERTIES *)

(* Prices given without an error and unmarked were the published ones less *)
(* than one lifetime before they were given; older ones are marked stale   *)
(* and come with the error that kept them.  And no fetch is sent within    *)
(* the wait a failed one started, not even by a reader that looked at the  *)
(* cache before the failure was recorded and reached the flight after it   *)
(* (cached, failedLocked, and the second look inside DoChan).              *)
PricesSound ==
  [][/\ flight.at = "begun" /\ flight'.at = "sent" => sinceFail >= Backoff
     /\ \A r \in Readers : LET a == answer'[r] IN
          reader'[r] = "answered" =>
            /\ (a.models # 0 /\ ~a.stale) => a.age < TTL /\ ~a.err
            /\ a.stale => a.err /\ a.models # 0]_priceVars
===========================================================================
