-------------------------- MODULE AnthropicCatalog --------------------------
(***************************************************************************)
(* Anthropic's model list as the picker reads it (anthropic/catalog.go):   *)
(* one slot that holds the last success or the last failure, with the      *)
(* credential it belongs to.  Nothing holds back a second fetch, so        *)
(* requests of one credential or of two store their outcomes in any order. *)
(***************************************************************************)
EXTENDS Naturals

CONSTANTS Pickers,      \* requests
          Logins,       \* credentials, numbers from 1
          GoodTTL,      \* lifetime of a success, in ticks
          BadTTL        \* lifetime of a failure, in ticks

ASSUME CatalogAssumption == {GoodTTL, BadTTL} \subseteq Nat \ {0} /\ Logins \subseteq Nat \ {0}

VARIABLES
  slot,     \* [key, good, bad, of, age]: owner, remaining times, who really asked and when
  picking   \* per request: [at, login, answer]

modelVars == <<slot, picking>>

NoCredential == 0
NoList == [of |-> 0, good |-> FALSE, age |-> 0]

ModelsInit ==
  /\ slot = [key |-> NoCredential, good |-> 0, bad |-> 0, of |-> 0, age |-> 0]
  /\ picking = [p \in Pickers |-> [at |-> "idle", login |-> NoCredential, answer |-> NoList]]

(* cached: the failure first, then the success, both of this credential.   *)
cachedModels(login) ==
  IF slot.key # login \/ (slot.bad = 0 /\ slot.good = 0) THEN {}
  ELSE {[of |-> slot.of, good |-> slot.bad = 0, age |-> slot.age]}

Told(p, login, answer) == picking' = [picking EXCEPT ![p] = [at |-> "told", login |-> login, answer |-> answer]]

(* Models: a caller without a credential is turned away. *)
Models(p) == \E login \in Logins \cup {NoCredential} :
  /\ picking[p].at \in {"idle", "told"}
  /\ \/ login = NoCredential /\ Told(p, login, NoList)
     \/ login # NoCredential /\ \E a \in cachedModels(login) : Told(p, login, a)
     \/ /\ login # NoCredential /\ cachedModels(login) = {}
        /\ picking' = [picking EXCEPT ![p] = [at |-> "fetching", login |-> login, answer |-> NoList]]
  /\ UNCHANGED slot

rememberSuccess(login) == [key |-> login, good |-> GoodTTL, bad |-> 0, of |-> login, age |-> 0]

(* The failure is noted without a change of the slot's owner. *)
rememberFailure_Anyone(login) == [slot EXCEPT !.good = 0, !.bad = BadTTL, !.of = login, !.age = 0]

(* A failure drops the success the slot held, fresh or not. *)
rememberFailure(login) == [key |-> login, good |-> 0, bad |-> BadTTL, of |-> login, age |-> 0]

(* The end of a fetch: a page, or an error, a redirect, another status, an *)
(* unreadable body.                                                        *)
Fetched(p) == \E good \in BOOLEAN : LET login == picking[p].login IN
  /\ picking[p].at = "fetching"
  /\ slot' = IF good THEN rememberSuccess(login) ELSE rememberFailure(login)
  /\ Told(p, login, [of |-> login, good |-> good, age |-> 0])

Less(n) == IF n > 0 THEN n - 1 ELSE 0

ModelsTick ==
  /\ slot' = [slot EXCEPT !.good = Less(@), !.bad = Less(@),
                          !.age = IF @ < GoodTTL + BadTTL THEN @ + 1 ELSE @]
  /\ UNCHANGED picking

ModelsNext == ModelsTick \/ \E p \in Pickers : Models(p) \/ Fetched(p)

---------------------------------------------------------------------------
(* PROPERTIES *)

(* "A read by a different caller misses and fetches with its own           *)
(* credential rather than being served someone else's answer": whoever is  *)
(* told something, a list or a failure, is told what a fetch with its own  *)
(* credential found, within that answer's lifetime, however the fetches    *)
(* of several callers overlap (catalog.go, cached and the two remember     *)
(* functions).                                                             *)
OwnModels == \A p \in Pickers : LET a == picking[p].answer IN
  (picking[p].at = "told" /\ picking[p].login # NoCredential) =>
    a.of = picking[p].login /\ a.age < (IF a.good THEN GoodTTL ELSE BadTTL)
=============================================================================
