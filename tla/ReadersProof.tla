---------------------------- MODULE ReadersProof ----------------------------
(***************************************************************************)
(* Proofs about the readers beside the report and the picker, each for any *)
(* value of its constants: the caches of Anthropic's model list            *)
(* (AnthropicCatalog) and of the reference prices (ReferencePrices), the   *)
(* Codex app-server (AppServer), the local usage history (ToolHistory) and *)
(* the SSE codec (Frames).                                                 *)
(*                                                                         *)
(* None of the properties is inductive.  The caches need that a remaining  *)
(* lifetime and an age always add up to the lifetime, so that an expired   *)
(* entry is never young and a live one never old; PricesSound besides that *)
(* the time since the last failure and the wait still to come cover the    *)
(* whole wait, and that no failure is recorded while a fetch is out but    *)
(* its own.  OwnAnswers needs that the answers taken so far are those of   *)
(* the calls made so far; SectionsTrue that output is cut only where the   *)
(* budget is known to be exceeded, and that a run keeps the release it was *)
(* given.  That nothing is left running needs that a process lives only    *)
(* while somebody is still to wait for it.  FramesFaithful needs to know,  *)
(* while a frame is read, what of it is due: the lines of the rest of its  *)
(* payload, its blank line and the next frame, with a comment perhaps, and *)
(* that the wire to come begins them; and that the lines gathered and read *)
(* are no more than the data fields that are gone from the wire.           *)
(* HistoryAccounts is a matter of sums (Sigma), rearranged by key: of a    *)
(* document's breakdowns, of its rows, of the rows of a section.  What the *)
(* loops compute for every payload is proved by induction on the bytes     *)
(* (SeqSetInduction), over the set of those for which it holds.            *)
(***************************************************************************)
EXTENDS AnthropicCatalog, ReferencePrices, Subprocesses, Frames, SequenceTheorems,
        WellFoundedInduction, FiniteSetTheorems, TLAPS

-----------------------------------------------------------------------------
(* Anthropic's model list.                                                 *)

Slots == [key : Logins \cup {NoCredential}, good : Nat, bad : Nat,
          of : Logins \cup {NoCredential}, age : Nat]
Answers == [of : Logins \cup {NoCredential}, good : BOOLEAN, age : Nat]
Pickings == [at : {"idle", "fetching", "told"}, login : Logins \cup {NoCredential},
             answer : Answers]

\* What the slot holds is its owner's, and as old as its lifetime has run off.
SlotOwn ==
    /\ slot \in Slots
    /\ slot.key # NoCredential => slot.of = slot.key
    /\ slot.bad > 0 => slot.good = 0 /\ slot.age + slot.bad = BadTTL
    /\ slot.good > 0 => slot.age + slot.good = GoodTTL

ModelsInv == SlotOwn /\ picking \in [Pickers -> Pickings] /\ OwnModels

\* The model list starts empty and nobody has been told anything.
LEMMA ModelsStart == ModelsInit => ModelsInv
  <1> SUFFICES ASSUME ModelsInit PROVE ModelsInv
    OBVIOUS
  <1>1. SlotOwn
    BY DEF ModelsInit, SlotOwn, Slots, NoCredential
  <1>2. picking \in [Pickers -> Pickings] /\ OwnModels
    BY DEF ModelsInit, Pickings, Answers, NoList, NoCredential, OwnModels
  <1> QED
    BY <1>1, <1>2 DEF ModelsInv

\* A caller is told the truth, and the others' answers stay what they are.
LEMMA ToldOwn ==
    ASSUME ModelsInv, NEW p \in Pickers, NEW login \in Logins \cup {NoCredential},
           NEW told \in Answers, Told(p, login, told),
           login # NoCredential =>
              told.of = login /\ told.age < (IF told.good THEN GoodTTL ELSE BadTTL)
    PROVE  picking' \in [Pickers -> Pickings] /\ OwnModels'
  <1> DEFINE new == [at |-> "told", login |-> login, answer |-> told]
  <1>1. picking' = [picking EXCEPT ![p] = new]
    BY DEF Told
  <1>2. new \in Pickings /\ new.login = login /\ new.answer = told
    BY DEF Pickings
  <1> HIDE DEF new
  <1> QED
    BY <1>1, <1>2 DEF ModelsInv, OwnModels

\* Whatever a step of the model list does, the invariant is kept.
LEMMA ModelsStep == ASSUME ModelsInv, [ModelsNext]_modelVars PROVE ModelsInv'
  <1>1. GoodTTL \in Nat \ {0} /\ BadTTL \in Nat \ {0} /\ Logins \subseteq Nat \ {0}
    BY CatalogAssumption
  <1>2. CASE ModelsTick
    <2>1. PICK s \in Slots : s = slot
      BY DEF ModelsInv, SlotOwn
    <2>2. \A n \in Nat : Less(n) \in Nat /\ (n > 0 => Less(n) = n - 1) /\ (n = 0 => Less(n) = 0)
      BY DEF Less
    <2> DEFINE age == IF s.age < GoodTTL + BadTTL THEN s.age + 1 ELSE s.age
    <2>3. /\ slot' = [s EXCEPT !.good = Less(s.good), !.bad = Less(s.bad), !.age = age]
          /\ age \in Nat
      BY <1>1, <1>2, <2>1 DEF ModelsTick, Slots
    <2> USE <1>1
    <2>4. /\ slot' \in Slots /\ slot'.key = s.key /\ slot'.of = s.of /\ slot'.age = age
          /\ slot'.good = Less(s.good) /\ slot'.bad = Less(s.bad)
      BY <2>2, <2>3 DEF Slots
    <2>5. SlotOwn'
      BY <1>1, <2>1, <2>2, <2>3, <2>4 DEF ModelsInv, SlotOwn, Slots
    <2> QED
      BY <1>2, <2>5 DEF ModelsTick, ModelsInv, OwnModels
  <1>3. ASSUME NEW p \in Pickers, Models(p) PROVE ModelsInv'
    <2>1. PICK login \in Logins \cup {NoCredential} :
            /\ \/ login = NoCredential /\ Told(p, login, NoList)
               \/ login # NoCredential /\ \E a \in cachedModels(login) : Told(p, login, a)
               \/ picking' = [picking EXCEPT ![p] =
                                [at |-> "fetching", login |-> login, answer |-> NoList]]
            /\ UNCHANGED slot
      BY <1>3 DEF Models
    <2>2. NoList \in Answers
      BY DEF NoList, NoCredential, Answers
    <2>3. SlotOwn'
      BY <2>1 DEF ModelsInv, SlotOwn
    <2>4. ASSUME NEW a \in cachedModels(login), login # NoCredential
          PROVE  a \in Answers /\ a.of = login /\ a.age < (IF a.good THEN GoodTTL ELSE BadTTL)
      <3>1. /\ slot.key = login /\ ~(slot.bad = 0 /\ slot.good = 0)
            /\ a = [of |-> slot.of, good |-> slot.bad = 0, age |-> slot.age]
        BY <2>4 DEF cachedModels
      <3>2. slot.bad \in Nat /\ slot.good \in Nat /\ slot.age \in Nat /\ slot.of = login
        BY <2>4, <3>1 DEF ModelsInv, SlotOwn, Slots
      <3>3. CASE slot.bad = 0
        <4>1. (slot.bad = 0) = TRUE
          BY <3>3
        <4>2. a = [of |-> login, good |-> TRUE, age |-> slot.age]
          BY <3>1, <3>2, <4>1, Zenon
        <4>3. slot.age < GoodTTL
          BY <1>1, <3>1, <3>2, <3>3 DEF ModelsInv, SlotOwn
        <4> QED
          BY <3>2, <4>2, <4>3 DEF Answers
      <3>4. CASE slot.bad # 0
        <4>1. (slot.bad = 0) = FALSE
          BY <3>4
        <4>2. a = [of |-> login, good |-> FALSE, age |-> slot.age]
          BY <3>1, <3>2, <4>1, Zenon
        <4>3. slot.age < BadTTL
          BY <1>1, <3>1, <3>2, <3>4 DEF ModelsInv, SlotOwn
        <4> QED
          BY <3>2, <4>2, <4>3 DEF Answers
      <3> QED
        BY <3>3, <3>4
    <2>5. CASE picking' = [picking EXCEPT ![p] =
                             [at |-> "fetching", login |-> login, answer |-> NoList]]
      BY <2>2, <2>3, <2>5 DEF ModelsInv, OwnModels, Pickings
    <2>6. CASE login = NoCredential /\ Told(p, login, NoList)
      BY <2>2, <2>3, <2>6, ToldOwn DEF ModelsInv
    <2>7. CASE login # NoCredential /\ \E a \in cachedModels(login) : Told(p, login, a)
      BY <2>3, <2>4, <2>7, ToldOwn DEF ModelsInv
    <2> QED
      BY <2>1, <2>5, <2>6, <2>7
  <1>4. ASSUME NEW p \in Pickers, Fetched(p) PROVE ModelsInv'
    <2> DEFINE login == picking[p].login
    <2>1. PICK good \in BOOLEAN :
            /\ slot' = IF good THEN rememberSuccess(login) ELSE rememberFailure(login)
            /\ Told(p, login, [of |-> login, good |-> good, age |-> 0])
      BY <1>4 DEF Fetched
    <2>2. login \in Logins \cup {NoCredential}
      BY DEF ModelsInv, Pickings
    <2> HIDE DEF login
    <2>3. SlotOwn'
      BY <1>1, <2>1, <2>2 DEF SlotOwn, Slots, rememberSuccess, rememberFailure
    <2>4. [of |-> login, good |-> good, age |-> 0] \in Answers
      BY <2>2 DEF Answers
    <2> QED
      BY <1>1, <2>1, <2>2, <2>3, <2>4, ToldOwn DEF ModelsInv
  <1>5. CASE UNCHANGED modelVars
    BY <1>5 DEF modelVars, ModelsInv, SlotOwn, OwnModels
  <1> QED
    BY <1>2, <1>3, <1>4, <1>5 DEF ModelsNext

\* Whatever requests of whatever credentials overlap, none is told what a fetch
\* with another's credential found, nor anything past its lifetime (catalog.go,
\* cached, rememberSuccess, rememberFailure).
THEOREM ModelsOwnModels == ModelsInit /\ [][ModelsNext]_modelVars => []OwnModels
  <1>1. ModelsInv => OwnModels
    BY DEF ModelsInv
  <1> QED
    BY <1>1, ModelsStart, ModelsStep, PTL

-----------------------------------------------------------------------------
(* The reference prices.                                                   *)

Caches == [models : Nat, fresh : Nat, retry : Nat, etag : Nat, age : Nat]

\* An answer as PricesSound wants it.
Sound(a) ==
    /\ (a.models # 0 /\ ~a.stale) => a.age < TTL /\ ~a.err
    /\ a.stale => a.err /\ a.models # 0

AnswersSound ==
    answer = [r \in Readers |-> answer[r]] /\ \A r \in Readers : Sound(answer[r])

PricesInv ==
    /\ cache \in Caches /\ upstream \in Nat \ {0} /\ sinceFail \in Nat
    /\ cache.fresh > 0 => cache.age + cache.fresh = TTL /\ cache.models # 0
    /\ cache.etag # 0 => cache.models # 0
    /\ sinceFail + cache.retry >= Backoff
    /\ flight.at = "sent" => sinceFail >= Backoff
    /\ flight.at = "sent" /\ flight.etag # 0 => cache.models # 0
    /\ AnswersSound

\* The cache starts empty, and no failure is remembered.
LEMMA PricesStart == PricesInit => PricesInv
  BY PriceAssumption DEF PricesInit, PricesInv, AnswersSound, Caches, Empty, NoAnswer, Sound

\* A copy says what it is given.
LEMMA CopySound ==
    ASSUME NEW c \in Caches
    PROVE  /\ c.models # 0 /\ c.age < TTL => Sound(Copy(c, FALSE, FALSE))
           /\ c.models # 0 => Sound(Copy(c, TRUE, TRUE))
           /\ Sound(JustError)
  <1>1. \A stale, err : /\ Copy(c, stale, err).models = c.models
                        /\ Copy(c, stale, err).stale = stale
                        /\ Copy(c, stale, err).err = err
                        /\ Copy(c, stale, err).age = c.age
    BY Zenon DEF Copy
  <1>2. Copy(c, FALSE, FALSE).stale = FALSE /\ Copy(c, FALSE, FALSE).err = FALSE
        /\ Copy(c, TRUE, TRUE).stale = TRUE /\ Copy(c, TRUE, TRUE).err = TRUE
    BY <1>1, Zenon
  <1>3. c.models # 0 /\ c.age < TTL => Sound(Copy(c, FALSE, FALSE))
    BY <1>1, <1>2, Zenon DEF Sound
  <1>4. c.models # 0 => Sound(Copy(c, TRUE, TRUE))
    BY <1>1, <1>2, Zenon DEF Sound
  <1>5. JustError.models = 0 /\ JustError.stale = FALSE
    BY DEF JustError, NoAnswer
  <1>6. Sound(JustError)
    BY <1>5 DEF Sound
  <1> QED
    BY <1>3, <1>4, <1>6

\* What the cache answers without a fetch is sound, and it leaves nothing to wait
\* for only when the wait is over.
LEMMA CachedSound ==
    ASSUME PricesInv
    PROVE  /\ \A a \in cached(cache) : Sound(a)
           /\ cached(cache) = {} => cache.retry = 0
  <1>1. PICK c \in Caches : c = cache
    BY DEF PricesInv
  <1>2. CASE c.models # 0 /\ c.fresh > 0
    <2>1. cached(cache) = {Copy(c, FALSE, FALSE)} /\ c.age < TTL
      BY <1>1, <1>2, PriceAssumption DEF cached, PricesInv, Caches
    <2> QED
      BY <1>2, <2>1, CopySound
  <1>3. CASE c.retry > 0 /\ c.models = 0
    <2>1. cached(cache) = {JustError}
      BY <1>1, <1>3 DEF cached
    <2> QED
      BY <2>1, CopySound
  <1>4. CASE c.retry > 0 /\ c.models # 0 /\ c.fresh = 0
    <2>1. cached(c) = {Copy(c, TRUE, TRUE)}
      <3>1. ~(c.models # 0 /\ c.fresh > 0) /\ c.retry # 0
        BY <1>4
      <3> QED
        BY <1>4, <3>1, Zenon DEF cached
    <2> QED
      BY <1>1, <1>4, <2>1, CopySound
  <1>5. CASE c.retry = 0 /\ ~(c.models # 0 /\ c.fresh > 0)
    <2>1. cached(cache) = {}
      BY <1>1, <1>5 DEF cached
    <2> QED
      BY <1>1, <1>5, <2>1
  <1> QED
    BY <1>2, <1>3, <1>4, <1>5 DEF Caches

\* Sound answers, to one reader or to all who wait, leave every answer sound.
LEMMA ReplySound ==
    ASSUME AnswersSound, NEW a, Sound(a), Land(a) \/ \E r \in Readers : Reply(r, a)
    PROVE  AnswersSound'
  BY DEF AnswersSound, Land, Reply

\* Whatever a step does to the prices, the invariant is kept.
LEMMA PricesStep == ASSUME PricesInv, [PricesNext]_priceVars PROVE PricesInv'
  <1>1. TTL \in Nat \ {0} /\ Backoff \in Nat \ {0}
    BY PriceAssumption
  <1>2. PICK c \in Caches : c = cache
    BY DEF PricesInv
  <1>3. ASSUME NEW r \in Readers, Read(r) PROVE PricesInv'
    <2>1. AnswersSound'
      <3>1. CASE UNCHANGED answer
        BY <3>1 DEF PricesInv, AnswersSound
      <3>2. CASE \E a \in cached(cache) : Reply(r, a)
        BY <3>2, CachedSound, ReplySound DEF PricesInv
      <3> QED
        BY <1>3, <3>1, <3>2 DEF Read
    <2> QED
      BY <1>3, <2>1 DEF Read, PricesInv
  <1>4. ASSUME NEW r \in Readers, DoChan(r) PROVE PricesInv'
    BY <1>4 DEF DoChan, PricesInv, AnswersSound
  <1>5. CASE BeginFlight
    <2>1. ASSUME NEW a \in secondLook(cache), Land(a) PROVE PricesInv'
      <3>1. AnswersSound'
        BY <2>1, CachedSound, ReplySound DEF PricesInv, secondLook
      <3> QED
        BY <1>5, <2>1, <3>1 DEF BeginFlight, Land, PricesInv
    <2>2. CASE /\ secondLook(cache) = {}
               /\ flight' = [at |-> "sent", etag |-> cache.etag]
               /\ UNCHANGED <<reader, answer>>
      <3>1. cache.retry = 0
        BY <2>2, CachedSound DEF secondLook
      <3>2. sinceFail >= Backoff
        BY <1>1, <3>1 DEF PricesInv
      <3> QED
        BY <1>5, <2>2, <3>2 DEF BeginFlight, PricesInv, AnswersSound
    <2> QED
      BY <1>5, <2>1, <2>2 DEF BeginFlight
  <1>6. CASE RefreshFull
    <2>1. PICK e \in Nat : cache' = [models |-> upstream, fresh |-> TTL, retry |-> 0, etag |-> e, age |-> 0]
      BY <1>6 DEF RefreshFull, PricesInv
    <2>2. cache' \in Caches /\ cache'.models # 0 /\ cache'.fresh = TTL /\ cache'.age = 0 /\ cache'.retry = 0
      BY <1>1, <2>1 DEF Caches, PricesInv
    <2>3. PICK d \in Caches : d = cache'
      BY <2>2
    <2>4. Sound(Copy(d, FALSE, FALSE))
      <3>1. d.models # 0 /\ d.age < TTL
        BY <1>1, <2>2, <2>3
      <3> QED
        BY <3>1, CopySound, Zenon
    <2>5. Land(Copy(d, FALSE, FALSE)) /\ UNCHANGED <<upstream, sinceFail>> /\ flight.at = "sent"
      BY <1>6, <2>3 DEF RefreshFull
    <2>6. AnswersSound'
      BY <2>4, <2>5, ReplySound DEF PricesInv
    <2>7. flight'.at = "none"
      BY <2>5 DEF Land
    <2> QED
      BY <1>1, <2>2, <2>5, <2>6, <2>7 DEF PricesInv
  <1>7. CASE RefreshNotModified
    <2>1. cache' = [c EXCEPT !.fresh = TTL, !.retry = 0, !.age = 0]
      BY <1>7, <1>2 DEF RefreshNotModified
    <2>2. c.models # 0
      BY <1>7, <1>2 DEF RefreshNotModified, PricesInv
    <2>3. /\ cache' \in Caches /\ cache'.models # 0 /\ cache'.fresh = TTL /\ cache'.age = 0
          /\ cache'.retry = 0
      BY <1>1, <2>1, <2>2 DEF Caches
    <2>4. PICK d \in Caches : d = cache'
      BY <2>3
    <2>5. Sound(Copy(d, FALSE, FALSE))
      <3>1. d.models # 0 /\ d.age < TTL
        BY <1>1, <2>3, <2>4
      <3> QED
        BY <3>1, CopySound, Zenon
    <2>6. Land(Copy(d, FALSE, FALSE)) /\ UNCHANGED <<upstream, sinceFail>> /\ flight.at = "sent"
      BY <1>7, <2>4 DEF RefreshNotModified
    <2>7. AnswersSound'
      BY <2>5, <2>6, ReplySound DEF PricesInv
    <2>8. flight'.at = "none"
      BY <2>6 DEF Land
    <2> QED
      BY <1>1, <2>3, <2>6, <2>7, <2>8 DEF PricesInv
  <1>8. CASE RefreshFails
    <2>1. cache' = [c EXCEPT !.retry = Backoff] /\ sinceFail' = 0 /\ UNCHANGED upstream
      BY <1>8, <1>2 DEF RefreshFails, Failed, failedLocked
    <2>2. /\ cache' \in Caches /\ cache'.models = c.models /\ cache'.fresh = c.fresh
          /\ cache'.age = c.age /\ cache'.etag = c.etag /\ cache'.retry = Backoff
      BY <1>1, <2>1 DEF Caches
    <2>3. Land(IF c.models = 0 THEN JustError ELSE Copy(c, TRUE, TRUE))
      BY <1>8, <1>2 DEF RefreshFails, Failed
    <2>4. Sound(IF c.models = 0 THEN JustError ELSE Copy(c, TRUE, TRUE))
      <3>1. CASE c.models = 0
        BY <3>1, CopySound, Zenon
      <3>2. CASE c.models # 0
        BY <3>2, CopySound, Zenon
      <3> QED
        BY <3>1, <3>2
    <2>5. AnswersSound'
      BY <2>3, <2>4, ReplySound DEF PricesInv
    <2>6. flight'.at = "none"
      BY <2>3 DEF Land
    <2> QED
      BY <1>1, <1>2, <2>1, <2>2, <2>5, <2>6 DEF PricesInv
  <1>9. ASSUME NEW r \in Readers, ReaderLeaves(r) PROVE PricesInv'
    <2>1. AnswersSound'
      BY <1>9, <1>2, CopySound, ReplySound DEF ReaderLeaves, PricesInv
    <2> QED
      BY <1>9, <2>1 DEF ReaderLeaves, PricesInv
  <1>10. ASSUME NEW r \in Readers, ReadAgain(r) PROVE PricesInv'
    <2>1. Sound(NoAnswer)
      <3>1. NoAnswer.models = 0 /\ NoAnswer.stale = FALSE
        BY DEF NoAnswer
      <3> QED
        BY <3>1 DEF Sound
    <2>2. AnswersSound'
      BY <1>10, <2>1 DEF ReadAgain, PricesInv, AnswersSound
    <2> QED
      BY <1>10, <2>2 DEF ReadAgain, PricesInv
  <1>11. CASE Publish
    BY <1>11 DEF Publish, PricesInv, AnswersSound
  <1>12. CASE PriceTick
    <2>1. \A n \in Nat : Down(n) \in Nat /\ (n > 0 => Down(n) = n - 1) /\ (n = 0 => Down(n) = 0)
      BY DEF Down
    <2>2. \A n, cap \in Nat : Up1(n, cap) \in Nat /\ (n < cap => Up1(n, cap) = n + 1)
                               /\ (n >= cap => Up1(n, cap) = cap)
      BY DEF Up1
    <2>3. /\ cache' = [c EXCEPT !.fresh = Down(c.fresh), !.retry = Down(c.retry),
                                !.age = Up1(c.age, Oldest)]
          /\ sinceFail' = Up1(sinceFail, Backoff)
          /\ UNCHANGED <<flight, answer, upstream>>
      BY <1>12, <1>2 DEF PriceTick, Caches
    <2>4. Oldest \in Nat /\ Oldest = TTL + 1
      BY <1>1 DEF Oldest
    <2>5. /\ cache' \in Caches /\ cache'.models = c.models /\ cache'.fresh = Down(c.fresh)
          /\ cache'.retry = Down(c.retry) /\ cache'.age = Up1(c.age, Oldest) /\ cache'.etag = c.etag
      BY <2>1, <2>2, <2>3, <2>4 DEF Caches
    <2>6. cache'.fresh > 0 => cache'.age + cache'.fresh = TTL /\ cache'.models # 0
      <3> SUFFICES ASSUME cache'.fresh > 0
                   PROVE  cache'.age + cache'.fresh = TTL /\ cache'.models # 0
        OBVIOUS
      <3>1. c.fresh \in Nat /\ c.age \in Nat
        BY DEF Caches
      <3>2. c.fresh > 0 /\ cache'.fresh = c.fresh - 1
        BY <2>1, <2>5, <3>1
      <3>3. c.age + c.fresh = TTL /\ c.models # 0
        BY <1>2, <3>2 DEF PricesInv
      <3>4. cache'.age = c.age + 1
        <4>1. c.age < Oldest
          BY <1>1, <2>4, <3>1, <3>2, <3>3
        <4>2. Up1(c.age, Oldest) = c.age + 1
          BY <4>1 DEF Up1
        <4> QED
          BY <2>5, <4>2
      <3> QED
        BY <1>1, <2>5, <3>1, <3>2, <3>3, <3>4
    <2>7. sinceFail' \in Nat /\ sinceFail' + cache'.retry >= Backoff
      BY <1>1, <1>2, <2>1, <2>2, <2>3, <2>5 DEF PricesInv, Caches
    <2>8. flight'.at = "sent" => sinceFail' >= Backoff
      BY <1>1, <2>2, <2>3 DEF PricesInv
    <2>9. AnswersSound'
      BY <2>3 DEF PricesInv, AnswersSound
    <2> QED
      BY <1>2, <2>3, <2>5, <2>6, <2>7, <2>8, <2>9 DEF PricesInv
  <1>13. CASE UNCHANGED priceVars
    BY <1>13 DEF priceVars, PricesInv, AnswersSound
  <1> QED
    BY <1>3, <1>4, <1>5, <1>6, <1>7, <1>8, <1>9, <1>10, <1>11, <1>12, <1>13 DEF PricesNext

\* However many collections read at once, no price is given as fresh after its
\* lifetime, none as stale without its error, and no fetch is sent within the wait
\* that a failed one started (modelsdev.go, cached and refresh).
THEOREM PricesPricesSound == PricesInit /\ [][PricesNext]_priceVars => PricesSound
  <1>1. ASSUME PricesInv, [PricesNext]_priceVars, flight.at = "begun", flight'.at = "sent"
        PROVE  sinceFail >= Backoff
    <2>1. CASE BeginFlight
      <3>1. secondLook(cache) = {}
        BY <1>1, <2>1 DEF BeginFlight, Land
      <3>2. cache.retry = 0
        BY <1>1, <3>1, CachedSound DEF secondLook
      <3> QED
        BY <1>1, <3>2, PriceAssumption DEF PricesInv
    <2>2. CASE ~BeginFlight
      <3>1. \/ UNCHANGED flight
            \/ flight' = [at |-> "none", etag |-> 0] \/ flight' = [at |-> "begun", etag |-> 0]
        BY <1>1, <2>2 DEF PricesNext, RefreshFull, RefreshNotModified, RefreshFails, Failed, Land,
           Publish, PriceTick, Read, DoChan, ReaderLeaves, ReadAgain, priceVars
      <3> QED
        BY <1>1, <3>1
    <2> QED
      BY <2>1, <2>2
  <1>2. PricesInv' => \A r \in Readers :
           LET a == answer'[r] IN
           reader'[r] = "answered" =>
             /\ (a.models # 0 /\ ~a.stale) => a.age < TTL /\ ~a.err
             /\ a.stale => a.err /\ a.models # 0
    BY Zenon DEF PricesInv, AnswersSound, Sound
  <1>3. PricesInv /\ PricesInv' /\ [PricesNext]_priceVars =>
          [/\ flight.at = "begun" /\ flight'.at = "sent" => sinceFail >= Backoff
           /\ \A r \in Readers : LET a == answer'[r] IN
                reader'[r] = "answered" =>
                  /\ (a.models # 0 /\ ~a.stale) => a.age < TTL /\ ~a.err
                  /\ a.stale => a.err /\ a.models # 0]_priceVars
    BY <1>1, <1>2
  <1> QED
    BY <1>3, PricesStart, PricesStep, PTL DEF PricesSound

-----------------------------------------------------------------------------
(* The Codex app-server.                                                   *)

\* Every line a server prints, and what hands over the end of the scan.
Lines == Unasked \cup {Answer(id, body) : id \in Calls, body \in Bodies(4)}
Places == {"start", "write", "writing", "notify", "notifying", "await", "stop",
           "stopping", "returned"}
Results == {"none", "unavailable", "timeout", "protocol", "too_large", "credential",
            "observation"}
Reads == [at : Places, call : 0 .. 4, result : Results, used : SUBSET (Calls \X Lines)]

\* In the middle of a call.
Calling == {"write", "writing", "notify", "notifying", "await"}

\* Lines come from the server, whoever holds them.
LinesOwn ==
    /\ asked \in 0 .. 4
    /\ pipe \in Seq(Lines)
    /\ scanner.at = "offer" => scanner.line \in Lines

\* The answers taken so far are those of the calls made so far.
AnswersOwn ==
    /\ quota \in Reads
    /\ \A u \in quota.used : u[2].id = u[1] /\ u[2].body = "good"
    /\ quota.at = "start" => quota.call = 0 /\ quota.used = {} /\ quota.result = "none"
    /\ quota.at \in Calling => /\ quota.call \in Calls /\ quota.result = "none"
                               /\ {u[1] : u \in quota.used} = 1 .. quota.call - 1
    /\ quota.result = "observation" => {u[1] : u \in quota.used} = Calls

\* What was started is there to be taken down.
ServerKept ==
    /\ quota.at = "start" => server = "none" /\ copier = "none" /\ ~rootDir
    /\ quota.at \notin {"start", "returned"} => rootDir
    /\ waited => server = "gone"
    /\ ServerGone

ServerInv == LinesOwn /\ AnswersOwn /\ ServerKept

\* Nothing has been started and nothing been read.
LEMMA ServerStart == ServerInit => ServerInv
  <1> SUFFICES ASSUME ServerInit PROVE ServerInv
    OBVIOUS
  <1>1. LinesOwn
    BY DEF ServerInit, LinesOwn
  <1>2. AnswersOwn
    BY DEF ServerInit, AnswersOwn, Reads, Places, Results, Calling
  <1>3. ServerKept
    BY DEF ServerInit, ServerKept, ServerGone
  <1> QED
    BY <1>1, <1>2, <1>3 DEF ServerInv

\* The kinds of lines, and that an answer bears its body.
LEMMA LineShapes ==
    /\ TooLong \in Lines
    /\ \A id \in Calls : \A body \in Bodies(id) : Answer(id, body) \in Lines
    /\ Unasked \subseteq Lines
    /\ \A line \in Lines :
          /\ line.kind \in {"notification", "refresh", "request", "garbage", "long", "answer"}
          /\ line.kind = "answer" => line.body \in {"error", "malformed", "other_account", "good"}
  BY DEF Lines, Unasked, TooLong, Answer, Bodies, Calls

\* A step keeps lines the server's.
LEMMA LinesStep == ServerInv /\ ServerNext => LinesOwn'
  <1> SUFFICES ASSUME ServerInv, ServerNext PROVE LinesOwn'
    OBVIOUS
  <1> USE DEF ServerInv, LinesOwn
  <1>1. CASE ServerAnswers
    BY <1>1, LineShapes DEF ServerAnswers, Prints
  <1>2. CASE ServerSpeaks
    BY <1>2, LineShapes DEF ServerSpeaks, Prints
  <1>3. CASE Wait
    <2>1. PICK n \in 0 .. Len(pipe) : pipe' = SubSeq(pipe, 1, n)
      BY <1>3 DEF Wait
    <2>2. pipe' \in Seq(Lines)
      BY <2>1
    <2> QED
      BY <1>3, <2>2 DEF Wait
  <1>4. CASE Scan
    BY <1>4, LineShapes DEF Scan, ScannerKeeps
  <1>5. CASE ServerReads
    BY <1>5 DEF ServerReads, AnswersOwn, Reads
  <1>6. CASE TakeLine \/ ScannerGivesUp \/ ReadCredential
    BY <1>6 DEF TakeLine, ScannerGivesUp, ScannerKeeps, ReadCredential, Others
  <1>7. CASE \/ ServerExits \/ StderrOverflows \/ StderrEnds \/ Deadline \/ StartWrite
             \/ EndWrite \/ CallFails \/ Stop \/ Stopped
    BY <1>7 DEF ServerExits, StderrOverflows, StderrEnds, Deadline, StartWrite, EndWrite,
       CallFails, Stop, Stopped, Others
  <1> QED
    BY <1>1, <1>2, <1>3, <1>4, <1>5, <1>6, <1>7 DEF ServerNext

\* The first answer, or the next one, of its own call.
LEMMA OneMore ==
    ASSUME NEW used, NEW n \in Calls, NEW line,
           {u[1] : u \in used} = 1 .. n - 1
    PROVE  {u[1] : u \in used \cup {<<n, line>>}} = 1 .. n
  <1>1. 1 .. n = (1 .. n - 1) \cup {n}
    BY DEF Calls
  <1>2. <<n, line>>[1] = n
    OBVIOUS
  <1>3. \A new : {u[1] : u \in used \cup {new}} = {u[1] : u \in used} \cup {new[1]}
    OBVIOUS
  <1> QED
    BY <1>1, <1>2, <1>3

\* A step keeps the answers those of the calls.
LEMMA AnswersStep == ServerInv /\ ServerNext => AnswersOwn'
  <1> SUFFICES ASSUME ServerInv, ServerNext PROVE AnswersOwn'
    OBVIOUS
  <1>1. quota \in Reads /\ AnswersOwn
    BY DEF ServerInv, AnswersOwn
  <1>2. CASE TakeLine
    <2> DEFINE line == scanner.line
    <2>1. line \in Lines /\ quota.at = "await" /\ quota' = Received(line)
      BY <1>2 DEF TakeLine, ServerInv, LinesOwn
    <2> HIDE DEF line
    <2>2. /\ quota.call \in Calls /\ quota.result = "none"
          /\ {u[1] : u \in quota.used} = 1 .. quota.call - 1
      BY <1>1, <2>1 DEF AnswersOwn, Calling
    <2>3. \/ quota' = quota
          \/ \E r \in Results \ {"observation", "none"} :
                quota' = [quota EXCEPT !.at = "stop", !.result = r]
          \/ line.id = quota.call /\ line.body = "good" /\ quota' = NextCall(line)
      BY <2>1, LineShapes DEF Received, Accept, Results
    <2>4. CASE quota' = quota
      BY <1>1, <2>4 DEF AnswersOwn
    <2>5. CASE \E r \in Results \ {"observation", "none"} :
                  quota' = [quota EXCEPT !.at = "stop", !.result = r]
      BY <1>1, <2>5 DEF AnswersOwn, Reads, Places, Calling
    <2>6. CASE line.id = quota.call /\ line.body = "good" /\ quota' = NextCall(line)
      <3>1. {u[1] : u \in quota.used \cup {<<quota.call, line>>}} = 1 .. quota.call
        BY <2>2, OneMore
      <3>2. quota'.used = quota.used \cup {<<quota.call, line>>}
        BY <1>1, <2>6 DEF NextCall, Reads
      <3>3. <<quota.call, line>> \in Calls \X Lines
        BY <2>1, <2>2
      <3>4. /\ quota' \in Reads
            /\ quota'.at = IF quota.call = 4 THEN "stop"
                           ELSE IF quota.call = 1 THEN "notify" ELSE "write"
            /\ quota'.call = IF quota.call = 4 THEN 4 ELSE quota.call + 1
            /\ quota'.result = IF quota.call = 4 THEN "observation" ELSE "none"
        <4> DEFINE at == IF quota.call = 4 THEN "stop"
                         ELSE IF quota.call = 1 THEN "notify" ELSE "write"
                   call == IF quota.call = 4 THEN 4 ELSE quota.call + 1
                   result == IF quota.call = 4 THEN "observation" ELSE "none"
                   used == quota.used \cup {<<quota.call, line>>}
        <4>1. at \in Places /\ call \in 0 .. 4 /\ result \in Results
          BY <2>2 DEF Places, Results, Calls
        <4>2. used \in SUBSET (Calls \X Lines)
          BY <1>1, <3>3 DEF Reads
        <4>3. quota' = [quota EXCEPT !.at = at, !.call = call, !.result = result, !.used = used]
          <5>1. CASE quota.call = 4
            BY <2>6, <5>1 DEF NextCall
          <5>2. CASE quota.call = 1
            BY <2>6, <5>2 DEF NextCall
          <5>3. CASE quota.call \notin {1, 4}
            BY <2>6, <5>3 DEF NextCall
          <5> QED
            BY <5>1, <5>2, <5>3
        <4> HIDE DEF at, call, result, used
        <4>4. quota' \in Reads /\ quota'.at = at /\ quota'.call = call /\ quota'.result = result
          BY <1>1, <4>1, <4>2, <4>3 DEF Reads
        <4> QED
          BY <4>4 DEF at, call, result
      <3>5. \A u \in quota'.used : u[2].id = u[1] /\ u[2].body = "good"
        BY <1>1, <2>6, <3>2 DEF AnswersOwn
      <3>6. CASE quota.call = 4
        BY <3>1, <3>2, <3>4, <3>5, <3>6 DEF AnswersOwn, Calling, Calls
      <3>7. CASE quota.call # 4
        <4>1. quota'.call - 1 = quota.call /\ quota'.call \in Calls
          BY <2>2, <3>4, <3>7 DEF Calls
        <4> QED
          BY <3>1, <3>2, <3>4, <3>5, <3>7, <4>1 DEF AnswersOwn
      <3> QED
        BY <3>6, <3>7
    <2> QED
      BY <2>3, <2>4, <2>5, <2>6
  <1>3. CASE ReadCredential
    <2>1. quota.at = "start" /\ quota.call = 0 /\ quota.used = {} /\ quota.result = "none"
      BY <1>1, <1>3 DEF ReadCredential, AnswersOwn
    <2>2. \/ quota' = [quota EXCEPT !.at = "returned", !.result = "unavailable"]
          \/ quota' = [quota EXCEPT !.at = "write", !.call = 1]
      BY <1>3 DEF ReadCredential, Ends
    <2>3. CASE quota' = [quota EXCEPT !.at = "returned", !.result = "unavailable"]
      <3>1. quota' \in Reads
        BY <1>1, <2>3 DEF Reads, Places, Results
      <3>2. quota'.used = quota.used /\ quota'.result = "unavailable" /\ quota'.at = "returned"
        BY <1>1, <2>3 DEF Reads
      <3> QED
        BY <2>1, <3>1, <3>2 DEF AnswersOwn, Calling
    <2>4. CASE quota' = [quota EXCEPT !.at = "write", !.call = 1]
      <3>1. "write" \in Places /\ 1 \in 0 .. 4
        BY DEF Places
      <3>2. quota' \in Reads
        BY <1>1, <2>4, <3>1 DEF Reads
      <3>3. /\ quota'.used = quota.used /\ quota'.result = quota.result
            /\ quota'.at = "write" /\ quota'.call = 1
        BY <1>1, <2>4 DEF Reads
      <3>4. {u[1] : u \in quota.used} = {} /\ 1 .. 1 - 1 = {}
        BY <2>1
      <3> QED
        BY <2>1, <3>2, <3>3, <3>4 DEF AnswersOwn, Calling, Calls
    <2> QED
      BY <2>2, <2>3, <2>4
  <1>4. CASE StartWrite
    <2>1. \E at \in {"writing", "notifying"} : quota' = [quota EXCEPT !.at = at]
      BY <1>4 DEF StartWrite
    <2> QED
      BY <1>1, <1>4, <2>1 DEF StartWrite, AnswersOwn, Reads, Places, Calling
  <1>5. CASE EndWrite
    <2>1. quota.at \in Calling
      BY <1>5 DEF EndWrite, Calling
    <2>2. \/ \E at \in {"await", "write"} : quota' = [quota EXCEPT !.at = at, !.result = "none"]
          \/ \E r \in {"timeout", "unavailable"} :
                quota' = [quota EXCEPT !.at = "stop", !.result = r]
      BY <1>5 DEF EndWrite, Ends
    <2> QED
      BY <1>1, <2>1, <2>2 DEF AnswersOwn, Reads, Places, Calling, Results
  <1>6. CASE CallFails
    <2>1. \E r \in {"timeout", "protocol"} : quota' = [quota EXCEPT !.at = "stop", !.result = r]
      BY <1>6 DEF CallFails, Ends
    <2> QED
      BY <1>1, <2>1 DEF AnswersOwn, Reads, Places, Calling, Results
  <1>7. CASE Stop \/ Stopped
    <2>1. \E at \in {"stopping", "returned"} : quota' = [quota EXCEPT !.at = at]
      BY <1>7 DEF Stop, Stopped
    <2> QED
      BY <1>1, <2>1 DEF AnswersOwn, Reads, Places, Calling
  <1>8. CASE \/ ServerAnswers \/ ServerSpeaks \/ ServerReads \/ ServerExits \/ Wait
             \/ StderrOverflows \/ StderrEnds \/ Deadline \/ Scan \/ ScannerGivesUp
    <2>1. quota' = quota
      BY <1>8 DEF ServerAnswers, ServerSpeaks, ServerReads, ServerExits, Wait, StderrOverflows,
         StderrEnds, Deadline, Scan, ScannerGivesUp, ScannerKeeps
    <2> QED
      BY <1>1, <2>1 DEF AnswersOwn
  <1> QED
    BY <1>2, <1>3, <1>4, <1>5, <1>6, <1>7, <1>8 DEF ServerNext

\* A step takes down what was started, or leaves it where it can be.
LEMMA KeptStep == ServerInv /\ ServerNext => ServerKept'
  <1> SUFFICES ASSUME ServerInv, ServerNext PROVE ServerKept'
    OBVIOUS
  <1>1. quota \in Reads /\ ServerKept
    BY DEF ServerInv, AnswersOwn
  <1>2. CASE ReadCredential
    <2>1. \/ quota'.at = "returned" /\ UNCHANGED <<rootDir, server, copier>>
          \/ quota'.at = "write" /\ rootDir'
      BY <1>1, <1>2 DEF ReadCredential, Ends, Reads
    <2> QED
      BY <1>1, <1>2, <2>1 DEF ReadCredential, ServerKept, ServerGone
  <1>3. CASE StartWrite \/ EndWrite \/ CallFails
    <2>1. quota.at \notin {"start", "returned"} /\ quota'.at \notin {"start", "returned"}
      BY <1>1, <1>3 DEF StartWrite, EndWrite, CallFails, Ends, Reads
    <2> QED
      BY <1>1, <1>3, <2>1 DEF StartWrite, EndWrite, CallFails, Others, ServerKept, ServerGone
  <1>4. CASE TakeLine
    <2>1. quota.at = "await" /\ quota'.at \in {"await", "stop", "notify", "write"}
      BY <1>1, <1>4 DEF TakeLine, Received, Accept, NextCall, Reads
    <2> QED
      BY <1>1, <1>4, <2>1 DEF TakeLine, Others, ServerKept, ServerGone
  <1>5. CASE Stop
    <2>1. quota'.at = "stopping"
      BY <1>1, <1>5 DEF Stop, Reads
    <2> QED
      BY <1>1, <1>5, <2>1 DEF Stop, ServerKept, ServerGone
  <1>6. CASE Stopped
    <2>1. quota'.at = "returned"
      BY <1>1, <1>6 DEF Stopped, Reads
    <2> QED
      BY <1>1, <1>6, <2>1 DEF Stopped, StopJoins, ServerKept, ServerGone
  <1>7. CASE ServerExits \/ Wait \/ StderrEnds
    BY <1>1, <1>7 DEF ServerExits, Wait, StderrEnds, ServerKept, ServerGone
  <1>8. CASE \/ ServerAnswers \/ ServerSpeaks \/ ServerReads \/ StderrOverflows \/ Deadline
             \/ Scan \/ ScannerGivesUp
    <2>1. UNCHANGED <<quota, server, copier, rootDir, waited>>
      BY <1>8 DEF ServerAnswers, ServerSpeaks, ServerReads, StderrOverflows, Deadline, Scan,
         ScannerGivesUp, ScannerKeeps
    <2> QED
      BY <1>1, <2>1 DEF ServerKept, ServerGone
  <1> QED
    BY <1>2, <1>3, <1>4, <1>5, <1>6, <1>7, <1>8 DEF ServerNext

\* Whatever a step of the read does, the invariant is kept.
LEMMA ServerStep == ServerInv /\ [ServerNext]_serverVars => ServerInv'
  <1>1. ASSUME ServerInv, UNCHANGED serverVars PROVE ServerInv'
    BY <1>1 DEF serverVars, ServerInv, LinesOwn, AnswersOwn, ServerKept, ServerGone
  <1> QED
    BY <1>1, LinesStep, AnswersStep, KeptStep DEF ServerInv

\* Whatever else the server prints, and however often, an observation is made of the
\* answers to its own four calls and of no other account (codex.go, rpcSession.call).
THEOREM ServerOwnAnswers == ServerInit /\ [][ServerNext]_serverVars => []OwnAnswers
  <1>1. ServerInv => OwnAnswers
    BY DEF ServerInv, AnswersOwn, OwnAnswers
  <1> QED
    BY <1>1, ServerStart, ServerStep, PTL

\* However the read ends, its child is reaped before its directory is removed, and
\* nothing of it is left (codex.go, the deferred stop and RemoveAll).
LEMMA ServerLeavesNothing == ServerInit /\ [][ServerNext]_serverVars => []ServerGone
  <1>1. ServerInv => ServerGone
    BY DEF ServerInv, ServerKept
  <1> QED
    BY <1>1, ServerStart, ServerStep, PTL

-----------------------------------------------------------------------------
(* The local usage history.                                                *)

States == {"none", "up", "killed", "gone"}
Tools == [child : States, helper : States, release : Nat, failed : BOOLEAN, left : Int,
          exceeded : BOOLEAN, cut : BOOLEAN]
Verdicts == {"none", "ok", "exit", "output_limit", "canceled", "start"}
RunPlaces == [at : {"idle", "select", "killed", "back"}, verdict : Verdicts]

\* The run of section s has its tool, or had it and calls it good.
Good(s) == running[s].at = "back" /\ running[s].verdict = "ok"
Started(s) == running[s].at \in {"select", "killed"} \/ Good(s)

HistoryTyped ==
    /\ mode \in Modes
    /\ installed \in Nat
    /\ running \in [Sections -> RunPlaces]
    /\ tool \in [Sections -> Tools]

\* A tool lives only while its run waits for it, and what it printed was cut only if
\* its budget is known to be exceeded; a run that killed it will not call it good.
RunsKept ==
    \A s \in Sections :
        /\ running[s].at = "idle" => tool[s] = NotStarted /\ running[s].verdict = "none"
        /\ running[s].at = "back" => ~Live(s)
        /\ running[s].at = "killed" => running[s].verdict \in {"canceled", "output_limit"}
        /\ running[s].at # "back" /\ tool[s].cut => tool[s].exceeded
        /\ Good(s) => ~tool[s].cut

\* Collect goes through its stages, and a section's run belongs to one of them.
StagesKept ==
    /\ collecting \in {"start", "version", "reports", "returned"}
    /\ collecting \in {"start", "version"} =>
          history = NoHistory /\ \A s \in Reports : running[s].at = "idle"
    /\ collecting = "start" => running["version"].at = "idle"
    /\ configDir <=> collecting \in {"version", "reports"}
    /\ collecting = "reports" =>
          /\ Good("version")
          /\ history.version = tool["version"].release
    /\ collecting = "returned" => \A s \in Sections : running[s].at \in {"idle", "back"}

\* Which release a run was given, when the registry chooses.
ReleasesKept ==
    /\ mode = "bunx_fixed" => \A s \in Sections : Started(s) => tool[s].release = 1
    /\ mode = "bunx_latest" =>
          \A s \in Reports : Started(s) => tool[s].release = tool["version"].release

HistoryInv == HistoryTyped /\ RunsKept /\ StagesKept /\ ReleasesKept

\* Nothing runs before Collect begins.
LEMMA HistoryStart == HistoryInit => HistoryInv
  <1> SUFFICES ASSUME HistoryInit PROVE HistoryInv
    OBVIOUS
  <1>1. NotStarted \in Tools /\ NotRun \in RunPlaces
    BY HistoryAssumption DEF NotStarted, Tools, States, NotRun, RunPlaces, Verdicts
  <1>2. \A s \in Sections : running[s] = NotRun /\ tool[s] = NotStarted
    BY DEF HistoryInit
  <1>3. "version" \in Sections /\ Reports \subseteq Sections
    BY DEF Sections, Reports
  <1>4. HistoryTyped
    BY <1>1 DEF HistoryInit, HistoryTyped
  <1>5. RunsKept
    <2> SUFFICES ASSUME NEW s \in Sections, running[s] = NotRun, tool[s] = NotStarted
                 PROVE  /\ running[s].at = "idle" /\ running[s].verdict = "none"
                        /\ tool[s].cut = FALSE
      BY <1>2 DEF RunsKept, Good
    <2> QED
      BY DEF NotStarted, NotRun
  <1>6. StagesKept
    BY <1>2, <1>3 DEF HistoryInit, StagesKept, NotRun
  <1>7. ReleasesKept
    BY <1>2, <1>3 DEF ReleasesKept, Started, Good, NotRun
  <1> QED
    BY <1>4, <1>5, <1>6, <1>7 DEF HistoryInv

\* The sections, and what is common to all uses of the invariant.
LEMMA SectionsKnown ==
    /\ "version" \in Sections /\ Reports \subseteq Sections
    /\ "version" \notin Reports
    /\ \A s \in Sections : s = "version" \/ s \in Reports
  BY DEF Sections, Reports

\* A process of the tool does something while its run waits for it.
LEMMA ToolStep ==
    ASSUME HistoryInv, NEW s \in Sections, NEW t \in Tools, ToolChanges(s, t), Live(s),
           t.release = tool[s].release,
           (tool[s].cut => tool[s].exceeded) => (t.cut => t.exceeded)
    PROVE  HistoryInv'
  <1> USE SectionsKnown
  <1>1. HistoryTyped /\ RunsKept /\ StagesKept /\ ReleasesKept
    BY DEF HistoryInv
  <1>2. /\ tool' = [tool EXCEPT ![s] = t]
        /\ UNCHANGED <<mode, installed, expired, collecting, configDir, running, history>>
    BY DEF ToolChanges
  <1>3. running[s].at \in {"select", "killed"}
    <2>1. running[s].at \in {"idle", "select", "killed", "back"}
      BY <1>1 DEF HistoryTyped, RunPlaces
    <2>2. running[s].at # "idle"
      BY <1>1 DEF RunsKept, Live, NotStarted
    <2>3. running[s].at # "back"
      BY <1>1 DEF RunsKept
    <2> QED
      BY <2>1, <2>2, <2>3
  <1>4. /\ tool'[s] = t
        /\ \A x \in Sections : x # s => tool'[x] = tool[x]
        /\ \A x \in Sections : tool'[x].release = tool[x].release
        /\ tool' \in [Sections -> Tools]
    BY <1>1, <1>2 DEF HistoryTyped
  <1>5. HistoryTyped'
    BY <1>1, <1>2, <1>4 DEF HistoryTyped
  <1>6. RunsKept'
    BY <1>1, <1>2, <1>3, <1>4 DEF RunsKept, Good, Live
  <1>7. StagesKept'
    BY <1>1, <1>2, <1>4 DEF StagesKept, Good
  <1>8. ReleasesKept'
    BY <1>1, <1>2, <1>4 DEF ReleasesKept, Started, Good
  <1> QED
    BY <1>5, <1>6, <1>7, <1>8 DEF HistoryInv

\* Run comes to wait, or to an end of its waiting, with tool t and verdict v.
LEMMA RunStep ==
    ASSUME HistoryInv, NEW s \in Sections, NEW at \in {"killed", "back"}, NEW v \in Verdicts,
           NEW t \in Tools,
           running[s].at \in {"select", "killed"},
           Verdict(s, at, v), tool' = [tool EXCEPT ![s] = t],
           UNCHANGED <<mode, installed, expired, collecting, configDir, history>>,
           t.release = tool[s].release,
           at = "back" => {t.child, t.helper} \cap {"up", "killed"} = {} /\ (v = "ok" => ~t.cut),
           at = "killed" => v \in {"canceled", "output_limit"} /\ (t.cut => t.exceeded)
    PROVE  HistoryInv'
  <1> USE SectionsKnown
  <1>1. HistoryTyped /\ RunsKept /\ StagesKept /\ ReleasesKept
    BY DEF HistoryInv
  <1> DEFINE r == [at |-> at, verdict |-> v]
  <1>2. r \in RunPlaces /\ r.at = at /\ r.verdict = v
    BY DEF RunPlaces
  <1>3. running' = [running EXCEPT ![s] = r]
    BY DEF Verdict
  <1> HIDE DEF r
  <1>4. /\ tool'[s] = t /\ running'[s] = r
        /\ \A x \in Sections : x # s => tool'[x] = tool[x] /\ running'[x] = running[x]
        /\ \A x \in Sections : tool'[x].release = tool[x].release
        /\ tool' \in [Sections -> Tools] /\ running' \in [Sections -> RunPlaces]
    BY <1>1, <1>2, <1>3 DEF HistoryTyped
  <1>5. HistoryTyped'
    BY <1>1, <1>4 DEF HistoryTyped
  <1>6. RunsKept'
    BY <1>1, <1>2, <1>4 DEF RunsKept, Good, Live
  <1>7. StagesKept'
    BY <1>1, <1>2, <1>4 DEF StagesKept, Good
  <1>8. ReleasesKept'
    BY <1>1, <1>2, <1>4 DEF ReleasesKept, Started, Good
  <1> QED
    BY <1>5, <1>6, <1>7, <1>8 DEF HistoryInv

\* Run is called: the tool does not start, or starts with the release it is given.
LEMMA StartStep ==
    ASSUME HistoryInv, NEW s \in Sections, Start(s)
    PROVE  HistoryInv'
  <1> USE SectionsKnown
  <1>1. HistoryTyped /\ RunsKept /\ StagesKept /\ ReleasesKept
    BY DEF HistoryInv
  <1>2. /\ running[s].at = "idle" /\ tool[s] = NotStarted
        /\ collecting = IF s = "version" THEN "version" ELSE "reports"
        /\ UNCHANGED <<mode, installed, expired, collecting, configDir, history>>
    BY <1>1 DEF Start, RunsKept
  <1>3. ASSUME NEW v \in {"canceled", "start"}, Verdict(s, "back", v), UNCHANGED tool
        PROVE  HistoryInv'
    <2> DEFINE r == [at |-> "back", verdict |-> v]
    <2>1. r \in RunPlaces /\ r.at = "back" /\ r.verdict = v
      BY <1>3 DEF RunPlaces, Verdicts
    <2>2. running' = [running EXCEPT ![s] = r]
      BY <1>3 DEF Verdict
    <2> HIDE DEF r
    <2>3. /\ running'[s] = r /\ running' \in [Sections -> RunPlaces]
          /\ \A x \in Sections : x # s => running'[x] = running[x]
      BY <1>1, <2>1, <2>2 DEF HistoryTyped
    <2>4. HistoryTyped'
      BY <1>1, <1>2, <1>3, <2>3 DEF HistoryTyped
    <2>5. RunsKept'
      BY <1>1, <1>2, <1>3, <2>1, <2>3 DEF RunsKept, Good, Live, NotStarted
    <2>6. StagesKept'
      BY <1>1, <1>2, <1>3, <2>1, <2>3 DEF StagesKept, Good
    <2>7. ReleasesKept'
      BY <1>1, <1>2, <1>3, <2>1, <2>3 DEF ReleasesKept, Started, Good
    <2> QED
      BY <2>4, <2>5, <2>6, <2>7 DEF HistoryInv
  <1>4. ASSUME Verdict(s, "select", "none"),
               tool' = [tool EXCEPT ![s].child = "up", ![s].release = reportPackageArg(s)]
        PROVE  HistoryInv'
    <2> DEFINE r == [at |-> "select", verdict |-> "none"]
               t == [NotStarted EXCEPT !.child = "up", !.release = reportPackageArg(s)]
    <2>1. r \in RunPlaces /\ r.at = "select" /\ r.verdict = "none"
      BY DEF RunPlaces, Verdicts
    <2>2. running' = [running EXCEPT ![s] = r]
      BY <1>4 DEF Verdict
    <2>3. reportPackageArg(s) \in Nat
      <3>1. \A x \in Sections : tool[x].release \in Nat
        BY <1>1 DEF HistoryTyped, Tools
      <3> QED
        BY <1>1, <1>2, <3>1 DEF reportPackageArg, HistoryTyped, StagesKept
    <2>4. NotStarted \in Tools
      BY HistoryAssumption DEF NotStarted, Tools, States
    <2>5. t \in Tools /\ ~t.cut /\ t.release = reportPackageArg(s)
      BY <2>3, <2>4 DEF Tools, States, NotStarted
    <2>6. tool' = [tool EXCEPT ![s] = t]
      BY <1>1, <1>2, <1>4 DEF HistoryTyped
    <2> HIDE DEF r, t
    <2>7. /\ running'[s] = r /\ running' \in [Sections -> RunPlaces]
          /\ tool'[s] = t /\ tool' \in [Sections -> Tools]
          /\ \A x \in Sections : x # s => running'[x] = running[x] /\ tool'[x] = tool[x]
      BY <1>1, <2>1, <2>2, <2>5, <2>6 DEF HistoryTyped
    <2>8. HistoryTyped'
      BY <1>1, <1>2, <2>7 DEF HistoryTyped
    <2>9. RunsKept'
      BY <1>1, <1>2, <2>1, <2>5, <2>7 DEF RunsKept, Good, Live
    <2>10. StagesKept'
      BY <1>1, <1>2, <2>1, <2>7 DEF StagesKept, Good
    <2>11. ReleasesKept'
      <3>1. CASE mode = "native"
        BY <1>2, <3>1 DEF ReleasesKept
      <3>2. CASE mode = "bunx_fixed"
        <4>1. t.release = 1
          BY <2>5, <3>2 DEF reportPackageArg
        <4> QED
          BY <1>1, <1>2, <2>1, <2>7, <3>2, <4>1 DEF ReleasesKept, Started, Good
      <3>3. CASE mode = "bunx_latest"
        <4>1. CASE s = "version"
          <5>1. \A x \in Reports : running'[x].at = "idle"
            BY <1>1, <1>2, <2>7, <4>1 DEF StagesKept
          <5> QED
            BY <1>2, <3>3, <5>1 DEF ReleasesKept, Started, Good
        <4>2. CASE s # "version"
          <5>1. t.release = tool["version"].release
            BY <1>1, <1>2, <2>5, <3>3, <4>2 DEF reportPackageArg, StagesKept
          <5> QED
            BY <1>1, <1>2, <2>7, <3>3, <4>2, <5>1 DEF ReleasesKept, Started, Good
        <4> QED
          BY <4>1, <4>2
      <3> QED
        BY <1>1, <3>1, <3>2, <3>3 DEF HistoryTyped, Modes
    <2> QED
      BY <2>8, <2>9, <2>10, <2>11 DEF HistoryInv
  <1> QED
    BY <1>3, <1>4 DEF Start

\* Collect returns: nothing of it runs any more.
LEMMA ReturnStep ==
    ASSUME HistoryInv, NEW h, Returns(h), \A s \in Sections : running[s].at \in {"idle", "back"}
    PROVE  HistoryInv'
  <1>1. HistoryTyped /\ RunsKept /\ StagesKept /\ ReleasesKept
    BY DEF HistoryInv
  <1>2. /\ collecting' = "returned" /\ configDir' = FALSE
        /\ UNCHANGED <<mode, installed, running, tool>>
    BY DEF Returns
  <1>3. HistoryTyped' /\ RunsKept' /\ ReleasesKept'
    BY <1>1, <1>2 DEF HistoryTyped, RunsKept, ReleasesKept, Started, Good, Live
  <1>4. StagesKept'
    BY <1>1, <1>2 DEF StagesKept
  <1> QED
    BY <1>3, <1>4 DEF HistoryInv

\* A step of a tool's processes.
LEMMA ProcessStep ==
    ASSUME HistoryInv, NEW s \in Sections,
           ToolWrites(s) \/ ToolForks(s) \/ ToolExits(s) \/ HelperExits(s) \/ ToolDies(s)
    PROVE  HistoryInv'
  <1>1. tool[s] \in Tools
    BY DEF HistoryInv, HistoryTyped
  <1>2. CASE ToolWrites(s)
    <2>1. PICK n \in 1 .. MaxWrite, stdout \in BOOLEAN :
             Up(s) /\ ToolChanges(s, boundedWrite(tool[s], n, stdout))
      BY <1>2 DEF ToolWrites
    <2> DEFINE t == boundedWrite(tool[s], n, stdout)
    <2> DEFINE left == IF n > tool[s].left THEN 0 ELSE tool[s].left - n
               exceeded == tool[s].exceeded \/ n > tool[s].left
               cut == tool[s].cut \/ (stdout /\ n > tool[s].left)
    <2>2. left \in Int
      BY <1>1, HistoryAssumption DEF Tools
    <2>3. exceeded \in BOOLEAN /\ cut \in BOOLEAN
      BY Zenon
    <2>4. t = [tool[s] EXCEPT !.left = left, !.exceeded = exceeded, !.cut = cut]
      BY Zenon DEF boundedWrite
    <2>5. cut /\ (tool[s].cut => tool[s].exceeded) => exceeded
      BY Zenon
    <2> HIDE DEF t, left, exceeded, cut
    <2>6. t \in Tools /\ t.release = tool[s].release /\ t.cut = cut /\ t.exceeded = exceeded
      BY <1>1, <2>2, <2>3, <2>4 DEF Tools
    <2>7. (tool[s].cut => tool[s].exceeded) => (t.cut => t.exceeded)
      BY <2>6, <2>5
    <2>8. Live(s)
      BY <2>1 DEF Up, Live
    <2> HIDE DEF t
    <2> QED
      BY <2>1, <2>6, <2>7, <2>8, ToolStep DEF t
  <1>3. CASE ToolForks(s) \/ ToolExits(s) \/ HelperExits(s) \/ ToolDies(s)
    <2>1. \E t \in Tools :
             /\ ToolChanges(s, t)
             /\ t.release = tool[s].release /\ t.cut = tool[s].cut
             /\ t.exceeded = tool[s].exceeded
      <3>1. CASE ToolForks(s)
        <4> DEFINE t == [tool[s] EXCEPT !.helper = "up"]
        <4>1. t \in Tools /\ t.release = tool[s].release /\ t.cut = tool[s].cut
              /\ t.exceeded = tool[s].exceeded
          BY <1>1 DEF Tools, States
        <4> QED
          BY <3>1, <4>1 DEF ToolForks
      <3>2. CASE ToolExits(s)
        <4>1. PICK failed \in BOOLEAN :
                 ToolChanges(s, [tool[s] EXCEPT !.child = "gone", !.failed = failed])
          BY <3>2 DEF ToolExits
        <4> DEFINE t == [tool[s] EXCEPT !.child = "gone", !.failed = failed]
        <4>2. t \in Tools /\ t.release = tool[s].release /\ t.cut = tool[s].cut
              /\ t.exceeded = tool[s].exceeded
          BY <1>1 DEF Tools, States
        <4> QED
          BY <4>1, <4>2
      <3>3. CASE HelperExits(s)
        <4> DEFINE t == [tool[s] EXCEPT !.helper = "gone"]
        <4>1. t \in Tools /\ t.release = tool[s].release /\ t.cut = tool[s].cut
              /\ t.exceeded = tool[s].exceeded
          BY <1>1 DEF Tools, States
        <4> QED
          BY <3>3, <4>1 DEF HelperExits
      <3>4. CASE ToolDies(s)
        <4> DEFINE t == [tool[s] EXCEPT !.child = IF @ = "killed" THEN "gone" ELSE @,
                                        !.helper = IF @ = "killed" THEN "gone" ELSE @]
        <4>1. t \in Tools /\ t.release = tool[s].release /\ t.cut = tool[s].cut
              /\ t.exceeded = tool[s].exceeded
          BY <1>1 DEF Tools, States
        <4> QED
          BY <3>4, <4>1 DEF ToolDies
      <3> QED
        BY <1>3, <3>1, <3>2, <3>3, <3>4
    <2>2. Live(s)
      BY <1>3 DEF ToolForks, ToolExits, HelperExits, ToolDies, Live
    <2> QED
      BY <2>1, <2>2, ToolStep
  <1> QED
    BY <1>2, <1>3

\* A step of processRunner.Run after its start.
LEMMA SelectStep ==
    ASSUME HistoryInv, NEW s \in Sections,
           SelectDone(s) \/ SelectCanceled(s) \/ SelectExceeded(s) \/ AwaitDone(s)
    PROVE  HistoryInv'
  <1>1. tool[s] \in Tools /\ running[s] \in RunPlaces /\ RunsKept
    BY DEF HistoryInv, HistoryTyped
  <1> DEFINE f == Forgotten(tool[s])
             k == killProcessGroup(tool[s])
  <1>2. /\ f \in Tools /\ f.release = tool[s].release /\ f.cut = tool[s].cut
        /\ {f.child, f.helper} \cap {"up", "killed"} = {}
    <2>1. NotStarted \in Tools /\ NotStarted.child = "none" /\ NotStarted.helper = "none"
      BY HistoryAssumption DEF NotStarted, Tools, States
    <2>2. f = [NotStarted EXCEPT !.release = tool[s].release, !.cut = tool[s].cut]
      BY DEF Forgotten
    <2> HIDE DEF f
    <2>3. /\ f \in Tools /\ f.release = tool[s].release /\ f.cut = tool[s].cut
          /\ f.child = "none" /\ f.helper = "none"
      BY <1>1, <2>1, <2>2 DEF Tools
    <2> QED
      BY <2>3
  <1>3. /\ k \in Tools /\ k.release = tool[s].release /\ k.cut = tool[s].cut
        /\ k.exceeded = tool[s].exceeded
    BY <1>1 DEF killProcessGroup, Tools, States
  <1> HIDE DEF f, k
  <1>4. CASE SelectDone(s)
    <2> DEFINE v == exitVerdict(tool[s])
    <2>1. /\ running[s].at = "select" /\ Verdict(s, "back", v)
          /\ tool' = [tool EXCEPT ![s] = f]
          /\ UNCHANGED <<mode, installed, expired, collecting, configDir, history>>
      BY <1>4 DEF SelectDone, Kept, f
    <2>2. v \in Verdicts /\ (v = "ok" => ~tool[s].exceeded)
      BY <1>1 DEF exitVerdict, Verdicts, Tools
    <2> HIDE DEF v
    <2>3. v = "ok" => ~f.cut
      BY <1>1, <1>2, <2>1, <2>2 DEF RunsKept
    <2> QED
      BY <1>2, <2>1, <2>2, <2>3, RunStep
  <1>5. ASSUME NEW v \in {"canceled", "output_limit"}, running[s].at = "select",
               Verdict(s, "killed", v), tool' = [tool EXCEPT ![s] = killProcessGroup(@)], Kept
        PROVE  HistoryInv'
    <2>1. /\ tool' = [tool EXCEPT ![s] = k] /\ v \in Verdicts
          /\ UNCHANGED <<mode, installed, expired, collecting, configDir, history>>
      BY <1>5 DEF k, Kept, Verdicts
    <2>2. k.cut => k.exceeded
      BY <1>1, <1>3, <1>5 DEF RunsKept
    <2> QED
      BY <1>3, <1>5, <2>1, <2>2, RunStep
  <1>6. CASE AwaitDone(s)
    <2> DEFINE v == running[s].verdict
    <2>1. /\ running[s].at = "killed" /\ Verdict(s, "back", v)
          /\ tool' = [tool EXCEPT ![s] = f]
          /\ UNCHANGED <<mode, installed, expired, collecting, configDir, history>>
      BY <1>6 DEF AwaitDone, Kept, f
    <2>2. v \in Verdicts /\ v # "ok"
      BY <1>1, <2>1 DEF RunsKept, RunPlaces
    <2> HIDE DEF v
    <2> QED
      BY <1>2, <2>1, <2>2, RunStep
  <1> QED
    BY <1>4, <1>5, <1>6 DEF SelectCanceled, SelectExceeded

\* Whatever a step of the collection does, the invariant is kept.
LEMMA HistoryStep == HistoryInv /\ [HistoryNext]_historyVars => HistoryInv'
  <1> SUFFICES ASSUME HistoryInv, [HistoryNext]_historyVars PROVE HistoryInv'
    OBVIOUS
  <1> USE SectionsKnown
  <1>1. HistoryTyped /\ RunsKept /\ StagesKept /\ ReleasesKept
    BY DEF HistoryInv
  <1>2. CASE Begin
    <2>1. \A s \in Sections : running[s].at = "idle"
      BY <1>1, <1>2 DEF Begin, StagesKept
    <2>2. CASE \E h : Returns(h)
      BY <2>1, <2>2, ReturnStep
    <2>3. CASE /\ collecting' = "version" /\ configDir' = TRUE
               /\ UNCHANGED <<mode, installed, expired, running, tool, history>>
      <3>1. HistoryTyped' /\ RunsKept' /\ ReleasesKept'
        BY <1>1, <2>3 DEF HistoryTyped, RunsKept, ReleasesKept, Started, Good, Live
      <3>2. StagesKept'
        BY <1>1, <1>2, <2>3 DEF Begin, StagesKept
      <3> QED
        BY <3>1, <3>2 DEF HistoryInv
    <2> QED
      BY <1>2, <2>2, <2>3 DEF Begin
  <1>3. CASE VersionKnown
    <2>1. \A s \in Sections : running[s].at \in {"idle", "back"}
      BY <1>1, <1>3 DEF VersionKnown, StagesKept
    <2>2. CASE \E h : Returns(h)
      BY <2>1, <2>2, ReturnStep
    <2>3. CASE /\ running["version"].verdict = "ok"
               /\ history' = [history EXCEPT !.version = tool["version"].release]
               /\ collecting' = "reports"
               /\ UNCHANGED <<mode, installed, expired, configDir, running, tool>>
      <3>1. HistoryTyped' /\ RunsKept' /\ ReleasesKept'
        BY <1>1, <2>3 DEF HistoryTyped, RunsKept, ReleasesKept, Started, Good, Live
      <3>2. history = NoHistory /\ collecting = "version" /\ running["version"].at = "back"
        BY <1>1, <1>3 DEF VersionKnown, StagesKept
      <3>3. history'.version = tool'["version"].release
        BY <2>3, <3>2 DEF NoHistory
      <3>4. StagesKept'
        BY <1>1, <2>3, <3>2, <3>3 DEF StagesKept, Good
      <3> QED
        BY <3>1, <3>4 DEF HistoryInv
    <2> QED
      BY <1>3, <2>2, <2>3 DEF VersionKnown
  <1>4. CASE Join
    <2>1. \A s \in Sections : running[s].at \in {"idle", "back"}
      BY <1>1, <1>4 DEF Join, StagesKept, Good
    <2>2. \E h : Returns(h)
      BY <1>4 DEF Join
    <2> QED
      BY <2>1, <2>2, ReturnStep
  <1>5. CASE HistoryDeadline \/ Release \/ UNCHANGED historyVars
    <2>1. UNCHANGED <<mode, collecting, configDir, running, tool, history>> /\ installed' \in Nat
      BY <1>1, <1>5 DEF HistoryDeadline, Release, historyVars, HistoryTyped
    <2> QED
      BY <1>1, <2>1 DEF HistoryInv, HistoryTyped, RunsKept, StagesKept, ReleasesKept, Started,
         Good, Live
  <1>6. ASSUME NEW s \in Sections,
               \/ Start(s) \/ SelectDone(s) \/ SelectCanceled(s) \/ SelectExceeded(s)
               \/ AwaitDone(s) \/ ToolWrites(s) \/ ToolForks(s) \/ ToolExits(s)
               \/ HelperExits(s) \/ ToolDies(s)
        PROVE  HistoryInv'
    BY <1>6, StartStep, SelectStep, ProcessStep
  <1> QED
    BY <1>2, <1>3, <1>4, <1>5, <1>6 DEF HistoryNext

\* However the output limit, the exit and the deadline race, and whenever a release
\* appears, a section was printed in full and by the release the report names
\* (runner_unix.go, Run; collect.go, reportPackageArg).
THEOREM HistorySectionsTrue == HistoryInit /\ [][HistoryNext]_historyVars => []SectionsTrue
  <1>1. ASSUME HistoryInv PROVE SectionsTrue
    <2> SUFFICES ASSUME collecting = "returned", NEW s \in Reports,
                        running[s].verdict = "ok", running["version"].verdict = "ok"
                 PROVE  /\ ~tool[s].cut
                        /\ mode # "native" => tool[s].release = tool["version"].release
      BY DEF SectionsTrue
    <2>1. Good(s) /\ Good("version")
      BY <1>1, SectionsKnown DEF HistoryInv, RunsKept, StagesKept, Good
    <2>2. mode \in {"native", "bunx_fixed", "bunx_latest"}
      BY <1>1 DEF HistoryInv, HistoryTyped, Modes
    <2> QED
      BY <1>1, <2>1, <2>2, SectionsKnown DEF HistoryInv, RunsKept, ReleasesKept, Started
  <1> QED
    BY <1>1, HistoryStart, HistoryStep, PTL

\* No process of a tool, nor of a helper it forked, outlives the directory it was
\* given or the collection (runner_unix.go, Run; collect.go, Collect's RemoveAll).
LEMMA HistoryLeavesNothing == HistoryInit /\ [][HistoryNext]_historyVars => []ToolsGone
  <1>1. ASSUME HistoryInv PROVE ToolsGone
    <2> SUFFICES ASSUME ~configDir, NEW s \in Sections PROVE ~Live(s)
      BY DEF ToolsGone
    <2>1. running[s].at \in {"idle", "back"}
      BY <1>1, SectionsKnown DEF HistoryInv, StagesKept
    <2>2. CASE running[s].at = "idle"
      BY <1>1, <2>2 DEF HistoryInv, RunsKept, Live, NotStarted
    <2>3. CASE running[s].at = "back"
      BY <1>1, <2>3 DEF HistoryInv, RunsKept
    <2> QED
      BY <2>1, <2>2, <2>3
  <1> QED
    BY <1>1, HistoryStart, HistoryStep, PTL

\* However the usage tool and the app-server end, and both may run at once, no
\* process outlives its directory or the reader that started it (runner_unix.go, Run;
\* codex.go, ReadCredential).
THEOREM ReadersLeaveNothing ==
    /\ HistoryInit /\ [][HistoryNext]_historyVars
    /\ ServerInit /\ [][ServerNext]_serverVars
    => []NothingLeftRunning
  BY HistoryLeavesNothing, ServerLeavesNothing, PTL DEF NothingLeftRunning

-----------------------------------------------------------------------------
(* Induction, and what the loops are for one more element.                 *)

\* A set of numbers that is not empty has a least one.
LEMMA LeastNat ==
    ASSUME NEW T, T \subseteq Nat, T # {}
    PROVE  \E m \in T : \A k \in T : m <= k
  <1>1. PICK x \in T : \A y \in T : ~ (<<y, x>> \in OpToRel(<, Nat))
    BY WFMin, NatLessThanWellFounded
  <1>2. \A y \in T : ~ (y < x)
    BY <1>1 DEF OpToRel
  <1> QED
    BY <1>2

\* A set that holds 0 and, with a number, the next one holds them all.
LEMMA NatSetInduction ==
    ASSUME NEW T, 0 \in T, \A k \in Nat : k \in T => k + 1 \in T
    PROVE  \A k \in Nat : k \in T
  <1> SUFFICES ASSUME NEW n \in Nat, n \notin T PROVE FALSE
    OBVIOUS
  <1>1. PICK m \in {k \in Nat : k \notin T} : \A k \in {j \in Nat : j \notin T} : m <= k
    BY LeastNat
  <1>2. m # 0 /\ m - 1 \in Nat
    BY <1>1
  <1>3. m - 1 \in T
    BY <1>1, <1>2
  <1>4. (m - 1) + 1 \in T
    BY <1>2, <1>3
  <1> QED
    BY <1>1, <1>2, <1>4

\* The same up to a bound.
LEMMA UpToInduction ==
    ASSUME NEW N \in Nat, NEW T, 0 \in T, \A k \in 0..(N - 1) : k \in T => k + 1 \in T
    PROVE  \A k \in 0..N : k \in T
  <1> DEFINE U == {k \in Nat : k <= N => k \in T}
  <1>1. 0 \in U
    OBVIOUS
  <1>2. \A k \in Nat : k \in U => k + 1 \in U
    OBVIOUS
  <1> HIDE DEF U
  <1>3. \A k \in Nat : k \in U
    BY <1>1, <1>2, NatSetInduction
  <1> QED
    BY <1>3 DEF U

\* A set that holds the empty sequence and, with a sequence, each one that is
\* longer by an element holds them all.
LEMMA SeqSetInduction ==
    ASSUME NEW S, NEW T, <<>> \in T,
           \A s \in Seq(S), x \in S : s \in T => Append(s, x) \in T
    PROVE  \A s \in Seq(S) : s \in T
  <1> DEFINE U == {n \in Nat : \A s \in Seq(S) : Len(s) = n => s \in T}
  <1>1. 0 \in U
    BY EmptySeq
  <1>2. \A k \in Nat : k \in U => k + 1 \in U
    <2> SUFFICES ASSUME NEW k \in Nat, k \in U, NEW s \in Seq(S), Len(s) = k + 1
                 PROVE  s \in T
      OBVIOUS
    <2>1. s # <<>>
      OBVIOUS
    <2>2. PICK t \in Seq(S), x \in S : s = Append(t, x)
      BY <2>1, SequenceEmptyOrAppend
    <2>3. Len(t) = k
      BY <2>2
    <2> QED
      BY <2>2, <2>3
  <1> HIDE DEF U
  <1>3. \A k \in Nat : k \in U
    BY <1>1, <1>2, NatSetInduction
  <1> QED
    BY <1>3 DEF U

\* FlattenSeq: the last sequence comes last.
LEMMA FlattenStep ==
    ASSUME NEW S, NEW ss \in Seq(Seq(S)), NEW x \in Seq(S)
    PROVE  /\ FlattenSeq(<<>>) = <<>>
           /\ FlattenSeq(Append(ss, x)) = FlattenSeq(ss) \o x
           /\ FlattenSeq(ss) \in Seq(S)
  <1> DEFINE Loop(f, t, n) == f = [i \in 1..n |-> IF i = 1 THEN t[i] ELSE f[i - 1] \o t[i]]
             Run(t) == CHOOSE f : Loop(f, t, Len(t))
  <1>0. \A t : FlattenSeq(t) = IF Len(t) = 0 THEN t ELSE Run(t)[Len(t)]
    BY DEF FlattenSeq
  <1>1. ASSUME NEW t, NEW n \in Nat PROVE \E f : Loop(f, t, n)
    <2> DEFINE T == {k \in Nat : \E f : Loop(f, t, k)}
    <2>1. 0 \in T
      <3>1. Loop([i \in 1..0 |-> t], t, 0)
        OBVIOUS
      <3> QED
        BY <3>1
    <2>2. ASSUME NEW k \in Nat, k \in T PROVE k + 1 \in T
      <3>1. PICK f : Loop(f, t, k)
        BY <2>2
      <3> DEFINE g == [i \in 1..(k + 1) |->
                          IF i = k + 1 THEN IF k = 0 THEN t[1] ELSE f[k] \o t[k + 1] ELSE f[i]]
                 h == [i \in 1..(k + 1) |-> IF i = 1 THEN t[i] ELSE g[i - 1] \o t[i]]
      <3>2. ASSUME NEW i \in 1..(k + 1) PROVE g[i] = h[i]
        <4>1. CASE i = k + 1 /\ k = 0
          BY <4>1
        <4>2. CASE i = k + 1 /\ k # 0
          <5>1. i - 1 = k /\ i # 1 /\ k \in 1..(k + 1) /\ k # k + 1
            BY <4>2
          <5> QED
            BY <4>2, <5>1
        <4>3. CASE i # k + 1 /\ i = 1
          BY <3>1, <4>3
        <4>4. CASE i # k + 1 /\ i # 1
          <5>1. i \in 1..k /\ i - 1 \in 1..(k + 1) /\ i - 1 # k + 1
            BY <4>4
          <5>2. f[i] = f[i - 1] \o t[i]
            BY <3>1, <4>4, <5>1
          <5> QED
            BY <4>4, <5>1, <5>2
        <4> QED
          BY <4>1, <4>2, <4>3, <4>4
      <3>3. g = h
        BY <3>2
      <3>4. Loop(g, t, k + 1)
        BY <3>3
      <3> HIDE DEF g, Loop
      <3> QED
        BY <3>4
    <2> HIDE DEF T
    <2>3. n \in T
      BY <2>1, <2>2, NatSetInduction
    <2> QED
      BY <2>3 DEF T
  <1>2. \A t : Len(t) \in Nat => Loop(Run(t), t, Len(t))
    BY <1>1, Zenon
  <1> HIDE DEF Loop, Run
  <1>3. /\ Len(<<>>) = 0 /\ Len(ss) \in Nat /\ Len(Append(ss, x)) = Len(ss) + 1
        /\ Append(ss, x)[Len(ss) + 1] = x
        /\ \A i \in 1..Len(ss) : Append(ss, x)[i] = ss[i] /\ ss[i] \in Seq(S)
    OBVIOUS
  <1>4. FlattenSeq(<<>>) = <<>>
    BY <1>0, <1>3
  <1> DEFINE a == Run(ss)
             t == Append(ss, x)
             b == Run(t)
             n == Len(ss)
  <1>5. Loop(a, ss, n) /\ Loop(b, t, n + 1)
    <2>1. Len(t) \in Nat
      BY <1>3
    <2>2. Loop(Run(ss), ss, Len(ss)) /\ Loop(Run(t), t, Len(t))
      BY <1>2, <1>3, <2>1, Zenon
    <2> QED
      BY <2>2, <1>3
  <1>6. /\ n \in Nat /\ t[n + 1] = x /\ Len(t) = n + 1
        /\ \A i \in 1..n : t[i] = ss[i] /\ ss[i] \in Seq(S)
    BY <1>3
  <1>7. /\ FlattenSeq(t) = b[n + 1]
        /\ FlattenSeq(ss) = IF n = 0 THEN ss ELSE a[n]
        /\ n = 0 => ss = <<>>
    <2>1. Len(t) # 0
      BY <1>3
    <2>2. FlattenSeq(t) = Run(t)[Len(t)]
      BY <1>0, <2>1, Zenon
    <2> QED
      BY <1>0, <1>3, <2>2
  <1> HIDE DEF a, b, t, n
  <1> DEFINE T == {i \in 0..n : i # 0 => a[i] = b[i] /\ a[i] \in Seq(S)}
  <1>8. 0 \in T
    BY <1>6
  <1>9. ASSUME NEW k \in 0..(n - 1), k \in T PROVE k + 1 \in T
    <2>1. /\ k + 1 \in 0..n /\ k + 1 \in 1..(n + 1) /\ k + 1 \in 1..n /\ (k + 1) - 1 = k
          /\ (k + 1 = 1 <=> k = 0)
      BY <1>6, <1>9
    <2>2. /\ a[k + 1] = IF k = 0 THEN ss[k + 1] ELSE a[k] \o ss[k + 1]
          /\ b[k + 1] = IF k = 0 THEN t[k + 1] ELSE b[k] \o t[k + 1]
      BY <1>5, <2>1 DEF Loop
    <2>3. a[k + 1] = b[k + 1]
      BY <1>6, <1>9, <2>1, <2>2
    <2>4. a[k + 1] \in Seq(S)
      <3>1. ss[k + 1] \in Seq(S)
        BY <1>6, <2>1
      <3>2. k # 0 => a[k] \in Seq(S)
        BY <1>9
      <3> QED
        BY <2>2, <3>1, <3>2
    <2> QED
      BY <2>1, <2>3, <2>4
  <1> HIDE DEF T
  <1>10. n \in T
    <2>1. \A k \in 0..(n - 1) : k \in T => k + 1 \in T
      BY <1>9
    <2>2. \A k \in 0..n : k \in T
      BY <1>6, <1>8, <2>1, UpToInduction
    <2> QED
      BY <1>6, <2>2
  <1>11. b[n + 1] = IF n = 0 THEN x ELSE b[n] \o x
    <2>1. n + 1 \in 1..(n + 1) /\ (n + 1 = 1 <=> n = 0) /\ (n + 1) - 1 = n
      BY <1>6
    <2> QED
      BY <1>5, <1>6, <2>1 DEF Loop
  <1>12. FlattenSeq(ss) \in Seq(S)
    BY <1>6, <1>7, <1>10, EmptySeq DEF T
  <1>13. FlattenSeq(t) = FlattenSeq(ss) \o x
    <2>1. CASE n = 0
      BY <1>7, <1>11, <2>1, ConcatEmptySeq
    <2>2. CASE n # 0
      BY <1>7, <1>10, <1>11, <2>2 DEF T
    <2> QED
      BY <2>1, <2>2
  <1> QED
    BY <1>4, <1>12, <1>13 DEF t

\* The elements of a sequence, as it grows.
LEMMA ToSetFacts ==
    ASSUME NEW S, NEW s \in Seq(S), NEW x \in S
    PROVE  /\ ToSet(<<>>) = {}
           /\ ToSet(Append(s, x)) = ToSet(s) \cup {x}
           /\ ToSet(s) \subseteq S
           /\ \A y : y \in ToSet(s) <=> \E i \in 1..Len(s) : s[i] = y
  <1>1. ToSet(<<>>) = {}
    BY DEF ToSet
  <1>2. DOMAIN s = 1..Len(s) /\ Len(s) \in Nat /\ DOMAIN Append(s, x) = 1..(Len(s) + 1)
    OBVIOUS
  <1>3. \A y : y \in ToSet(s) <=> \E i \in 1..Len(s) : s[i] = y
    BY <1>2 DEF ToSet
  <1>4. ToSet(s) \subseteq S
    BY <1>3, ElementOfSeq
  <1>5. \A y : y \in ToSet(Append(s, x)) <=> \E i \in 1..(Len(s) + 1) : Append(s, x)[i] = y
    BY <1>2 DEF ToSet
  <1>6. /\ \A i \in 1..Len(s) : Append(s, x)[i] = s[i]
        /\ Append(s, x)[Len(s) + 1] = x
    OBVIOUS
  <1>7. \A i \in 1..(Len(s) + 1) : i \in 1..Len(s) \/ i = Len(s) + 1
    BY <1>2
  <1>8. 1..Len(s) \subseteq 1..(Len(s) + 1) /\ Len(s) + 1 \in 1..(Len(s) + 1)
    BY <1>2
  <1>9. \A y : y \in ToSet(Append(s, x)) <=> y \in ToSet(s) \/ y = x
    BY <1>3, <1>5, <1>6, <1>7, <1>8
  <1> QED
    BY <1>1, <1>3, <1>4, <1>9

\* One more element after a concatenation.
LEMMA ConcatStep ==
    ASSUME NEW S, NEW s \in Seq(S), NEW t \in Seq(S), NEW x \in S
    PROVE  /\ s \o <<>> = s /\ <<>> \o s = s
           /\ s \o Append(t, x) = Append(s \o t, x)
           /\ s \o t \in Seq(S)
  OBVIOUS

\* Three sequences, one after the other.
Grouped(x, y, z) == (x \o y) \o z = x \o (y \o z)

\* It does not matter which two are put together first.
LEMMA ConcatThree ==
    ASSUME NEW S, NEW x \in Seq(S), NEW y \in Seq(S), NEW z \in Seq(S)
    PROVE  Grouped(x, y, z)
  BY ConcatAssociative DEF Grouped

\* Segments looks at one byte after the other.
LEMMA SegmentsStep ==
    ASSUME NEW S, NEW s \in Seq(S), NEW x \in S
    PROVE  /\ Segments(<<>>) = <<<<>>>>
           /\ Segments(Append(s, x)) = NextSegment(Segments(s), x)
  <1> DEFINE Base == <<<<>>>>
             Step(v, e) == NextSegment(v, e)
             Loop(f, t, n) == f = [i \in 0..n |-> IF i = 0 THEN Base ELSE Step(f[i - 1], t[i])]
             Run(t) == CHOOSE f : Loop(f, t, Len(t))
  <1>0. \A t : Segments(t) = Run(t)[Len(t)]
    BY DEF Segments
  <1> HIDE DEF Step, Base
  <1>1. ASSUME NEW t, NEW n \in Nat PROVE \E f : Loop(f, t, n)
    <2> DEFINE T == {k \in Nat : \E f : Loop(f, t, k)}
    <2>1. 0 \in T
      <3>1. Loop([i \in 0..0 |-> Base], t, 0)
        OBVIOUS
      <3> QED
        BY <3>1
    <2>2. ASSUME NEW k \in Nat, k \in T PROVE k + 1 \in T
      <3>1. PICK f : Loop(f, t, k)
        BY <2>2
      <3> DEFINE g == [i \in 0..(k + 1) |-> IF i = k + 1 THEN Step(f[k], t[k + 1]) ELSE f[i]]
                 h == [i \in 0..(k + 1) |-> IF i = 0 THEN Base ELSE Step(g[i - 1], t[i])]
      <3>2. ASSUME NEW i \in 0..(k + 1) PROVE g[i] = h[i]
        <4>1. CASE i = 0
          BY <3>1, <4>1
        <4>2. CASE i = k + 1
          <5>1. i - 1 = k /\ i # 0 /\ k \in 0..(k + 1) /\ k # k + 1
            BY <4>2
          <5> QED
            BY <4>2, <5>1
        <4>3. CASE i # 0 /\ i # k + 1
          <5>1. i \in 0..k /\ i - 1 \in 0..(k + 1) /\ i - 1 # k + 1
            BY <4>3
          <5>2. f[i] = Step(f[i - 1], t[i])
            BY <3>1, <4>3, <5>1
          <5> QED
            BY <4>3, <5>1, <5>2
        <4> QED
          BY <4>1, <4>2, <4>3
      <3>3. g = h
        BY <3>2
      <3>4. Loop(g, t, k + 1)
        BY <3>3
      <3> HIDE DEF g
      <3> QED
        BY <3>4
    <2> HIDE DEF T
    <2>3. n \in T
      BY <2>1, <2>2, NatSetInduction
    <2> QED
      BY <2>3 DEF T
  <1>2. \A t : Len(t) \in Nat => Loop(Run(t), t, Len(t))
    BY <1>1, Zenon
  <1> HIDE DEF Loop, Run
  <1>3. /\ Len(<<>>) = 0 /\ Len(s) \in Nat /\ Len(Append(s, x)) = Len(s) + 1
        /\ Append(s, x)[Len(s) + 1] = x
        /\ \A i \in 1..Len(s) : Append(s, x)[i] = s[i]
    OBVIOUS
  <1>4. Segments(<<>>) = <<<<>>>>
    <2>1. Loop(Run(<<>>), <<>>, 0)
      BY <1>2, <1>3
    <2> QED
      BY <2>1, <1>0, <1>3 DEF Loop
  <1>5. Segments(Append(s, x)) = Step(Segments(s), x)
    <2> DEFINE a == Run(s)
               t == Append(s, x)
               b == Run(t)
               n == Len(s)
    <2>1. Loop(a, s, n) /\ Loop(b, t, n + 1)
      <3>1. Len(t) \in Nat
        BY <1>3
      <3>2. Loop(Run(s), s, Len(s)) /\ Loop(Run(t), t, Len(t))
        BY <1>2, <1>3, <3>1, Zenon
      <3> QED
        BY <3>2, <1>3
    <2>2. /\ n \in Nat /\ t[n + 1] = x /\ Len(t) = n + 1
          /\ \A i \in 1..n : t[i] = s[i]
      BY <1>3
    <2>3. Segments(t) = b[n + 1] /\ Segments(s) = a[n]
      BY <1>0, <1>3, Zenon
    <2> HIDE DEF a, b, t, n
    <2> DEFINE T == {i \in 0..n : a[i] = b[i]}
    <2>4. 0 \in T
      BY <2>1, <2>2 DEF Loop
    <2>5. ASSUME NEW k \in 0..(n - 1), k \in T PROVE k + 1 \in T
      <3>1. /\ k + 1 \in 0..n /\ k + 1 \in 0..(n + 1) /\ k + 1 # 0 /\ (k + 1) - 1 = k
            /\ k + 1 \in 1..n
        BY <2>2, <2>5
      <3>2. a[k + 1] = Step(a[k], s[k + 1]) /\ b[k + 1] = Step(b[k], t[k + 1])
        BY <2>1, <3>1 DEF Loop
      <3> QED
        BY <2>2, <2>5, <3>1, <3>2
    <2> HIDE DEF T
    <2>6. n \in T
      <3>1. \A k \in 0..(n - 1) : k \in T => k + 1 \in T
        BY <2>5
      <3>2. \A k \in 0..n : k \in T
        BY <2>2, <2>4, <3>1, UpToInduction
      <3> QED
        BY <2>2, <3>2
    <2>7. a[n] = b[n]
      BY <2>6 DEF T
    <2>8. b[n + 1] = Step(b[n], t[n + 1])
      <3>1. n + 1 \in 0..(n + 1) /\ n + 1 # 0 /\ (n + 1) - 1 = n
        BY <2>2
      <3> QED
        BY <2>1, <3>1 DEF Loop
    <2> QED
      BY <2>2, <2>3, <2>7, <2>8 DEF t
  <1> QED
    BY <1>4, <1>5 DEF Step, Base

-----------------------------------------------------------------------------
(* The lines of a payload.                                                  *)

\* What one more byte does to the lines before it: none of them changes but
\* the last, which grows, or a line is added.
Grown(lines, c, next) ==
    LET n == Len(lines) IN
    /\ Len(next) = IF c = LF THEN n + 1 ELSE n
    /\ \A i \in 1..(n - 1) : next[i] = lines[i]
    /\ c = LF => next[n] = lines[n] /\ next[n + 1] = <<>>
    /\ c # LF => next[n] = Append(lines[n], c)

\* One more byte makes the last line longer or begins a line.
LEMMA NextSegmentFacts ==
    ASSUME NEW S, NEW lines \in Seq(Seq(S \ {LF})), lines # <<>>, NEW c \in S
    PROVE  LET next == NextSegment(lines, c) IN
           /\ next \in Seq(Seq(S \ {LF})) /\ next # <<>>
           /\ Grown(lines, c, next)
  <1> DEFINE P == Seq(S \ {LF})
             n == Len(lines)
  <1>1. lines \in Seq(P) /\ n \in Nat /\ n # 0 /\ DOMAIN lines = 1..n /\ \A i \in 1..n : lines[i] \in P
    BY EmptySeq, LenProperties, ElementOfSeq
  <1>2. <<>> \in P
    OBVIOUS
  <1>3. CASE c = LF
    <2>1. NextSegment(lines, c) = Append(lines, <<>>)
      BY <1>3 DEF NextSegment
    <2>2. /\ Append(lines, <<>>) \in Seq(P) /\ Len(Append(lines, <<>>)) = n + 1
          /\ \A i \in 1..n : Append(lines, <<>>)[i] = lines[i]
          /\ Append(lines, <<>>)[n + 1] = <<>>
      BY <1>1, <1>2, AppendProperties
    <2>3. Append(lines, <<>>) # <<>>
      BY <2>2, <1>1, EmptySeq
    <2> DEFINE next == Append(lines, <<>>)
               none == <<>>
    <2>4. /\ next \in Seq(P) /\ next # <<>> /\ Len(next) = n + 1
          /\ \A i \in 1..(n - 1) : next[i] = lines[i]
          /\ next[n] = lines[n] /\ next[n + 1] = <<>>
      <3>1. n \in 1..n /\ \A i \in 1..(n - 1) : i \in 1..n
        BY <1>1
      <3> QED
        BY <2>2, <2>3, <3>1
    <2>5. NextSegment(lines, c) = next
      BY <2>1, Zenon
    <2> HIDE DEF next, P
    <2> QED
      BY <1>3, <2>4, <2>5 DEF P, Grown
  <1>4. CASE c # LF
    <2> DEFINE last == Append(lines[n], c)
               next == [lines EXCEPT ![n] = last]
    <2>1. NextSegment(lines, c) = next
      BY <1>4 DEF NextSegment
    <2>2. last \in P
      BY <1>1, <1>4, AppendProperties
    <2> HIDE DEF last, P, n
    <2>3. next \in Seq(P) /\ Len(next) = n /\ next[n] = last /\ \A i \in 1..(n - 1) : next[i] = lines[i]
      BY <1>1, <2>2, ExceptSeq
    <2>4. next # <<>>
      BY <1>1, <2>3, EmptySeq
    <2> QED
      BY <1>1, <1>4, <2>1, <2>3, <2>4 DEF last, P, n, Grown
  <1> QED
    BY <1>3, <1>4

\* No bytes make one empty line.
LEMMA SegmentsEmpty == Segments(<<>>) = <<<<>>>> /\ <<<<>>>> # <<>> /\ \A S : <<<<>>>> \in Seq(Seq(S))
  <1>1. <<>> \in Seq({0}) /\ 0 \in {0}
    OBVIOUS
  <1>2. Segments(<<>>) = <<<<>>>>
    BY <1>1, SegmentsStep
  <1>3. \A S : <<<<>>>> \in Seq(Seq(S))
    OBVIOUS
  <1>4. <<<<>>>> # <<>>
    OBVIOUS
  <1> QED
    BY <1>2, <1>3, <1>4

\* The lines are sequences without a line feed, at least one.
LEMMA SegmentsType ==
    ASSUME NEW S, NEW s \in Seq(S)
    PROVE  Segments(s) \in Seq(Seq(S \ {LF})) /\ Segments(s) # <<>>
  <1> DEFINE L == Seq(Seq(S \ {LF}))
             T == {d \in Seq(S) : Segments(d) \in L /\ Segments(d) # <<>>}
  <1>1. <<>> \in T
    BY SegmentsEmpty, EmptySeq
  <1>2. ASSUME NEW d \in Seq(S), NEW x \in S, d \in T PROVE Append(d, x) \in T
    <2>1. Segments(Append(d, x)) = NextSegment(Segments(d), x)
      BY SegmentsStep
    <2>2. NextSegment(Segments(d), x) \in L /\ NextSegment(Segments(d), x) # <<>>
      BY <1>2, NextSegmentFacts
    <2> QED
      BY <2>1, <2>2
  <1> HIDE DEF T
  <1>3. \A d \in Seq(S) : d \in T
    BY <1>1, <1>2, SeqSetInduction
  <1> QED
    BY <1>3 DEF T

\* What follows the first line is left alone by what happens after it.
Beneath(a, lines, c) == NextSegment(<<a>> \o lines, c) = <<a>> \o NextSegment(lines, c)

\* One more byte leaves the line in front alone.
LEMMA NextSegmentTail ==
    ASSUME NEW S, NEW a \in Seq(S \ {LF}), NEW lines \in Seq(Seq(S \ {LF})), lines # <<>>, NEW c \in S
    PROVE  Beneath(a, lines, c)
  <1> DEFINE P == Seq(S \ {LF})
             more == <<a>> \o lines
             n == Len(lines)
             x == NextSegment(more, c)
             y == NextSegment(lines, c)
             z == <<a>> \o y
  <1>1. <<a>> \in Seq(P) /\ Len(<<a>>) = 1 /\ <<a>>[1] = a /\ n \in Nat /\ n # 0
    BY EmptySeq, LenProperties
  <1> DEFINE one == <<a>>
  <1> HIDE DEF one, P
  <1>2. /\ more \in Seq(P) /\ Len(more) = n + 1 /\ more[1] = a
        /\ \A i \in 1..n : more[i + 1] = lines[i]
    <2>1. lines \in Seq(P) /\ one \in Seq(P) /\ Len(one) = 1 /\ one[1] = a /\ more = one \o lines
      BY <1>1 DEF one, P
    <2>2. /\ one \o lines \in Seq(P) /\ Len(one \o lines) = Len(one) + n
          /\ \A i \in 1..(Len(one) + n) : (one \o lines)[i] = IF i <= Len(one) THEN one[i] ELSE lines[i - Len(one)]
      BY <2>1, ConcatProperties
    <2> HIDE DEF more, n
    <2>3. ASSUME NEW i \in 1..n PROVE more[i + 1] = lines[i]
      <3>1. i + 1 \in 1..(Len(one) + n) /\ ~(i + 1 <= Len(one)) /\ (i + 1) - Len(one) = i
        BY <1>1, <2>1
      <3> QED
        BY <2>1, <2>2, <3>1
    <2>4. more[1] = a
      <3>1. 1 \in 1..(Len(one) + n) /\ 1 <= Len(one)
        BY <1>1, <2>1
      <3> QED
        BY <2>1, <2>2, <3>1
    <2> QED
      BY <1>1, <2>1, <2>2, <2>3, <2>4
  <1>3. more # <<>>
    BY <1>1, <1>2, EmptySeq
  <1>4. /\ x \in Seq(P) /\ Len(x) = (IF c = LF THEN n + 2 ELSE n + 1)
        /\ \A i \in 1..n : x[i] = more[i]
        /\ c = LF => x[n + 1] = more[n + 1] /\ x[n + 2] = <<>>
        /\ c # LF => x[n + 1] = Append(more[n + 1], c)
    <2> HIDE DEF more, n
    <2>1. x \in Seq(P) /\ Grown(more, c, x)
      <3>1. more \in Seq(Seq(S \ {LF})) /\ more # <<>>
        BY <1>2, <1>3 DEF P
      <3> QED
        BY <3>1, NextSegmentFacts DEF P
    <2>2. Len(more) - 1 = n /\ Len(more) + 1 = n + 2
      BY <1>1, <1>2
    <2> HIDE DEF x
    <2> QED
      BY <1>2, <2>1, <2>2 DEF Grown
  <1>5. /\ y \in Seq(P) /\ Len(y) = (IF c = LF THEN n + 1 ELSE n)
        /\ \A i \in 1..(n - 1) : y[i] = lines[i]
        /\ c = LF => y[n] = lines[n] /\ y[n + 1] = <<>>
        /\ c # LF => y[n] = Append(lines[n], c)
    <2>1. y \in Seq(P) /\ Grown(lines, c, y)
      BY NextSegmentFacts DEF P
    <2> HIDE DEF y
    <2> QED
      BY <2>1 DEF Grown
  <1>6. /\ z \in Seq(P) /\ Len(z) = Len(y) + 1 /\ z[1] = a
        /\ \A i \in 1..Len(y) : z[i + 1] = y[i]
    <2>1. y \in Seq(P) /\ one \in Seq(P) /\ Len(one) = 1 /\ one[1] = a /\ z = one \o y /\ Len(y) \in Nat
      BY <1>1, <1>5 DEF one, P
    <2> HIDE DEF y, z
    <2>2. /\ one \o y \in Seq(P) /\ Len(one \o y) = Len(one) + Len(y)
          /\ \A i \in 1..(Len(one) + Len(y)) : (one \o y)[i] = IF i <= Len(one) THEN one[i] ELSE y[i - Len(one)]
      BY <2>1, ConcatProperties
    <2>3. ASSUME NEW i \in 1..Len(y) PROVE z[i + 1] = y[i]
      <3>1. i + 1 \in 1..(Len(one) + Len(y)) /\ ~(i + 1 <= Len(one)) /\ (i + 1) - Len(one) = i
        BY <2>1
      <3> QED
        BY <2>1, <2>2, <3>1
    <2>4. z[1] = a
      <3>1. 1 \in 1..(Len(one) + Len(y)) /\ 1 <= Len(one)
        BY <2>1
      <3> QED
        BY <2>1, <2>2, <3>1
    <2> QED
      BY <2>1, <2>2, <2>3, <2>4
  <1> HIDE DEF more, n, x, y, z
  <1>7. Len(x) = Len(z)
    BY <1>1, <1>4, <1>5, <1>6
  <1>8. ASSUME NEW i \in 1..Len(x) PROVE x[i] = z[i]
    <2>1. CASE i = 1 /\ n >= 1
      BY <1>1, <1>2, <1>4, <1>6, <2>1
    <2>2. CASE i # 1 /\ i <= n
      <3>1. i - 1 \in 1..(n - 1) /\ i - 1 \in 1..n /\ i - 1 \in 1..Len(y) /\ (i - 1) + 1 = i /\ i \in 1..n
        BY <1>1, <1>5, <2>2
      <3>2. x[i] = more[i] /\ more[(i - 1) + 1] = lines[i - 1]
        BY <1>2, <1>4, <3>1
      <3>3. z[(i - 1) + 1] = y[i - 1] /\ y[i - 1] = lines[i - 1]
        BY <1>5, <1>6, <3>1
      <3> QED
        BY <3>1, <3>2, <3>3
    <2>3. CASE i = n + 1
      <3>1. n \in 1..n /\ n \in 1..Len(y)
        BY <1>1, <1>5, SMTT(30)
      <3> QED
        BY <1>2, <1>4, <1>5, <1>6, <3>1, <2>3
    <2>4. CASE i = n + 2
      <3>1. c = LF /\ n + 1 \in 1..Len(y) /\ (n + 1) + 1 = i
        BY <1>1, <1>4, <1>5, <2>4
      <3> QED
        BY <1>4, <1>5, <1>6, <3>1, <2>4
    <2> QED
      BY <1>1, <1>4, <2>1, <2>2, <2>3, <2>4
  <1>9. x = z
    BY <1>4, <1>6, <1>7, <1>8, SeqEqual
  <1> QED
    BY <1>9 DEF x, y, z, more, Beneath

\* A payload is its first line alone, or that line, a line feed and the rest.
FirstOf(S, s) ==
    \/ s \in Seq(S \ {LF}) /\ Segments(s) = <<s>>
    \/ \E a \in Seq(S \ {LF}), b \in Seq(S) :
          s = (a \o <<LF>>) \o b /\ Segments(s) = <<a>> \o Segments(b)

\* Every payload is one of these.
LEMMA FirstSegment ==
    ASSUME NEW S, LF \in S, NEW s \in Seq(S)
    PROVE  FirstOf(S, s)
  <1> DEFINE P == Seq(S \ {LF})
             Alone(d) == d \in P /\ Segments(d) = <<d>>
             Split(d, a, b) == d = (a \o <<LF>>) \o b /\ Segments(d) = <<a>> \o Segments(b)
             T == {d \in Seq(S) : Alone(d) \/ \E a \in P, b \in Seq(S) : Split(d, a, b)}
             none == <<>>
  <1>1. none \in T
    <2>1. Alone(<<>>)
      BY SegmentsEmpty, EmptySeq
    <2> HIDE DEF Alone
    <2> QED
      BY <2>1, EmptySeq
  <1>2. \A a \in P : a \in Seq(S) /\ a \o <<LF>> \in Seq(S) /\ a \o <<LF>> = Append(a, LF)
    <2>1. \A a \in P : a \in Seq(S)
      OBVIOUS
    <2>2. ASSUME NEW a \in Seq(S) PROVE a \o <<LF>> \in Seq(S) /\ a \o <<LF>> = Append(a, LF)
      OBVIOUS
    <2> QED
      BY <2>1, <2>2
  <1>3. ASSUME NEW d \in Seq(S), NEW x \in S, d \in T PROVE Append(d, x) \in T
    <2>0. Append(d, x) \in Seq(S) /\ Segments(Append(d, x)) = NextSegment(Segments(d), x)
      BY SegmentsStep, AppendProperties
    <2>1. CASE Alone(d) /\ x = LF
      <3>1. Append(d, x) = (d \o <<LF>>) \o none
        <4>1. Append(d, x) = d \o <<LF>> /\ d \o <<LF>> \in Seq(S)
          BY <1>2, <2>1
        <4>2. (d \o <<LF>>) \o none = d \o <<LF>>
          BY <4>1, ConcatEmptySeq
        <4> QED
          BY <4>1, <4>2
      <3>2. Segments(Append(d, x)) = <<d>> \o Segments(none)
        <4>1. Segments(Append(d, x)) = Append(<<d>>, <<>>)
          BY <2>0, <2>1 DEF NextSegment
        <4>2. Append(<<d>>, <<>>) = <<d>> \o <<<<>>>>
          OBVIOUS
        <4> QED
          BY <4>1, <4>2, SegmentsEmpty
      <3>3. none \in Seq(S) /\ d \in P
        BY <2>1, EmptySeq
      <3>4. Split(Append(d, x), d, none)
        BY <3>1, <3>2
      <3> HIDE DEF Split, none, P
      <3> QED
        BY <2>0, <3>3, <3>4
    <2>2. CASE Alone(d) /\ x # LF
      <3>1. Append(d, x) \in P
        BY <2>2, AppendProperties
      <3>2. Segments(Append(d, x)) = <<Append(d, x)>>
        <4>1. NextSegment(<<d>>, x) = [<<d>> EXCEPT ![Len(<<d>>)] = Append(@, x)]
          BY <2>2 DEF NextSegment
        <4>2. [<<d>> EXCEPT ![Len(<<d>>)] = Append(@, x)] = <<Append(d, x)>>
          <5> DEFINE e == Append(d, x)
          <5>1. [<<d>> EXCEPT ![1] = Append(<<d>>[1], x)] = [<<d>> EXCEPT ![1] = e]
            OBVIOUS
          <5> HIDE DEF e
          <5>2. [<<d>> EXCEPT ![1] = e] = <<e>>
            OBVIOUS
          <5> QED
            BY <5>1, <5>2 DEF e
        <4> QED
          BY <2>0, <2>2, <4>1, <4>2
      <3>3. Alone(Append(d, x))
        BY <3>1, <3>2
      <3> HIDE DEF Alone, Split
      <3> QED
        BY <2>0, <3>3
    <2>3. ASSUME NEW a \in P, NEW b \in Seq(S), Split(d, a, b) PROVE Append(d, x) \in T
      <3>1. Append(d, x) = (a \o <<LF>>) \o Append(b, x)
        <4> DEFINE c == a \o <<LF>>
        <4>1. c \in Seq(S) /\ d = c \o b
          BY <1>2, <2>3
        <4> HIDE DEF c
        <4>2. c \o Append(b, x) = Append(c \o b, x)
          BY <4>1, ConcatStep
        <4> QED
          BY <4>1, <4>2 DEF c
      <3>2. Segments(b) \in Seq(P) /\ Segments(b) # <<>>
        BY SegmentsType
      <3>3. Segments(Append(d, x)) = <<a>> \o Segments(Append(b, x))
        <4>1. NextSegment(<<a>> \o Segments(b), x) = <<a>> \o NextSegment(Segments(b), x)
          <5> DEFINE lines == Segments(b)
          <5>1. lines \in Seq(Seq(S \ {LF})) /\ lines # <<>> /\ a \in Seq(S \ {LF})
            BY <3>2
          <5> HIDE DEF lines
          <5>2. Beneath(a, lines, x)
            BY <5>1, NextSegmentTail
          <5> QED
            BY <5>2 DEF lines, Beneath
        <4>2. Segments(Append(b, x)) = NextSegment(Segments(b), x)
          BY SegmentsStep
        <4>3. Segments(d) = <<a>> \o Segments(b)
          BY <2>3
        <4> QED
          BY <2>0, <4>1, <4>2, <4>3
      <3>4. Append(b, x) \in Seq(S)
        BY AppendProperties
      <3>5. Split(Append(d, x), a, Append(b, x))
        BY <3>1, <3>3
      <3> HIDE DEF Split, P
      <3> QED
        BY <2>0, <3>4, <3>5
    <2> HIDE DEF Alone, Split
    <2> QED
      BY <1>3, <2>1, <2>2, <2>3
  <1> HIDE DEF T, none
  <1>4. \A d \in Seq(S) : d \in T
    <2>1. <<>> \in T
      BY <1>1 DEF none
    <2> QED
      BY <1>3, <2>1, SeqSetInduction
  <1> QED
    BY <1>4 DEF T, FirstOf

\* A line feed and a value without one add a line; a value alone adds none.
LEMMA SegmentsCount ==
    ASSUME NEW S, LF \in S, NEW d \in Seq(S), NEW v \in Seq(S \ {LF})
    PROVE  /\ Len(Segments(v)) = 1
           /\ Len(Segments((d \o <<LF>>) \o v)) = Len(Segments(d)) + 1
  <1>1. ASSUME NEW c \in Seq(S)
        PROVE  \A u \in Seq(S \ {LF}) : u \in {w \in Seq(S) : c \o w \in Seq(S) /\ Len(Segments(c \o w)) = Len(Segments(c))}
    <2> DEFINE T == {w \in Seq(S) : c \o w \in Seq(S) /\ Len(Segments(c \o w)) = Len(Segments(c))}
               none == <<>>
    <2>1. none \in T
      <3>1. c \o none = c /\ none \in Seq(S)
        BY ConcatEmptySeq, EmptySeq
      <3> HIDE DEF none
      <3> QED
        BY <3>1
    <2>2. ASSUME NEW w \in Seq(S \ {LF}), NEW x \in S \ {LF}, w \in T PROVE Append(w, x) \in T
      <3>1. w \in Seq(S) /\ x \in S /\ x # LF /\ c \o w \in Seq(S)
        BY <2>2
      <3>2. c \o Append(w, x) = Append(c \o w, x)
        BY <3>1, ConcatStep
      <3> DEFINE m == c \o w
      <3>3. Segments(Append(m, x)) = NextSegment(Segments(m), x)
        BY <3>1, SegmentsStep
      <3>4. Segments(m) \in Seq(Seq(S \ {LF})) /\ Segments(m) # <<>>
        BY <3>1, SegmentsType
      <3>5. Grown(Segments(m), x, NextSegment(Segments(m), x))
        BY <3>1, <3>4, NextSegmentFacts
      <3>6. Len(NextSegment(Segments(m), x)) = Len(Segments(m))
        BY <3>1, <3>5 DEF Grown
      <3>7. Append(m, x) \in Seq(S) /\ Append(w, x) \in Seq(S)
        BY <3>1, AppendProperties
      <3> QED
        BY <2>2, <3>2, <3>3, <3>6, <3>7
    <2> HIDE DEF T
    <2> QED
      <3>1. <<>> \in T
        BY <2>1
      <3>2. \A u \in Seq(S \ {LF}) : u \in T
        BY <2>2, <3>1, SeqSetInduction
      <3> QED
        BY <3>2 DEF T
  <1>2. Len(Segments(v)) = 1
    <2> DEFINE none == <<>>
    <2>1. none \in Seq(S) /\ Len(Segments(none)) = 1 /\ none \o v = v
      BY SegmentsEmpty, EmptySeq, ConcatEmptySeq
    <2> HIDE DEF none
    <2>2. Len(Segments(none \o v)) = Len(Segments(none))
      BY <1>1, <2>1
    <2> QED
      BY <2>1, <2>2
  <1>3. d \o <<LF>> \in Seq(S) /\ d \o <<LF>> = Append(d, LF)
    OBVIOUS
  <1>4. Len(Segments(Append(d, LF))) = Len(Segments(d)) + 1
    <2>1. Segments(Append(d, LF)) = NextSegment(Segments(d), LF)
      BY SegmentsStep
    <2>2. Grown(Segments(d), LF, NextSegment(Segments(d), LF))
      BY SegmentsType, NextSegmentFacts
    <2> QED
      BY <2>1, <2>2 DEF Grown
  <1>5. Len(Segments((d \o <<LF>>) \o v)) = Len(Segments(d \o <<LF>>))
    BY <1>1, <1>3
  <1> QED
    BY <1>2, <1>3, <1>4, <1>5

-----------------------------------------------------------------------------
(* The wire: lines and their ends.                                          *)

\* The bytes of a line, and those of the wire.
Plain == {"ev", "ent", "da", "ta", "id", ":", SP, "x"}
Bytes == Plain \cup {LF, CR}

\* A line has none of the bytes that end one.
LEMMA PlainBytes ==
    /\ Seq(Plain) \subseteq Seq(Bytes)
    /\ \A eol \in LineEnds : eol \in Seq(Bytes) /\ Len(eol) \in 1..2
    /\ LF \notin Plain /\ CR \notin Plain /\ LF # CR
    /\ Plain \subseteq Bytes /\ LF \in Bytes /\ CR \in Bytes /\ Bytes \ {LF} = Plain \cup {CR}
  <1>1. LF \notin Plain /\ CR \notin Plain /\ LF # CR
    BY DEF Plain, LF, CR, SP
  <1>2. Plain \subseteq Bytes /\ LF \in Bytes /\ CR \in Bytes /\ Bytes \ {LF} = Plain \cup {CR}
    BY <1>1 DEF Bytes
  <1>3. \A s \in Seq(Plain) : s \in Seq(Bytes)
    BY <1>2
  <1>4. \A a, b \in Bytes : <<a>> \in Seq(Bytes) /\ Len(<<a>>) = 1 /\ <<a, b>> \in Seq(Bytes) /\ Len(<<a, b>>) = 2
    OBVIOUS
  <1>5. ASSUME NEW eol \in LineEnds PROVE eol \in Seq(Bytes) /\ Len(eol) \in 1..2
    <2>1. eol = <<LF>> \/ eol = <<CR, LF>> \/ eol = <<CR>>
      BY Zenon DEF LineEnds
    <2>2. CASE eol = <<LF>>
      BY <1>2, <1>4, <2>2
    <2>3. CASE eol = <<CR, LF>>
      BY <1>2, <1>4, <2>3
    <2>4. CASE eol = <<CR>>
      BY <1>2, <1>4, <2>4
    <2> QED
      BY <2>1, <2>2, <2>3, <2>4
  <1> QED
    BY <1>1, <1>2, <1>3, <1>5

\* TextLines one after the other, each with its end.
Ended(line, eol) == line \o eol
Joined(lines, eol) == FlattenSeq([n \in DOMAIN lines |-> Ended(lines[n], eol)])

TextLines == Seq(Seq(Plain))

\* One more line on the wire.
LEMMA JoinedStep ==
    ASSUME NEW ls \in TextLines, NEW l \in Seq(Plain), NEW eol \in LineEnds
    PROVE  /\ Joined(<<>>, eol) = <<>>
           /\ Joined(Append(ls, l), eol) = Joined(ls, eol) \o (l \o eol)
           /\ Joined(ls, eol) \in Seq(Bytes) /\ l \o eol \in Seq(Bytes)
           /\ Joined(<<>>, eol) \in Seq(Bytes)
  <1> DEFINE W(s) == [n \in DOMAIN s |-> Ended(s[n], eol)]
             more == Append(ls, l)
             n == Len(ls)
             e == Ended(l, eol)
             B == Seq(Bytes)
  <1>1. e \in B /\ \A i \in 1..n : Ended(ls[i], eol) \in B
    <2>1. \A s \in Seq(Plain) : Ended(s, eol) \in B
      BY PlainBytes, ConcatProperties DEF Ended
    <2> QED
      BY <2>1 DEF TextLines
  <1>2. /\ n \in Nat /\ DOMAIN ls = 1..n /\ DOMAIN more = 1..(n + 1)
        /\ more[n + 1] = l /\ \A i \in 1..n : more[i] = ls[i]
    BY DEF TextLines
  <1> HIDE DEF B, e, n, more
  <1>3. W(ls) \in Seq(B) /\ Len(W(ls)) = n /\ \A i \in 1..n : W(ls)[i] = Ended(ls[i], eol)
    BY <1>1, <1>2
  <1>4. W(more) \in Seq(B) /\ Len(W(more)) = n + 1 /\ W(more)[n + 1] = e
        /\ \A i \in 1..n : W(more)[i] = Ended(ls[i], eol)
    <2>1. \A i \in 1..(n + 1) : Ended(more[i], eol) = (IF i = n + 1 THEN e ELSE Ended(ls[i], eol))
      BY <1>2 DEF e
    <2>2. \A i \in 1..(n + 1) : Ended(more[i], eol) \in B
      BY <1>1, <1>2, <2>1
    <2> QED
      BY <1>1, <1>2, <2>1, <2>2
  <1>5. W(more) = Append(W(ls), e)
    <2> DEFINE a == W(ls)
               b == W(more)
    <2>1. a \in Seq(B) /\ Len(a) = n /\ b \in Seq(B) /\ Len(b) = n + 1 /\ b[n + 1] = e
          /\ \A i \in 1..n : b[i] = a[i]
      BY <1>3, <1>4
    <2> HIDE DEF a, b
    <2>2. /\ Append(a, e) \in Seq(B) /\ Len(Append(a, e)) = n + 1 /\ Append(a, e)[n + 1] = e
          /\ \A i \in 1..n : Append(a, e)[i] = a[i]
      BY <1>1, <2>1, AppendProperties
    <2> DEFINE c == Append(a, e)
    <2> HIDE DEF c
    <2>3. c \in Seq(B) /\ Len(c) = n + 1 /\ \A i \in 1..(n + 1) : b[i] = c[i]
      BY <2>1, <2>2, <1>2 DEF c
    <2>4. b = c
      BY <2>1, <2>3, SeqEqual
    <2> QED
      BY <2>4 DEF a, b, c
  <1>6. /\ FlattenSeq(<<>>) = <<>>
        /\ FlattenSeq(Append(W(ls), e)) = FlattenSeq(W(ls)) \o e
        /\ FlattenSeq(W(ls)) \in B
    <2> DEFINE a == W(ls)
    <2>1. a \in Seq(Seq(Bytes)) /\ e \in Seq(Bytes)
      BY <1>1, <1>3 DEF B
    <2> HIDE DEF a
    <2> QED
      BY <2>1, FlattenStep DEF a, B
  <1>7. Joined(<<>>, eol) = <<>>
    <2>1. W(<<>>) = <<>>
      OBVIOUS
    <2> QED
      BY <2>1, <1>6 DEF Joined
  <1>8. <<>> \in Seq(Bytes)
    OBVIOUS
  <1> QED
    BY <1>1, <1>5, <1>6, <1>7, <1>8 DEF Joined, more, e, B, Ended

\* TextLines after lines make their wires one after the other.
LEMMA JoinedConcat ==
    ASSUME NEW a \in TextLines, NEW b \in TextLines, NEW eol \in LineEnds
    PROVE  Joined(a \o b, eol) = Joined(a, eol) \o Joined(b, eol)
  <1> DEFINE T == {t \in TextLines : a \o t \in TextLines /\ Joined(a \o t, eol) = Joined(a, eol) \o Joined(t, eol)}
             none == <<>>
             P == Seq(Plain)
  <1>0. none \in P /\ a \in Seq(P) /\ none \in Seq(P)
    BY DEF TextLines
  <1>1. none \in T
    <2>1. a \o none = a /\ Joined(none, eol) = none /\ Joined(a, eol) \in Seq(Bytes)
      BY <1>0, JoinedStep, ConcatEmptySeq
    <2>2. Joined(a, eol) \o none = Joined(a, eol)
      BY <2>1, ConcatEmptySeq
    <2> HIDE DEF none, P
    <2> QED
      BY <1>0, <2>1, <2>2 DEF TextLines, P
  <1>2. ASSUME NEW t \in Seq(P), NEW x \in P, t \in T PROVE Append(t, x) \in T
    <2>1. t \in TextLines /\ a \o t \in TextLines
      BY <1>2
    <2>2. a \o Append(t, x) = Append(a \o t, x)
      BY <1>0, ConcatStep
    <2>3. Append(t, x) \in TextLines /\ Append(a \o t, x) \in TextLines
      BY <2>1, AppendProperties DEF TextLines
    <2>4. /\ Joined(Append(a \o t, x), eol) = Joined(a \o t, eol) \o (x \o eol)
          /\ Joined(Append(t, x), eol) = Joined(t, eol) \o (x \o eol)
          /\ Joined(a, eol) \in Seq(Bytes) /\ Joined(t, eol) \in Seq(Bytes) /\ x \o eol \in Seq(Bytes)
      BY <2>1, JoinedStep
    <2>5. Joined(a \o t, eol) = Joined(a, eol) \o Joined(t, eol)
      BY <1>2
    <2>6. (Joined(a, eol) \o Joined(t, eol)) \o (x \o eol) = Joined(a, eol) \o (Joined(t, eol) \o (x \o eol))
      <3> DEFINE u == Joined(a, eol)
                 v == Joined(t, eol)
                 w == x \o eol
      <3>1. u \in Seq(Bytes) /\ v \in Seq(Bytes) /\ w \in Seq(Bytes)
        BY <2>4
      <3> HIDE DEF u, v, w
      <3>2. (u \o v) \o w = u \o (v \o w)
        <4>1. Grouped(u, v, w)
          BY <3>1, ConcatThree
        <4> QED
          BY <4>1 DEF Grouped
      <3> QED
        BY <3>2 DEF u, v, w
    <2> QED
      BY <2>2, <2>3, <2>4, <2>5, <2>6
  <1> HIDE DEF T, P
  <1>3. \A t \in Seq(P) : t \in T
    <2>1. <<>> \in T
      BY <1>1
    <2> QED
      BY <1>2, <2>1, SeqSetInduction
  <1> QED
    BY <1>3 DEF T, P, TextLines

\* The wire begins with its first line, and no line begins with an end.
LEMMA JoinedFirst ==
    ASSUME NEW h \in Seq(Plain), NEW r \in TextLines, NEW eol \in LineEnds
    PROVE  /\ <<h>> \o r \in TextLines
           /\ Joined(<<h>> \o r, eol) = (h \o eol) \o Joined(r, eol)
           /\ Joined(r, eol) \in Seq(Bytes)
  <1> DEFINE one == <<h>>
             none == <<>>
             P == Seq(Plain)
  <1>1. one \in TextLines /\ one = Append(none, h) /\ none \in TextLines
    BY DEF TextLines
  <1>2. h \o eol \in Seq(Bytes) /\ none \o (h \o eol) = h \o eol
    BY <1>1, JoinedStep, ConcatEmptySeq
  <1>3. Joined(none, eol) = none
    BY <1>1, JoinedStep
  <1>4. one \o r \in TextLines
    BY <1>1, ConcatProperties DEF TextLines
  <1> HIDE DEF one, none
  <1>5. Joined(one, eol) = h \o eol
    BY <1>1, <1>2, <1>3, JoinedStep, ZenonT(60)
  <1>6. Joined(one \o r, eol) = Joined(one, eol) \o Joined(r, eol)
    BY <1>1, JoinedConcat
  <1>7. Joined(r, eol) \in Seq(Bytes)
    BY JoinedStep
  <1> QED
    BY <1>4, <1>5, <1>6, <1>7 DEF one

-----------------------------------------------------------------------------
(* readLine and splitField.                                                 *)

\* t begins with s.
Begins(s, t) == Len(s) <= Len(t) /\ \A i \in 1..Len(s) : s[i] = t[i]

\* A set of numbers that is not empty has its least one.
LEMMA MinNat ==
    ASSUME NEW T, T \subseteq Nat, T # {}
    PROVE  Min(T) \in T /\ \A k \in T : Min(T) <= k
  <1>1. \E m \in T : \A k \in T : m <= k
    BY LeastNat
  <1> QED
    BY <1>1 DEF Min

\* The line in front goes as far as the first end.
LEMMA LineLenFacts ==
    ASSUME NEW R \in Seq(Bytes)
    PROVE  /\ LineLen(R) \in 0..Len(R)
           /\ \A i \in 1..LineLen(R) : R[i] \in Plain
           /\ LineLen(R) < Len(R) => R[LineLen(R) + 1] \in {LF, CR}
  <1> DEFINE ends == {k \in DOMAIN R : R[k] \in {LF, CR}}
             n == LineLen(R)
  <1>1. Len(R) \in Nat /\ DOMAIN R = 1..Len(R) /\ \A i \in 1..Len(R) : R[i] \in Plain \/ R[i] \in {LF, CR}
    BY DEF Bytes
  <1>2. n = IF ends = {} THEN Len(R) ELSE Min(ends) - 1
    BY DEF LineLen
  <1>3. CASE ends = {}
    <2>1. n = Len(R) /\ \A i \in 1..Len(R) : R[i] \in Plain
      BY <1>1, <1>2, <1>3
    <2> HIDE DEF n
    <2> QED
      BY <1>1, <2>1 DEF n
  <1>4. CASE ends # {}
    <2>1. ends \subseteq Nat
      BY <1>1
    <2> HIDE DEF ends
    <2>2. Min(ends) \in ends /\ \A k \in ends : Min(ends) <= k
      BY <1>4, <2>1, MinNat
    <2>3. Min(ends) \in 1..Len(R) /\ R[Min(ends)] \in {LF, CR}
      BY <1>1, <2>2 DEF ends
    <2>4. n = Min(ends) - 1
      BY <1>2, <1>4
    <2>5. \A i \in 1..(Min(ends) - 1) : R[i] \in Plain
      <3> SUFFICES ASSUME NEW i \in 1..(Min(ends) - 1) PROVE R[i] \in Plain
        OBVIOUS
      <3>1. i \in 1..Len(R) /\ ~(Min(ends) <= i)
        BY <2>3, <1>1
      <3>2. i \notin ends
        BY <2>2, <3>1
      <3> QED
        BY <1>1, <3>1, <3>2 DEF ends
    <2> HIDE DEF n
    <2>6. n + 1 = Min(ends) /\ n \in 0..Len(R)
      BY <1>1, <2>3, <2>4
    <2> QED
      BY <2>3, <2>4, <2>5, <2>6 DEF n
  <1> QED
    BY <1>3, <1>4

\* From a wire that may be cut, readLine takes the first line, or what there is
\* of it, and leaves the wire after it, cut where it was.
LEMMA ReadLine ==
    ASSUME NEW R \in Seq(Bytes), NEW h \in Seq(Plain), NEW J \in Seq(Bytes), NEW eol \in LineEnds,
           J # <<>> /\ eol = <<CR>> => J[1] # LF,
           Begins(R, (h \o eol) \o J)
    PROVE  LET l == SubSeq(R, 1, LineLen(R)) IN
           /\ l \in Seq(Plain) /\ AfterLine(R) \in Seq(Bytes)
           /\ Len(R) <= Len(h) => l = R /\ AfterLine(R) = <<>> /\ Begins(R, h)
           /\ Len(R) > Len(h) => l = h /\ Begins(AfterLine(R), J)
           /\ R = (h \o eol) \o J => AfterLine(R) = J /\ Len(R) > Len(h)
  <1> DEFINE n == LineLen(R)
             l == SubSeq(R, 1, n)
             K == Len(h)
             E == Len(eol)
             W == (h \o eol) \o J
             m == Len(R)
             crlf == n + 2 <= m /\ R[n + 1] = CR /\ R[n + 2] = LF
             p == n + (IF crlf THEN 3 ELSE 2)
             A == AfterLine(R)
  <1>1. /\ m \in Nat /\ K \in Nat /\ E \in 1..2 /\ Len(J) \in Nat
        /\ \A i \in 1..m : R[i] \in Bytes
        /\ \A i \in 1..K : h[i] \in Plain
    BY PlainBytes
  <1>2. /\ Len(W) = K + E + Len(J)
        /\ \A i \in 1..K : W[i] = h[i]
        /\ \A i \in 1..E : W[K + i] = eol[i]
        /\ \A i \in 1..Len(J) : W[K + E + i] = J[i]
        /\ W \in Seq(Bytes)
    <2> DEFINE V == h \o eol
    <2>1. h \in Seq(Bytes) /\ eol \in Seq(Bytes)
      BY PlainBytes
    <2>2. /\ V \in Seq(Bytes) /\ Len(V) = K + E
          /\ \A i \in 1..(K + E) : V[i] = IF i <= K THEN h[i] ELSE eol[i - K]
      BY <2>1, ConcatProperties
    <2> HIDE DEF V, K, E
    <2>3. /\ V \o J \in Seq(Bytes) /\ Len(V \o J) = Len(V) + Len(J)
          /\ \A i \in 1..(Len(V) + Len(J)) : (V \o J)[i] = IF i <= Len(V) THEN V[i] ELSE J[i - Len(V)]
      BY <2>2, ConcatProperties
    <2>4. W = V \o J
      BY DEF V
    <2> HIDE DEF W
    <2>5. ASSUME NEW i \in 1..K PROVE W[i] = h[i]
      <3>1. i \in 1..(Len(V) + Len(J)) /\ i <= Len(V) /\ i \in 1..(K + E) /\ i <= K
        BY <1>1, <2>2
      <3> QED
        BY <2>2, <2>3, <2>4, <3>1
    <2>6. ASSUME NEW i \in 1..E PROVE W[K + i] = eol[i]
      <3> DEFINE j == K + i
      <3>1. j \in 1..(Len(V) + Len(J)) /\ j <= Len(V) /\ j \in 1..(K + E) /\ ~(j <= K) /\ j - K = i
        BY <1>1, <2>2
      <3> HIDE DEF j
      <3>2. W[j] = V[j] /\ V[j] = eol[j - K]
        BY <2>2, <2>3, <2>4, <3>1
      <3> QED
        BY <3>1, <3>2 DEF j
    <2>7. ASSUME NEW i \in 1..Len(J) PROVE W[K + E + i] = J[i]
      <3>1. K + E + i \in 1..(Len(V) + Len(J)) /\ ~(K + E + i <= Len(V)) /\ (K + E + i) - Len(V) = i
        BY <1>1, <2>2
      <3> QED
        BY <2>2, <2>3, <2>4, <3>1
    <2> QED
      BY <2>2, <2>3, <2>4, <2>5, <2>6, <2>7
  <1>3. m <= K + E + Len(J) /\ \A i \in 1..m : R[i] = W[i]
    BY <1>2 DEF Begins
  <1>4. n \in 0..m /\ (\A i \in 1..n : R[i] \in Plain) /\ (n < m => R[n + 1] \in {LF, CR})
    BY LineLenFacts
  <1>5. /\ l \in Seq(Plain) /\ Len(l) = n /\ \A i \in 1..n : l[i] = R[i]
    <2>1. 1 \in Int /\ n \in Int /\ \A i \in 1..n : R[i] \in Plain
      BY <1>1, <1>4
    <2> HIDE DEF n
    <2>2. /\ l \in Seq(Plain) /\ Len(l) = (IF 1 <= n THEN n - 1 + 1 ELSE 0)
          /\ \A i \in 1..(n - 1 + 1) : l[i] = R[1 + i - 1]
      BY <2>1, SubSeqProperties
    <2> HIDE DEF l
    <2>3. n \in Nat
      BY <1>1, <1>4
    <2> QED
      BY <2>2, <2>3
  <1>6. A = SubSeq(R, p, m)
    BY DEF AfterLine
  <1>7. LF \notin Plain /\ CR \notin Plain /\ LF # CR
    BY PlainBytes
  <1>8. /\ \A i \in 1..E : eol[i] \in {LF, CR}
        /\ eol[1] = LF => E = 1
        /\ E = 2 => eol[1] = CR /\ eol[2] = LF
        /\ E = 1 /\ eol[1] = CR => eol = <<CR>>
    <2>1. eol = <<LF>> \/ eol = <<CR, LF>> \/ eol = <<CR>>
      BY Zenon DEF LineEnds
    <2>2. CASE eol = <<LF>>
      BY <1>7, <2>2
    <2>3. CASE eol = <<CR, LF>>
      BY <1>7, <2>3
    <2>4. CASE eol = <<CR>>
      BY <1>7, <2>4
    <2> QED
      BY <2>1, <2>2, <2>3, <2>4
  <1> HIDE DEF n, l, K, E, W, m
  <1>9. ASSUME m <= K PROVE l = R /\ A = <<>> /\ Begins(R, h)
    <2>1. \A i \in 1..m : R[i] \in Plain /\ R[i] = h[i]
      <3> SUFFICES ASSUME NEW i \in 1..m PROVE R[i] \in Plain /\ R[i] = h[i]
        OBVIOUS
      <3>1. i \in 1..K
        BY <1>1, <1>9
      <3> QED
        BY <1>1, <1>2, <1>3, <3>1
    <2>2. n = m
      <3> SUFFICES ASSUME n < m PROVE FALSE
        BY <1>1, <1>4
      <3>1. n + 1 \in 1..m /\ R[n + 1] \in {LF, CR}
        BY <1>1, <1>4
      <3> QED
        BY <1>7, <2>1, <3>1
    <2>3. l = R
      <3>1. l \in Seq(Bytes) /\ Len(l) = Len(R) /\ \A i \in 1..Len(l) : l[i] = R[i]
        BY <1>5, <2>2, PlainBytes DEF m
      <3> QED
        BY <3>1, SeqEqual
    <2>4. m < p /\ p \in Int /\ m \in Int
      BY <1>1, <1>4, <2>2
    <2> HIDE DEF p
    <2>5. A = <<>>
      BY <1>6, <2>4, SubSeqEmpty
    <2>6. Begins(R, h)
      BY <1>9, <2>1 DEF Begins, m, K
    <2> QED
      BY <2>3, <2>5, <2>6
  <1>10. ASSUME m > K
        PROVE  l = h /\ p \in Int /\ (p <= m => p = K + E + 1) /\ (m > K + E => p = K + E + 1)
    <2>1. n = K
      <3>1. \A i \in 1..K : R[i] \in Plain
        <4> SUFFICES ASSUME NEW i \in 1..K PROVE R[i] \in Plain
          OBVIOUS
        <4>1. i \in 1..m
          BY <1>1, <1>10
        <4> QED
          BY <1>1, <1>2, <1>3, <4>1
      <3>2. K + 1 \in 1..m /\ 1 \in 1..E /\ R[K + 1] \in {LF, CR}
        <4>1. K + 1 \in 1..m /\ 1 \in 1..E
          BY <1>1, <1>10
        <4> QED
          BY <1>2, <1>3, <1>8, <4>1
      <3>3. ~(n < K)
        <4> SUFFICES ASSUME n < K PROVE FALSE
          OBVIOUS
        <4>1. n + 1 \in 1..K /\ n < m
          BY <1>1, <1>4, <1>10
        <4> QED
          BY <1>4, <1>7, <3>1, <4>1
      <3>4. ~(n > K)
        <4> SUFFICES ASSUME n > K PROVE FALSE
          OBVIOUS
        <4>1. K + 1 \in 1..n
          BY <1>1, <1>4
        <4> QED
          BY <1>4, <1>7, <3>2, <4>1
      <3> QED
        BY <1>1, <1>4, <3>3, <3>4
    <2>2. l = h
      <3>1. \A i \in 1..K : l[i] = h[i]
        <4> SUFFICES ASSUME NEW i \in 1..K PROVE l[i] = h[i]
          OBVIOUS
        <4>1. i \in 1..m /\ i \in 1..n
          BY <1>1, <1>10, <2>1
        <4> QED
          BY <1>2, <1>3, <1>5, <4>1
      <3>2. Len(l) = Len(h) /\ \A i \in 1..Len(l) : l[i] = h[i]
        BY <1>5, <2>1, <3>1 DEF K
      <3> QED
        BY <1>5, <3>2, SeqEqual
    <2>3. R[K + 1] = eol[1]
      <3>1. K + 1 \in 1..m /\ 1 \in 1..E
        BY <1>1, <1>10
      <3> QED
        BY <1>2, <1>3, <3>1
    <2>4. E = 2 /\ K + 2 <= m => R[K + 2] = LF /\ R[K + 1] = CR
      <3> SUFFICES ASSUME E = 2, K + 2 <= m PROVE R[K + 2] = LF /\ R[K + 1] = CR
        OBVIOUS
      <3>1. K + 2 \in 1..m /\ 2 \in 1..E
        BY <1>1
      <3>2. W[K + 2] = eol[2]
        BY <1>2, <3>1
      <3> QED
        BY <1>3, <1>8, <2>3, <3>1, <3>2
    <2>5. E = 1 /\ K + 2 <= m => ~(R[K + 1] = CR /\ R[K + 2] = LF)
      <3> SUFFICES ASSUME E = 1, K + 2 <= m, R[K + 1] = CR PROVE R[K + 2] # LF
        OBVIOUS
      <3>1. K + 2 \in 1..m /\ 1 \in 1..Len(J) /\ K + E + 1 = K + 2
        BY <1>1, <1>3
      <3>2. R[K + 2] = J[1]
        BY <1>2, <1>3, <3>1
      <3>3. eol = <<CR>> /\ J # <<>>
        BY <1>8, <2>3, <3>1, EmptySeq
      <3> QED
        BY <3>2, <3>3
    <2>6. crlf <=> E = 2 /\ K + 2 <= m
      BY <1>1, <2>1, <2>4, <2>5
    <2>7. p \in Int /\ (p <= m => p = K + E + 1) /\ (m > K + E => p = K + E + 1)
      <3>1. CASE crlf
        <4>1. p = K + 3 /\ E = 2 /\ K + 2 <= m
          BY <2>1, <2>6, <3>1
        <4> QED
          BY <1>1, <4>1
      <3>2. CASE ~crlf
        <4>1. p = K + 2 /\ ~(E = 2 /\ K + 2 <= m)
          BY <2>1, <2>6, <3>2
        <4> HIDE DEF p
        <4> QED
          BY <1>1, <1>10, <4>1
      <3> QED
        BY <3>1, <3>2
    <2> QED
      BY <2>2, <2>7
  <1> HIDE DEF p, A
  <1>11. A \in Seq(Bytes) /\ (m > K => Begins(A, J)) /\ (m = Len(W) /\ m > K => A = J)
    <2>1. p \in Int /\ m \in Int /\ p \in Nat /\ p # 0
      BY <1>1, <1>4 DEF p
    <2>2. \A i \in p..m : R[i] \in Bytes
      BY <1>1, <2>1
    <2>3. /\ A \in Seq(Bytes) /\ Len(A) = (IF p <= m THEN m - p + 1 ELSE 0)
          /\ \A i \in 1..(m - p + 1) : A[i] = R[p + i - 1]
      BY <1>6, <2>1, <2>2, SubSeqProperties
    <2>4. ASSUME m > K PROVE Len(A) <= Len(J) /\ \A i \in 1..Len(A) : A[i] = J[i]
      <3>1. CASE p > m
        BY <1>1, <2>1, <2>3, <3>1
      <3>2. CASE p <= m
        <4>1. p = K + E + 1 /\ Len(A) = m - p + 1
          BY <1>10, <2>1, <2>3, <2>4, <3>2
        <4>2. Len(A) <= Len(J)
          BY <1>1, <1>3, <4>1
        <4>3. ASSUME NEW i \in 1..Len(A) PROVE A[i] = J[i]
          <5>1. i \in 1..Len(J) /\ i \in 1..(m - p + 1) /\ p + i - 1 = K + E + i /\ K + E + i \in 1..m
            BY <1>1, <1>3, <2>1, <3>2, <4>1
          <5> QED
            BY <1>2, <1>3, <2>3, <5>1
        <4> QED
          BY <4>2, <4>3
      <3> QED
        BY <1>1, <2>1, <3>1, <3>2
    <2>5. ASSUME m = Len(W), m > K PROVE A = J
      <3>1. Len(A) = Len(J)
        <4>1. CASE p > m
          <5>1. ~(m > K + E)
            BY <1>1, <1>10, <2>1, <2>5, <4>1
          <5>2. Len(J) = 0
            BY <1>1, <1>2, <2>5, <5>1
          <5> QED
            BY <2>1, <2>3, <4>1, <5>2
        <4>2. CASE p <= m
          <5>1. p = K + E + 1 /\ Len(A) = m - p + 1
            BY <1>10, <2>1, <2>3, <2>5, <4>2
          <5> QED
            BY <1>1, <1>2, <2>1, <2>5, <5>1
        <4> QED
          BY <1>1, <2>1, <4>1, <4>2
      <3> QED
        BY <2>3, <2>4, <2>5, <3>1, SeqEqual
    <2> QED
      BY <2>3, <2>4, <2>5 DEF Begins
  <1>12. R = W => m = Len(W) /\ m > K
    BY <1>1, <1>2 DEF m
  <1>13. \/ m <= K \/ m > K
    BY <1>1
  <1> QED
    BY <1>5, <1>9, <1>10, <1>11, <1>12, <1>13 DEF l, n, K, m, W, A


\* No line begins with a line feed, so a CR is never taken for half of a CRLF.
LEMMA JoinedByte ==
    ASSUME NEW r \in TextLines, NEW eol \in LineEnds, Joined(r, eol) # <<>>, eol = <<CR>>
    PROVE  Joined(r, eol)[1] # LF
  <1>1. CASE r = <<>>
    <2>1. r \in Seq(Plain)
      BY <1>1
    <2>2. Joined(<<>>, eol) = <<>>
      BY JoinedStep, <2>1
    <2> QED
      BY <1>1, <2>2
  <1>2. CASE r # <<>>
    <2> DEFINE h == Head(r)
               t == Tail(r)
               V == h \o eol
               J == Joined(t, eol)
    <2>1. h \in Seq(Plain) /\ t \in TextLines /\ r = <<h>> \o t
      <3>1. r \in Seq(Seq(Plain))
        BY DEF TextLines
      <3> QED
        BY <1>2, <3>1, HeadTailProperties DEF TextLines
    <2>2. Joined(r, eol) = V \o J /\ J \in Seq(Bytes)
      BY <2>1, JoinedFirst, ZenonT(60)
    <2>3. h \in Seq(Bytes) /\ eol \in Seq(Bytes) /\ Len(eol) = 1 /\ eol[1] = CR
      BY <2>1, PlainBytes
    <2>4. /\ V \in Seq(Bytes) /\ Len(V) = Len(h) + Len(eol)
          /\ \A i \in 1..(Len(h) + Len(eol)) : V[i] = IF i <= Len(h) THEN h[i] ELSE eol[i - Len(h)]
      BY <2>3, ConcatProperties
    <2>5. V[1] # LF
      <3>1. Len(h) \in Nat /\ (Len(h) >= 1 => h[1] \in Plain)
        BY <2>1
      <3>2. V[1] = IF 1 <= Len(h) THEN h[1] ELSE eol[1 - Len(h)]
        BY <2>3, <2>4, <3>1
      <3>3. CASE 1 <= Len(h)
        BY <3>1, <3>2, <3>3, PlainBytes
      <3>4. CASE ~(1 <= Len(h))
        <4>1. 1 - Len(h) = 1
          BY <3>1, <3>4
        <4> QED
          BY <2>3, <3>2, <3>4, <4>1, PlainBytes
      <3> QED
        BY <3>3, <3>4
    <2>6. Len(h) \in Nat
      BY <2>1
    <2> HIDE DEF V, J, h, t
    <2>0. Len(V) \in Nat /\ 1 <= Len(V) /\ Len(J) \in Nat
      BY <2>2, <2>3, <2>4, <2>6
    <2>7. /\ Len(V \o J) = Len(V) + Len(J)
          /\ \A i \in 1..(Len(V) + Len(J)) : (V \o J)[i] = IF i <= Len(V) THEN V[i] ELSE J[i - Len(V)]
      BY <2>2, <2>4, ConcatProperties
    <2>8. 1 \in 1..(Len(V) + Len(J))
      BY <2>0
    <2>9. (V \o J)[1] = V[1]
      BY <2>0, <2>7, <2>8
    <2> QED
      BY <2>2, <2>5, <2>9
  <1> QED
    BY <1>1, <1>2

\* Whatever a line is, its value has no line feed, and a name is what it begins with.
LEMMA SplitFacts ==
    ASSUME NEW l \in Seq(Plain), l # <<>>, l[1] # ":"
    PROVE  LET f == splitField(l) IN
           /\ f.value \in Seq(Plain)
           /\ f.name \in Seq(Plain) /\ f.name # <<>> /\ f.name[1] = l[1]
           /\ f.name = NameOf("data") => Len(l) >= 2 /\ l[2] = "ta"
           /\ f.name = NameOf("event") => Len(l) >= 2 /\ l[1] = "ev"
  <1> DEFINE colons == {k \in DOMAIN l : l[k] = ":"}
             i == IF colons = {} THEN Len(l) + 1 ELSE Min(colons)
             v == SubSeq(l, i + 1, Len(l))
             n == SubSeq(l, 1, i - 1)
             f == splitField(l)
  <1>1. Len(l) \in Nat /\ Len(l) >= 1 /\ DOMAIN l = 1..Len(l) /\ \A k \in 1..Len(l) : l[k] \in Plain
    BY EmptySeq
  <1>2. f.name = n /\ f.value = IF v # <<>> /\ v[1] = SP THEN Tail(v) ELSE v
    BY DEF splitField
  <1>3. i \in 2..(Len(l) + 1)
    <2>1. CASE colons = {}
      BY <1>1, <2>1
    <2>2. CASE colons # {}
      <3>1. colons \subseteq Nat
        BY <1>1
      <3>2. i = Min(colons)
        BY <2>2
      <3>3. Min(colons) \in colons
        <4> HIDE DEF colons
        <4> QED
          BY <2>2, <3>1, MinNat
      <3>4. i \in 1..Len(l) /\ l[i] = ":"
        <4> HIDE DEF i
        <4> QED
          BY <1>1, <3>2, <3>3
      <3>5. i # 1
        BY <3>4
      <3> HIDE DEF i
      <3> QED
        BY <1>1, <3>4, <3>5
    <2> QED
      BY <2>1, <2>2
  <1> HIDE DEF i, f
  <1>4. v \in Seq(Plain)
    <2>1. i + 1 \in Int /\ Len(l) \in Int /\ \A k \in (i + 1)..Len(l) : l[k] \in Plain
      BY <1>1, <1>3
    <2> QED
      BY <2>1, SubSeqProperties
  <1>5. /\ n \in Seq(Plain) /\ Len(n) = i - 1
        /\ \A k \in 1..(i - 1) : n[k] = l[k]
    <2>1. 1 \in Int /\ i - 1 \in Int /\ \A k \in 1..(i - 1) : l[k] \in Plain
      BY <1>1, <1>3
    <2>2. /\ n \in Seq(Plain) /\ Len(n) = (IF 1 <= i - 1 THEN (i - 1) - 1 + 1 ELSE 0)
          /\ \A k \in 1..((i - 1) - 1 + 1) : n[k] = l[1 + k - 1]
      BY <2>1, SubSeqProperties
    <2> HIDE DEF n
    <2> QED
      BY <1>3, <2>2
  <1> HIDE DEF v, n
  <1>6. f.value \in Seq(Plain)
    BY <1>2, <1>4, EmptySeq, HeadTailProperties
  <1>7. n # <<>> /\ n[1] = l[1]
    BY <1>3, <1>5
  <1>8. NameOf("data") = <<"da", "ta">> /\ NameOf("event") = <<"ev", "ent">>
    BY DEF NameOf
  <1>9. ASSUME Len(n) = 2 PROVE Len(l) >= 2 /\ n[2] = l[2] /\ n[1] = l[1]
    <2>0. i \in Int /\ i - 1 = Len(n) /\ i <= Len(l) + 1 /\ Len(l) \in Nat
      BY <1>1, <1>3, <1>5
    <2>1. i = 3 /\ Len(l) >= 2
      BY <1>9, <2>0
    <2>2. 2 \in 1..(i - 1) /\ 1 \in 1..(i - 1)
      BY <2>1
    <2>3. n[2] = l[2] /\ n[1] = l[1]
      BY <1>5, <2>2
    <2> QED
      BY <2>1, <2>3
  <1>10. n = NameOf("data") => Len(l) >= 2 /\ l[2] = "ta"
    <2> SUFFICES ASSUME n = NameOf("data") PROVE Len(l) >= 2 /\ l[2] = "ta"
      OBVIOUS
    <2>1. Len(n) = 2 /\ n[2] = "ta"
      BY <1>8
    <2> QED
      BY <1>9, <2>1
  <1>11. n = NameOf("event") => Len(l) >= 2 /\ l[1] = "ev"
    <2> SUFFICES ASSUME n = NameOf("event") PROVE Len(l) >= 2 /\ l[1] = "ev"
      OBVIOUS
    <2>1. Len(n) = 2 /\ n[1] = "ev"
      BY <1>8
    <2> QED
      BY <1>9, <2>1
  <1> QED
    BY <1>2, <1>5, <1>6, <1>7, <1>10, <1>11 DEF f

\* The bytes of a field's line.
LEMMA LineFacts ==
    ASSUME NEW field \in {"event", "data"}, NEW s \in Seq(Plain)
    PROVE  LET h == Line(field, s) IN
           /\ h \in Seq(Plain) /\ Len(h) = Len(s) + 4
           /\ NameOf(field) \in Seq(Plain) /\ Len(NameOf(field)) = 2
           /\ h[1] = NameOf(field)[1] /\ h[2] = NameOf(field)[2] /\ h[3] = ":" /\ h[4] = SP
           /\ \A i \in 1..Len(s) : h[i + 4] = s[i]
           /\ h[1] \in {"ev", "da"}
           /\ NameOf("data") # NameOf("event")
  <1> DEFINE n == NameOf(field)
             c == <<":", SP>>
             p == n \o c
             h == Line(field, s)
  <1>1. NameOf("data") = <<"da", "ta">> /\ NameOf("event") = <<"ev", "ent">>
    BY DEF NameOf
  <1>2. /\ n \in Seq(Plain) /\ Len(n) = 2 /\ n[1] \in {"ev", "da"}
        /\ NameOf("data") # NameOf("event")
    <2>1. <<"ev", "ent">> \in Seq(Plain) /\ <<"da", "ta">> \in Seq(Plain)
      <3>1. "ev" \in Plain /\ "ent" \in Plain /\ "da" \in Plain /\ "ta" \in Plain
        BY DEF Plain
      <3> QED
        BY <3>1
    <2>2. n = <<"ev", "ent">> \/ n = <<"da", "ta">>
      BY <1>1
    <2>3. <<"ev", "ent">> # <<"da", "ta">>
      OBVIOUS
    <2>4. NameOf("data") # NameOf("event")
      BY <1>1, <2>3
    <2> HIDE DEF n
    <2>5. n \in Seq(Plain)
      BY <2>1, <2>2
    <2>6. Len(n) = 2 /\ n[1] \in {"ev", "da"}
      BY <2>2
    <2> QED
      BY <2>4, <2>5, <2>6
  <1>3. c \in Seq(Plain) /\ Len(c) = 2 /\ c[1] = ":" /\ c[2] = SP
    <2>1. ":" \in Plain /\ SP \in Plain
      BY DEF Plain
    <2> QED
      BY <2>1
  <1>4. h = p \o s
    BY DEF Line
  <1> HIDE DEF n, c
  <1>5. /\ p \in Seq(Plain) /\ Len(p) = Len(n) + Len(c)
        /\ \A i \in 1..(Len(n) + Len(c)) : p[i] = IF i <= Len(n) THEN n[i] ELSE c[i - Len(n)]
    BY <1>2, <1>3, ConcatProperties
  <1> HIDE DEF p
  <1>6. Len(p) = 4 /\ p[1] = n[1] /\ p[2] = n[2] /\ p[3] = c[1] /\ p[4] = c[2]
    <2>1. /\ 1 \in 1..(Len(n) + Len(c)) /\ 2 \in 1..(Len(n) + Len(c))
          /\ 3 \in 1..(Len(n) + Len(c)) /\ 4 \in 1..(Len(n) + Len(c))
          /\ 3 - Len(n) = 1 /\ 4 - Len(n) = 2
      BY <1>2, <1>3
    <2> QED
      BY <1>2, <1>3, <1>5, <2>1
  <1>7. /\ h \in Seq(Plain) /\ Len(h) = Len(p) + Len(s)
        /\ \A i \in 1..(Len(p) + Len(s)) : h[i] = IF i <= Len(p) THEN p[i] ELSE s[i - Len(p)]
    <2>1. /\ p \o s \in Seq(Plain) /\ Len(p \o s) = Len(p) + Len(s)
          /\ \A i \in 1..(Len(p) + Len(s)) : (p \o s)[i] = IF i <= Len(p) THEN p[i] ELSE s[i - Len(p)]
      <3>1. p \in Seq(Plain) /\ s \in Seq(Plain)
        BY <1>5
      <3> QED
        BY <3>1, ConcatProperties
    <2> HIDE DEF h
    <2> QED
      BY <1>4, <2>1
  <1> HIDE DEF h
  <1>8. Len(s) \in Nat
    OBVIOUS
  <1>9. h[1] = p[1] /\ h[2] = p[2] /\ h[3] = p[3] /\ h[4] = p[4]
    <2>1. \A i \in 1..4 : h[i] = p[i]
      BY <1>6, <1>7, <1>8
    <2> QED
      BY <2>1
  <1>10. \A i \in 1..Len(s) : h[i + 4] = s[i]
    <2> SUFFICES ASSUME NEW i \in 1..Len(s) PROVE h[i + 4] = s[i]
      OBVIOUS
    <2>1. i + 4 \in 1..(Len(p) + Len(s)) /\ ~(i + 4 <= Len(p)) /\ (i + 4) - Len(p) = i
      BY <1>6, <1>8
    <2> QED
      BY <1>7, <2>1
  <1> QED
    BY <1>2, <1>3, <1>6, <1>7, <1>8, <1>9, <1>10 DEF h, n

\* The beginning of a field's line is a field of no interest while it stops
\* inside the name, and then the field with the beginning of the value.
LEMMA SplitLine ==
    ASSUME NEW field \in {"event", "data"}, NEW s \in Seq(Plain),
           NEW l \in Seq(Plain), l # <<>>, Begins(l, Line(field, s))
    PROVE  LET f == splitField(l) IN
           /\ l[1] # ":"
           /\ Len(l) = 1 => f.name # NameOf("data") /\ f.name # NameOf("event")
           /\ Len(l) >= 2 => f.name = NameOf(field) /\ Begins(f.value, s)
           /\ l = Line(field, s) => Len(l) >= 2 /\ f.value = s
  <1> DEFINE colons == {k \in DOMAIN l : l[k] = ":"}
             i == IF colons = {} THEN Len(l) + 1 ELSE Min(colons)
             v == SubSeq(l, i + 1, Len(l))
             n == SubSeq(l, 1, i - 1)
             f == splitField(l)
             h == Line(field, s)
             m == Len(l)
             name == NameOf(field)
  <1>1. /\ h \in Seq(Plain) /\ Len(h) = Len(s) + 4 /\ Len(s) \in Nat
        /\ h[1] = name[1] /\ h[2] = name[2] /\ h[3] = ":" /\ h[4] = SP
        /\ \A k \in 1..Len(s) : h[k + 4] = s[k]
        /\ h[1] # ":" /\ h[2] # ":"
        /\ name \in Seq(Plain) /\ Len(name) = 2
        /\ Len(NameOf("data")) = 2 /\ Len(NameOf("event")) = 2
    <2>1. NameOf("data") = <<"da", "ta">> /\ NameOf("event") = <<"ev", "ent">>
      BY DEF NameOf
    <2>2. name[1] # ":" /\ name[2] # ":" /\ Len(NameOf("data")) = 2 /\ Len(NameOf("event")) = 2
      BY <2>1
    <2> HIDE DEF h, name
    <2>3. /\ h \in Seq(Plain) /\ Len(h) = Len(s) + 4
          /\ name \in Seq(Plain) /\ Len(name) = 2
          /\ h[1] = name[1] /\ h[2] = name[2] /\ h[3] = ":" /\ h[4] = SP
          /\ \A k \in 1..Len(s) : h[k + 4] = s[k]
      BY LineFacts, ZenonT(60) DEF h, name
    <2> QED
      BY <2>2, <2>3
  <1>2. m \in Nat /\ m >= 1 /\ DOMAIN l = 1..m /\ m <= Len(h) /\ \A k \in 1..m : l[k] \in Plain /\ l[k] = h[k]
    BY EmptySeq DEF Begins
  <1>3. f.name = n /\ f.value = IF v # <<>> /\ v[1] = SP THEN Tail(v) ELSE v
    BY DEF splitField
  <1> HIDE DEF h, name, m
  <1>4. /\ m >= 1 => l[1] # ":"
        /\ m >= 2 => l[2] # ":" /\ l[1] = name[1] /\ l[2] = name[2]
        /\ m >= 3 => l[3] = ":"
        /\ m >= 4 => l[4] = SP
    <2>1. \A k \in 1..m : l[k] = h[k]
      BY <1>2
    <2>2. (m >= 1 => l[1] = h[1]) /\ (m >= 2 => l[2] = h[2]) /\ (m >= 3 => l[3] = h[3]) /\ (m >= 4 => l[4] = h[4])
      BY <1>2, <2>1
    <2> QED
      BY <1>1, <1>2, <2>2
  <1>5. /\ m <= 2 => i = m + 1
        /\ m >= 3 => i = 3
    <2>1. CASE m <= 2
      <3>1. colons = {}
        BY <1>2, <1>4, <2>1
      <3> QED
        BY <2>1, <3>1 DEF m
    <2>2. CASE m >= 3
      <3>1. colons \subseteq Nat /\ 3 \in colons /\ 1 \notin colons /\ 2 \notin colons /\ 0 \notin colons
        BY <1>2, <1>4, <2>2
      <3>2. Min(colons) \in colons /\ Min(colons) <= 3
        <4> HIDE DEF colons
        <4> QED
          BY <3>1, MinNat
      <3>3. i = Min(colons)
        BY <3>1
      <3> HIDE DEF i, colons
      <3>4. i \in Nat /\ i <= 3 /\ i # 0 /\ i # 1 /\ i # 2
        BY <3>1, <3>2, <3>3
      <3>5. i = 3
        BY <3>4
      <3> QED
        BY <1>2, <2>2, <3>5
    <2> HIDE DEF i
    <2> QED
      BY <1>2, <2>1, <2>2
  <1> HIDE DEF i, f
  <1>6. /\ n \in Seq(Plain) /\ Len(n) = i - 1 /\ \A k \in 1..(i - 1) : n[k] = l[k]
    <2>1. 1 \in Int /\ i - 1 \in Int /\ i - 1 >= 1 /\ \A k \in 1..(i - 1) : l[k] \in Plain
      BY <1>2, <1>5
    <2>2. /\ n \in Seq(Plain) /\ Len(n) = (IF 1 <= i - 1 THEN (i - 1) - 1 + 1 ELSE 0)
          /\ \A k \in 1..((i - 1) - 1 + 1) : n[k] = l[1 + k - 1]
      BY <2>1, SubSeqProperties
    <2> HIDE DEF n
    <2> QED
      BY <2>1, <2>2
  <1>7. /\ v \in Seq(Plain) /\ Len(v) = (IF m >= i + 1 THEN m - i ELSE 0)
        /\ \A k \in 1..(m - i) : v[k] = l[i + k]
    <2>1. i + 1 \in Int /\ i \in Nat /\ m \in Int /\ \A k \in (i + 1)..m : l[k] \in Plain
      BY <1>2, <1>5
    <2>2. v = SubSeq(l, i + 1, m)
      BY DEF m
    <2> HIDE DEF v
    <2>3. /\ v \in Seq(Plain) /\ Len(v) = (IF i + 1 <= m THEN m - (i + 1) + 1 ELSE 0)
          /\ \A k \in 1..(m - (i + 1) + 1) : v[k] = l[(i + 1) + k - 1]
      BY <2>1, <2>2, SubSeqProperties
    <2> QED
      BY <2>1, <2>3
  <1> HIDE DEF n, v
  <1>8. m = 1 => f.name # NameOf("data") /\ f.name # NameOf("event")
    <2> SUFFICES ASSUME m = 1 PROVE n # NameOf("data") /\ n # NameOf("event")
      BY <1>3
    <2>1. i = 2
      BY <1>5
    <2>2. Len(n) = 1
      BY <1>6, <2>1
    <2> QED
      BY <1>1, <2>2
  <1>9. ASSUME m >= 2 PROVE f.name = name
    <2>1. i = 3
      BY <1>2, <1>5, <1>9
    <2>2. Len(n) = 2 /\ \A k \in 1..2 : n[k] = name[k]
      BY <1>4, <1>6, <1>9, <2>1
    <2> QED
      BY <1>1, <1>3, <1>6, <2>2, SeqEqual
  <1>10. ASSUME m >= 2, m <= 3 PROVE f.value = <<>>
    <2>1. Len(v) = 0
      BY <1>2, <1>5, <1>7, <1>10
    <2>2. v = <<>>
      BY <1>7, <2>1, EmptySeq
    <2> QED
      BY <1>3, <2>2
  <1>11. ASSUME m >= 4 PROVE f.value \in Seq(Plain) /\ Len(f.value) = m - 4 /\ \A k \in 1..(m - 4) : f.value[k] = s[k]
    <2>1. i = 3 /\ Len(v) = m - 3 /\ 1 \in 1..(m - 3)
      BY <1>2, <1>5, <1>7, <1>11
    <2>2. v[1] = l[4] /\ v # <<>>
      BY <1>2, <1>7, <1>11, <2>1
    <2>3. f.value = Tail(v)
      BY <1>3, <1>4, <1>11, <2>2
    <2>4. Tail(v) \in Seq(Plain) /\ Len(Tail(v)) = Len(v) - 1 /\ \A k \in 1..Len(Tail(v)) : Tail(v)[k] = v[k + 1]
      BY <1>7, <2>2, HeadTailProperties
    <2> DEFINE u == Tail(v)
    <2> HIDE DEF u
    <2>5. ASSUME NEW k \in 1..(m - 4) PROVE u[k] = s[k]
      <3>1. k \in 1..Len(u) /\ k + 1 \in 1..(m - i) /\ k + 4 \in 1..m /\ k \in 1..Len(s) /\ i + (k + 1) = k + 4
        BY <1>1, <1>2, <1>11, <2>1, <2>4 DEF u
      <3>2. u[k] = v[k + 1]
        BY <2>4, <3>1 DEF u
      <3>3. v[k + 1] = l[k + 4]
        BY <1>7, <3>1
      <3> QED
        BY <1>1, <1>2, <3>1, <3>2, <3>3
    <2> QED
      BY <1>2, <2>1, <2>3, <2>4, <2>5 DEF u
  <1>12. m >= 2 => Begins(f.value, s)
    <2>1. CASE m <= 3
      BY <1>1, <1>10, <2>1, EmptySeq DEF Begins
    <2>2. CASE m >= 4
      BY <1>1, <1>2, <1>11, <2>2 DEF Begins
    <2> QED
      BY <1>2, <2>1, <2>2
  <1>13. l = h => m >= 2 /\ f.value = s
    <2> SUFFICES ASSUME l = h PROVE m >= 2 /\ f.value = s
      OBVIOUS
    <2>1. m = Len(s) + 4 /\ m >= 4 /\ m - 4 = Len(s)
      BY <1>1 DEF m
    <2>2. f.value \in Seq(Plain) /\ Len(f.value) = Len(s) /\ \A k \in 1..Len(f.value) : f.value[k] = s[k]
      BY <1>11, <2>1
    <2> HIDE DEF f
    <2>3. f.value = s
      BY <2>2, SeqEqual
    <2> QED
      BY <2>1, <2>3
  <1> QED
    BY <1>2, <1>4, <1>8, <1>9, <1>12, <1>13 DEF f, h, name, m
-----------------------------------------------------------------------------
(* Payloads and lines, put together.                                        *)

\* What payloads are made of.
Text == Plain \cup {LF}

\* A payload, a line feed and more of it; a line and the lines after it.
After(d, v) == (d \o <<LF>>) \o v
Onto(h, t) == <<h>> \o t
Then(ls, r) == ls \o r

\* A payload has line feeds besides what a line has.
LEMMA TextFacts ==
    /\ LF \in Text /\ Text \ {LF} = Plain /\ Plain \subseteq Text /\ Seq(Plain) \subseteq Seq(Text)
  <1>1. LF \in Text /\ Text \ {LF} = Plain /\ Plain \subseteq Text
    BY PlainBytes DEF Text
  <1>2. \A s \in Seq(Plain) : s \in Seq(Text)
    BY <1>1
  <1> QED
    BY <1>1, <1>2

\* The first half stays in front when the second is put together itself.
LEMMA AfterFacts ==
    ASSUME NEW d \in Seq(Text), NEW v \in Seq(Text)
    PROVE  /\ After(d, v) \in Seq(Text)
           /\ \A b \in Seq(Text) : After(d, After(v, b)) = After(After(d, v), b)
  <1> DEFINE n == <<LF>>
  <1>1. n \in Seq(Text)
    BY TextFacts
  <1>2. After(d, v) = (d \o n) \o v /\ \A b : After(v, b) = (v \o n) \o b
    BY DEF After
  <1>3. \A b : After(d, After(v, b)) = (d \o n) \o After(v, b) /\ After(After(d, v), b) = (After(d, v) \o n) \o b
    BY DEF After
  <1> HIDE DEF n
  <1> DEFINE D == d \o n
  <1>4. D \in Seq(Text)
    BY <1>1, ConcatProperties
  <1> HIDE DEF D
  <1>5. D \o v \in Seq(Text)
    BY <1>4, ConcatProperties
  <1>6. ASSUME NEW b \in Seq(Text) PROVE After(d, After(v, b)) = After(After(d, v), b)
    <2> DEFINE vn == v \o n
               Dv == D \o v
    <2>1. vn \in Seq(Text) /\ Dv \in Seq(Text)
      BY <1>1, <1>5, ConcatProperties
    <2>2. Dv \o n = D \o vn
      <3>1. D \in Seq(Text) /\ v \in Seq(Text) /\ n \in Seq(Text)
        BY <1>1, <1>4
      <3>2. Grouped(D, v, n)
        BY <3>1, ConcatThree
      <3> QED
        BY <3>2 DEF Grouped
    <2>3. After(d, After(v, b)) = D \o (vn \o b) /\ After(After(d, v), b) = (Dv \o n) \o b
      BY <1>2, <1>3 DEF D
    <2> HIDE DEF vn, Dv
    <2>4. (D \o vn) \o b = D \o (vn \o b)
      <3>1. D \in Seq(Text) /\ vn \in Seq(Text) /\ b \in Seq(Text)
        BY <1>4, <2>1
      <3>2. Grouped(D, vn, b)
        BY <3>1, ConcatThree
      <3> QED
        BY <3>2 DEF Grouped
    <2> QED
      BY <2>2, <2>3, <2>4
  <1> QED
    BY <1>2, <1>5, <1>6 DEF D

\* The line in front is the one that was put there.
LEMMA OntoFacts ==
    ASSUME NEW h \in Seq(Plain), NEW t \in TextLines
    PROVE  /\ Onto(h, t) \in TextLines /\ Onto(h, t) # <<>>
           /\ \A g \in Seq(Plain), r \in TextLines : Onto(h, t) = Onto(g, r) => h = g /\ t = r
           /\ \A r \in TextLines : Then(Onto(h, t), r) = Onto(h, Then(t, r)) /\ Then(t, r) \in TextLines
           /\ Len(Onto(h, t)) = Len(t) + 1 /\ Onto(h, t)[1] = h
           /\ \A i \in 1..Len(t) : Onto(h, t)[i + 1] = t[i]
  <1> DEFINE S == Seq(Plain)
  <1>1. \A g \in S, r \in Seq(S) :
           /\ Onto(g, r) \in Seq(S) /\ Len(Onto(g, r)) = Len(r) + 1 /\ Onto(g, r)[1] = g
           /\ \A i \in 1..Len(r) : Onto(g, r)[i + 1] = r[i]
    <2> SUFFICES ASSUME NEW g \in S, NEW r \in Seq(S)
                 PROVE  /\ Onto(g, r) \in Seq(S) /\ Len(Onto(g, r)) = Len(r) + 1 /\ Onto(g, r)[1] = g
                        /\ \A i \in 1..Len(r) : Onto(g, r)[i + 1] = r[i]
      OBVIOUS
    <2> HIDE DEF S
    <2> DEFINE e == <<g>>
    <2>1. e \in Seq(S) /\ Len(e) = 1 /\ e[1] = g /\ Len(r) \in Nat
      OBVIOUS
    <2>2. Onto(g, r) = e \o r
      BY DEF Onto
    <2> HIDE DEF e
    <2>3. /\ e \o r \in Seq(S) /\ Len(e \o r) = Len(e) + Len(r)
          /\ \A i \in 1..(Len(e) + Len(r)) : (e \o r)[i] = IF i <= Len(e) THEN e[i] ELSE r[i - Len(e)]
      BY <2>1, ConcatProperties
    <2>4. (e \o r)[1] = g
      <3>1. 1 \in 1..(Len(e) + Len(r)) /\ 1 <= Len(e)
        BY <2>1
      <3> QED
        BY <2>1, <2>3, <3>1
    <2>5. ASSUME NEW i \in 1..Len(r) PROVE (e \o r)[i + 1] = r[i]
      <3>1. i + 1 \in 1..(Len(e) + Len(r)) /\ ~(i + 1 <= Len(e)) /\ (i + 1) - Len(e) = i
        BY <2>1
      <3> QED
        BY <2>3, <3>1
    <2>6. Len(e \o r) = Len(r) + 1
      BY <2>1, <2>3
    <2> QED
      BY <2>2, <2>3, <2>4, <2>5, <2>6
  <1>2. h \in S /\ t \in Seq(S) /\ TextLines = Seq(S)
    BY DEF TextLines
  <1> HIDE DEF S
  <1>3. Onto(h, t) \in Seq(S) /\ Onto(h, t) # <<>>
    <2>1. Len(Onto(h, t)) = Len(t) + 1 /\ Len(t) \in Nat
      BY <1>1, <1>2
    <2> QED
      BY <1>1, <1>2, <2>1
  <1>4. ASSUME NEW g \in S, NEW r \in Seq(S), Onto(h, t) = Onto(g, r) PROVE h = g /\ t = r
    <2> DEFINE x == Onto(h, t)
    <2>0. /\ Len(x) = Len(t) + 1 /\ x[1] = h /\ \A i \in 1..Len(t) : x[i + 1] = t[i]
          /\ Len(x) = Len(r) + 1 /\ x[1] = g /\ \A i \in 1..Len(r) : x[i + 1] = r[i]
      <3>1. Len(x) = Len(t) + 1 /\ x[1] = h /\ \A i \in 1..Len(t) : x[i + 1] = t[i]
        BY <1>1, <1>2
      <3>2. /\ Len(Onto(g, r)) = Len(r) + 1 /\ Onto(g, r)[1] = g
            /\ \A i \in 1..Len(r) : Onto(g, r)[i + 1] = r[i]
        BY <1>1
      <3> QED
        BY <1>4, <3>1, <3>2
    <2> HIDE DEF x
    <2>1. h = g
      BY <2>0
    <2>2. Len(t) = Len(r) /\ \A i \in 1..Len(t) : t[i] = r[i]
      <3>1. Len(t) = Len(r)
        <4>1. Len(t) + 1 = Len(r) + 1 /\ Len(t) \in Nat /\ Len(r) \in Nat
          BY <1>2, <2>0
        <4> QED
          BY <4>1
      <3>2. ASSUME NEW i \in 1..Len(t) PROVE t[i] = r[i]
        BY <2>0, <3>1
      <3> QED
        BY <3>1, <3>2
    <2>3. t = r
      BY <1>2, <2>2, SeqEqual
    <2> QED
      BY <2>1, <2>3
  <1>5. ASSUME NEW r \in Seq(S) PROVE Then(Onto(h, t), r) = Onto(h, Then(t, r)) /\ Then(t, r) \in Seq(S)
    <2> DEFINE e == <<h>>
    <2>1. e \in Seq(S)
      BY <1>2
    <2>2. Onto(h, t) = e \o t /\ Onto(h, t \o r) = e \o (t \o r) /\ Then(t, r) = t \o r
          /\ Then(e \o t, r) = (e \o t) \o r
      BY DEF Onto, Then
    <2> HIDE DEF e
    <2>3. (e \o t) \o r = e \o (t \o r)
      <3>1. e \in Seq(S) /\ t \in Seq(S) /\ r \in Seq(S)
        BY <1>2, <2>1
      <3>2. Grouped(e, t, r)
        BY <3>1, ConcatThree
      <3> QED
        BY <3>2 DEF Grouped
    <2>4. t \o r \in Seq(S)
      BY <1>2, ConcatProperties
    <2> QED
      BY <2>2, <2>3, <2>4
  <1>6. /\ Len(Onto(h, t)) = Len(t) + 1 /\ Onto(h, t)[1] = h
        /\ \A i \in 1..Len(t) : Onto(h, t)[i + 1] = t[i]
    BY <1>1, <1>2
  <1> QED
    BY <1>2, <1>3, <1>4, <1>5, <1>6 DEF S

\* TextLines are none, or one and the rest.
LEMMA OntoCases ==
    ASSUME NEW ls \in TextLines, ls # <<>>
    PROVE  \E h \in Seq(Plain), t \in TextLines : ls = Onto(h, t)
  <1> DEFINE S == Seq(Plain)
  <1>1. ls \in Seq(S) /\ TextLines = Seq(S)
    BY DEF TextLines
  <1> HIDE DEF S
  <1>2. ls = Onto(Head(ls), Tail(ls)) /\ Head(ls) \in S /\ Tail(ls) \in Seq(S)
    BY <1>1, HeadTailProperties DEF Onto
  <1> QED
    BY <1>1, <1>2 DEF S

-----------------------------------------------------------------------------
(* Beginnings.                                                              *)

\* Begins is IsPrefix.
LEMMA BeginsPrefix ==
    ASSUME NEW S, NEW s \in Seq(S), NEW t \in Seq(S), Begins(s, t)
    PROVE  IsPrefix(s, t)
  <1> DEFINE n == Len(s)
             a == SubSeq(s, 1, n)
             b == SubSeq(t, 1, n)
  <1>1. n \in Nat /\ Len(t) \in Nat /\ n <= Len(t) /\ \A i \in 1..n : s[i] = t[i] /\ s[i] \in S /\ t[i] \in S
    BY DEF Begins
  <1> HIDE DEF n
  <1>2. /\ a \in Seq(S) /\ Len(a) = (IF 1 <= n THEN n - 1 + 1 ELSE 0) /\ \A i \in 1..(n - 1 + 1) : a[i] = s[1 + i - 1]
        /\ b \in Seq(S) /\ Len(b) = (IF 1 <= n THEN n - 1 + 1 ELSE 0) /\ \A i \in 1..(n - 1 + 1) : b[i] = t[1 + i - 1]
    <2>1. 1 \in Int /\ n \in Int
      BY <1>1
    <2> QED
      BY <1>1, <2>1, SubSeqProperties
  <1> HIDE DEF a, b
  <1>3. Len(a) = Len(b) /\ \A i \in 1..Len(a) : a[i] = b[i]
    BY <1>1, <1>2
  <1>4. a = b
    BY <1>2, <1>3, SeqEqual
  <1> QED
    BY <1>1, <1>4 DEF IsPrefix, a, b, n

\* What begins a part begins the whole.
LEMMA BeginsConcat ==
    ASSUME NEW S, NEW s \in Seq(S), NEW t \in Seq(S), NEW u \in Seq(S)
    PROVE  /\ Begins(s, s \o t)
           /\ Begins(s, t) => Begins(s, t \o u) /\ Begins(u \o s, u \o t)
  <1>1. Len(s) \in Nat /\ Len(t) \in Nat /\ Len(u) \in Nat
    OBVIOUS
  <1>2. \A x, y \in Seq(S) :
           /\ Len(x \o y) = Len(x) + Len(y)
           /\ \A i \in 1..(Len(x) + Len(y)) : (x \o y)[i] = IF i <= Len(x) THEN x[i] ELSE y[i - Len(x)]
    BY ConcatProperties
  <1>3. Begins(s, s \o t)
    <2>1. Len(s \o t) = Len(s) + Len(t)
      BY <1>2
    <2>2. ASSUME NEW i \in 1..Len(s) PROVE s[i] = (s \o t)[i]
      <3>1. i \in 1..(Len(s) + Len(t)) /\ i <= Len(s)
        BY <1>1
      <3> QED
        BY <1>2, <3>1
    <2> QED
      BY <1>1, <2>1, <2>2 DEF Begins
  <1>4. ASSUME Begins(s, t) PROVE Begins(s, t \o u)
    <2>1. Len(t \o u) = Len(t) + Len(u) /\ Len(s) <= Len(t)
      BY <1>2, <1>4 DEF Begins
    <2>2. ASSUME NEW i \in 1..Len(s) PROVE s[i] = (t \o u)[i]
      <3>1. i \in 1..(Len(t) + Len(u)) /\ i <= Len(t)
        BY <1>1, <2>1
      <3>2. s[i] = t[i]
        BY <1>4 DEF Begins
      <3> QED
        BY <1>2, <3>1, <3>2
    <2> QED
      BY <1>1, <2>1, <2>2 DEF Begins
  <1>5. ASSUME Begins(s, t) PROVE Begins(u \o s, u \o t)
    <2>1. Len(u \o s) = Len(u) + Len(s) /\ Len(u \o t) = Len(u) + Len(t) /\ Len(s) <= Len(t)
      BY <1>2, <1>5 DEF Begins
    <2>2. ASSUME NEW i \in 1..(Len(u) + Len(s)) PROVE (u \o s)[i] = (u \o t)[i]
      <3>1. i \in 1..(Len(u) + Len(t))
        BY <1>1, <2>1
      <3>2. (u \o s)[i] = (IF i <= Len(u) THEN u[i] ELSE s[i - Len(u)])
        BY <1>2
      <3>3. (u \o t)[i] = (IF i <= Len(u) THEN u[i] ELSE t[i - Len(u)])
        BY <1>2, <3>1
      <3>4. ~(i <= Len(u)) => i - Len(u) \in 1..Len(s)
        BY <1>1
      <3>5. ~(i <= Len(u)) => s[i - Len(u)] = t[i - Len(u)]
        BY <1>5, <3>4 DEF Begins
      <3> QED
        BY <3>2, <3>3, <3>5
    <2> QED
      BY <1>1, <2>1, <2>2 DEF Begins
  <1> QED
    BY <1>3, <1>4, <1>5

\* The beginning of what comes after a line feed.
LEMMA BeginsAfter ==
    ASSUME NEW d \in Seq(Text), NEW v \in Seq(Text), NEW a \in Seq(Text)
    PROVE  /\ Begins(v, a) => Begins(After(d, v), After(d, a))
           /\ Begins(d, After(d, a))
           /\ Begins(v, a) => Begins(v, After(a, d))
  <1> DEFINE n == <<LF>>
             D == d \o n
             A == a \o n
  <1>1. n \in Seq(Text)
    BY TextFacts
  <1>2. After(d, v) = D \o v /\ After(d, a) = D \o a /\ After(a, d) = A \o d
    BY DEF After
  <1> HIDE DEF n
  <1>3. D \in Seq(Text) /\ A \in Seq(Text)
    BY <1>1, ConcatProperties
  <1>4. Begins(d, D) /\ (Begins(v, a) => Begins(v, A))
    BY <1>1, BeginsConcat
  <1> HIDE DEF D, A
  <1>5. Begins(v, a) => Begins(D \o v, D \o a)
    BY <1>3, BeginsConcat
  <1>6. Begins(d, D \o a)
    BY <1>3, <1>4, BeginsConcat
  <1>7. Begins(v, A) => Begins(v, A \o d)
    BY <1>3, BeginsConcat
  <1> QED
    BY <1>2, <1>4, <1>5, <1>6, <1>7
-----------------------------------------------------------------------------
(* What is written.                                                         *)

\* The lines of a payload, and what a frame is after its event line.
Blank == <<<<>>>>
DataLines(d) == [n \in DOMAIN Segments(d) |-> Line("data", Segments(d)[n])]
Ending(d) == Then(DataLines(d), Blank)

\* What may be written.
Written == [event : {<<>>, <<"x">>}, data : Seq(Text)]

\* The blank line, and no lines.
LEMMA BlankFacts == <<>> \in Seq(Plain) /\ Blank = Onto(<<>>, <<>>) /\ Blank \in TextLines /\ <<>> \in TextLines
  <1> DEFINE S == Seq(Plain)
             e == <<>>
  <1>1. e \in S
    OBVIOUS
  <1> HIDE DEF S
  <1>2. <<e>> \in Seq(S) /\ e \in Seq(S) /\ <<e>> \o e = <<e>>
    BY <1>1
  <1> QED
    BY <1>1, <1>2 DEF Blank, Onto, TextLines, S

\* TextLines after lines.
LEMMA ThenFacts ==
    ASSUME NEW a \in TextLines, NEW b \in TextLines
    PROVE  /\ Then(a, b) \in TextLines /\ Len(Then(a, b)) = Len(a) + Len(b)
           /\ \A c \in TextLines : Then(Then(a, b), c) = Then(a, Then(b, c))
           /\ \A e : e = <<>> => Then(a, e) = a /\ Then(e, a) = a
           /\ Then(a, b) = <<>> => a = <<>> /\ b = <<>>
  <1> DEFINE S == Seq(Plain)
  <1>1. a \in Seq(S) /\ b \in Seq(S) /\ TextLines = Seq(S)
    BY DEF TextLines
  <1> HIDE DEF S
  <1>2. a \o b \in Seq(S) /\ Len(a \o b) = Len(a) + Len(b)
    BY <1>1, ConcatProperties
  <1>3. ASSUME NEW c \in Seq(S) PROVE (a \o b) \o c = a \o (b \o c)
    <2>1. Grouped(a, b, c)
      BY <1>1, ConcatThree
    <2> QED
      BY <2>1 DEF Grouped
  <1>4. a \o <<>> = a /\ <<>> \o a = a
    BY <1>1, ConcatEmptySeq
  <1>5. a \o b = <<>> => a = <<>> /\ b = <<>>
    BY <1>1, ConcatEqualIffEmpty
  <1> QED
    BY <1>1, <1>2, <1>3, <1>4, <1>5 DEF Then

\* The lines of a payload are one for each of its lines.
LEMMA EndingFacts ==
    ASSUME NEW d \in Seq(Text)
    PROVE  /\ DataLines(d) \in TextLines /\ Ending(d) \in TextLines
           /\ \/ d \in Seq(Plain) /\ Ending(d) = Onto(Line("data", d), Blank)
              \/ \E a \in Seq(Plain), b \in Seq(Text) :
                    d = After(a, b) /\ Ending(d) = Onto(Line("data", a), Ending(b))
  <1>1. ASSUME NEW c \in Seq(Text)
        PROVE  /\ Segments(c) \in TextLines /\ DataLines(c) \in TextLines
               /\ Len(DataLines(c)) = Len(Segments(c)) /\ Len(Segments(c)) \in Nat
               /\ \A i \in 1..Len(Segments(c)) : DataLines(c)[i] = Line("data", Segments(c)[i])
    <2>1. Segments(c) \in Seq(Seq(Plain))
      <3>1. Segments(c) \in Seq(Seq(Text \ {LF}))
        BY SegmentsType
      <3> QED
        BY <3>1, TextFacts
    <2> DEFINE segs == Segments(c)
               S == Seq(Plain)
    <2>2. DataLines(c) = [i \in DOMAIN segs |-> Line("data", segs[i])]
      BY DEF DataLines
    <2>3. \A s \in S : Line("data", s) \in S
      BY LineFacts
    <2>4. segs \in Seq(S)
      BY <2>1
    <2> HIDE DEF segs, S
    <2>5. Len(segs) \in Nat /\ DOMAIN segs = 1..Len(segs) /\ \A i \in 1..Len(segs) : segs[i] \in S
      BY <2>4
    <2>6. DataLines(c) \in Seq(S)
      BY <2>2, <2>3, <2>5
    <2>7. Len(DataLines(c)) = Len(segs)
      BY <2>2, <2>5, <2>6
    <2> QED
      BY <2>2, <2>4, <2>5, <2>6, <2>7 DEF segs, S, TextLines
  <1>2. \A c \in Seq(Text) : Ending(c) \in TextLines /\ Ending(c) = Then(DataLines(c), Blank)
    <2> SUFFICES ASSUME NEW c \in Seq(Text) PROVE Ending(c) \in TextLines /\ Ending(c) = Then(DataLines(c), Blank)
      OBVIOUS
    <2>1. DataLines(c) \in TextLines /\ Blank \in TextLines
      BY <1>1, BlankFacts
    <2>2. Then(DataLines(c), Blank) \in TextLines
      BY <2>1, ThenFacts
    <2> QED
      BY <2>2 DEF Ending
  <1>3. \/ d \in Seq(Plain) /\ Segments(d) = <<d>>
        \/ \E a \in Seq(Plain), b \in Seq(Text) : d = After(a, b) /\ Segments(d) = Onto(a, Segments(b))
    <2>1. FirstOf(Text, d)
      <3>1. LF \in Text /\ d \in Seq(Text)
        BY TextFacts
      <3> QED
        BY <3>1, FirstSegment
    <2>2. Text \ {LF} = Plain
      BY TextFacts
    <2> QED
      BY <2>1, <2>2, Zenon DEF FirstOf, After, Onto
  <1>4. CASE d \in Seq(Plain) /\ Segments(d) = <<d>>
    <2> DEFINE l == Line("data", d)
               D == DataLines(d)
    <2>1. Len(Segments(d)) = 1 /\ Segments(d)[1] = d
      BY <1>4
    <2>2. D \in Seq(Seq(Plain)) /\ Len(D) = 1 /\ D[1] = l
      <3>1. /\ D \in TextLines /\ Len(D) = Len(Segments(d))
            /\ \A i \in 1..Len(Segments(d)) : D[i] = Line("data", Segments(d)[i])
        BY <1>1
      <3> HIDE DEF D
      <3>2. 1 \in 1..Len(Segments(d))
        BY <2>1
      <3>3. D[1] = Line("data", Segments(d)[1])
        BY <3>1, <3>2
      <3> QED
        BY <2>1, <3>1, <3>3 DEF TextLines
    <2>3. l \in Seq(Plain)
      BY <1>4, LineFacts
    <2> HIDE DEF l, D
    <2> DEFINE S == Seq(Plain)
    <2>4. D = <<l>>
      <3>1. D \in Seq(S) /\ <<l>> \in Seq(S) /\ Len(<<l>>) = 1 /\ <<l>>[1] = l
        BY <2>2, <2>3
      <3> HIDE DEF S
      <3>2. Len(D) = Len(<<l>>) /\ \A i \in 1..Len(D) : D[i] = <<l>>[i]
        BY <2>2, <3>1
      <3> DEFINE w == <<l>>
      <3> HIDE DEF w
      <3>3. D = w
        BY <3>1, <3>2, SeqEqual DEF w
      <3> QED
        BY <3>3 DEF w
    <2>5. Then(D, Blank) = Onto(l, Blank)
      BY <2>4 DEF Onto, Then
    <2> QED
      BY <1>1, <1>2, <1>4, <2>5 DEF l, D
  <1>5. CASE \E a \in Seq(Plain), b \in Seq(Text) : d = After(a, b) /\ Segments(d) = Onto(a, Segments(b))
    <2>1. PICK a \in Seq(Plain), b \in Seq(Text) : d = After(a, b) /\ Segments(d) = Onto(a, Segments(b))
      BY <1>5
    <2> DEFINE l == Line("data", a)
               B == DataLines(b)
               D == DataLines(d)
               O == Onto(l, B)
               segs == Segments(b)
               n == Len(segs)
    <2>2. l \in Seq(Plain)
      BY LineFacts
    <2>3. B \in TextLines /\ segs \in TextLines /\ Len(B) = n /\ n \in Nat /\ \A i \in 1..n : B[i] = Line("data", segs[i])
      BY <1>1
    <2>4. /\ Len(Segments(d)) = n + 1 /\ Segments(d)[1] = a
          /\ \A i \in 1..n : Segments(d)[i + 1] = segs[i]
      <3> HIDE DEF segs
      <3>1. /\ Len(Onto(a, segs)) = n + 1 /\ Onto(a, segs)[1] = a
            /\ \A i \in 1..n : Onto(a, segs)[i + 1] = segs[i]
        BY <2>3, OntoFacts
      <3>2. Segments(d) = Onto(a, segs)
        BY <2>1 DEF segs
      <3> QED
        BY <3>1, <3>2
    <2>5. D \in TextLines /\ Len(D) = n + 1 /\ \A i \in 1..(n + 1) : D[i] = Line("data", Segments(d)[i])
      BY <1>1, <2>4
    <2> HIDE DEF l, B, D, segs, n
    <2>6. /\ O \in TextLines /\ Len(O) = Len(B) + 1 /\ O[1] = l
          /\ \A i \in 1..Len(B) : O[i + 1] = B[i]
          /\ Then(O, Blank) = Onto(l, Then(B, Blank))
      <3>1. Blank \in TextLines
        BY BlankFacts
      <3>2. Then(Onto(l, B), Blank) = Onto(l, Then(B, Blank))
        BY <2>2, <2>3, <3>1, OntoFacts
      <3>3. /\ Onto(l, B) \in TextLines /\ Len(Onto(l, B)) = Len(B) + 1 /\ Onto(l, B)[1] = l
            /\ \A i \in 1..Len(B) : Onto(l, B)[i + 1] = B[i]
        <4>1. l \in Seq(Plain) /\ B \in TextLines
          BY <2>2, <2>3
        <4> QED
          BY <4>1, OntoFacts
      <3> QED
        BY <3>2, <3>3
    <2> HIDE DEF O
    <2>7. D = O
      <3>1. Len(D) = Len(O)
        BY <2>3, <2>5, <2>6
      <3>2. ASSUME NEW i \in 1..Len(D) PROVE D[i] = O[i]
        <4>1. CASE i = 1
          <5>1. D[1] = Line("data", a)
            BY <2>3, <2>4, <2>5
          <5> QED
            BY <2>6, <4>1, <5>1 DEF l
        <4>2. CASE i # 1
          <5> DEFINE j == i - 1
          <5>1. j \in 1..n /\ j + 1 = i /\ i \in 1..(n + 1) /\ j \in 1..Len(B)
            BY <2>3, <2>5, <4>2
          <5> HIDE DEF j
          <5>2. D[j + 1] = Line("data", segs[j])
            BY <2>4, <2>5, <5>1
          <5>3. O[j + 1] = Line("data", segs[j])
            BY <2>3, <2>6, <5>1
          <5> QED
            BY <5>1, <5>2, <5>3
        <4> QED
          BY <4>1, <4>2
      <3>3. D \in Seq(Seq(Plain)) /\ O \in Seq(Seq(Plain))
        BY <2>5, <2>6 DEF TextLines
      <3> QED
        BY <3>1, <3>2, <3>3, SeqEqual
    <2>8. Ending(d) = Onto(l, Ending(b))
      BY <1>2, <2>6, <2>7 DEF D, B
    <2> QED
      BY <1>1, <1>2, <2>1, <2>8 DEF l
  <1> QED
    BY <1>3, <1>4, <1>5

\* A frame is its payload's lines and a blank one, after its event line if it has a name.
LEMMA WrittenFacts ==
    ASSUME NEW f \in Written
    PROVE  /\ f.data \in Seq(Text) /\ f.event \in Seq(Plain)
           /\ WriteFrame(f) \in TextLines /\ Len(WriteFrame(f)) >= 2
           /\ f.event = <<>> => WriteFrame(f) = Ending(f.data)
           /\ f.event # <<>> => WriteFrame(f) = Onto(Line("event", f.event), Ending(f.data))
  <1>1. f.data \in Seq(Text) /\ (f.event = <<>> \/ f.event = <<"x">>)
    BY DEF Written
  <1>2. f.event \in Seq(Plain)
    <2>1. "x" \in Plain
      BY DEF Plain
    <2>2. <<"x">> \in Seq(Plain)
      BY <2>1
    <2>3. <<>> \in Seq(Plain)
      BY BlankFacts
    <2> QED
      BY <1>1, <2>2, <2>3
  <1> DEFINE d == f.data
             D == DataLines(d)
             l == Line("event", f.event)
             W == (IF f.event = <<>> THEN <<>> ELSE <<l>>) \o D
  <1>3. D \in TextLines /\ Ending(d) \in TextLines /\ Blank \in TextLines /\ l \in Seq(Plain)
    BY <1>1, <1>2, EndingFacts, BlankFacts, LineFacts
  <1>4. WriteFrame(f) = Then(W, Blank)
    BY DEF WriteFrame, DataLines, Blank, Then
  <1>5. Ending(d) = Then(D, Blank)
    BY DEF Ending
  <1>6. Len(Ending(d)) >= 2
    <2>1. CASE d \in Seq(Plain) /\ Ending(d) = Onto(Line("data", d), Blank)
      <3>1. Len(Blank) = 1
        BY DEF Blank
      <3>2. Line("data", d) \in Seq(Plain)
        BY <2>1, LineFacts
      <3>3. Len(Ending(d)) = Len(Blank) + 1
        BY <1>3, <2>1, <3>2, OntoFacts
      <3> QED
        BY <3>1, <3>3
    <2>2. CASE \E a \in Seq(Plain), b \in Seq(Text) :
                  d = After(a, b) /\ Ending(d) = Onto(Line("data", a), Ending(b))
      <3>1. PICK a \in Seq(Plain), b \in Seq(Text) : Ending(d) = Onto(Line("data", a), Ending(b))
        BY <2>2
      <3>2. Line("data", a) \in Seq(Plain) /\ Ending(b) \in TextLines
        BY LineFacts, EndingFacts
      <3>3. Len(Ending(d)) = Len(Ending(b)) + 1
        BY <3>1, <3>2, OntoFacts
      <3>4. Len(Ending(b)) >= 1 /\ Len(Ending(b)) \in Nat
        <4>1. DataLines(b) \in TextLines /\ Blank \in TextLines /\ Len(Blank) = 1
          BY EndingFacts, BlankFacts DEF Blank
        <4>2. Len(Then(DataLines(b), Blank)) = Len(DataLines(b)) + Len(Blank) /\ Len(DataLines(b)) \in Nat
          <5>1. Len(Then(DataLines(b), Blank)) = Len(DataLines(b)) + Len(Blank)
            BY <4>1, ThenFacts
          <5>2. Len(DataLines(b)) \in Nat
            BY <4>1 DEF TextLines
          <5> QED
            BY <5>1, <5>2
        <4> QED
          BY <4>1, <4>2 DEF Ending
      <3> QED
        BY <3>3, <3>4
    <2> QED
      BY <1>1, <2>1, <2>2, EndingFacts
  <1> HIDE DEF d, D, l
  <1>7. CASE f.event = <<>>
    <2>1. W = D
      <3>1. <<>> \o D = D
        BY <1>3, ConcatEmptySeq DEF TextLines
      <3> QED
        BY <1>7, <3>1
    <2> QED
      BY <1>1, <1>2, <1>3, <1>4, <1>5, <1>6, <1>7, <2>1 DEF d
  <1>8. CASE f.event # <<>>
    <2>1. W = Onto(l, D)
      BY <1>8 DEF Onto
    <2> HIDE DEF W
    <2>2. Then(Onto(l, D), Blank) = Onto(l, Then(D, Blank))
      BY <1>3, OntoFacts
    <2>3. Onto(l, Ending(d)) \in TextLines /\ Len(Onto(l, Ending(d))) = Len(Ending(d)) + 1
      BY <1>3, OntoFacts
    <2>4. WriteFrame(f) = Onto(l, Ending(d))
      BY <1>4, <1>5, <2>1, <2>2
    <2>5. Len(WriteFrame(f)) >= 2
      <3>1. Len(Ending(d)) \in Nat
        BY <1>3 DEF TextLines
      <3> QED
        BY <1>6, <2>3, <2>4, <3>1
    <2> QED
      BY <1>1, <1>2, <1>8, <2>3, <2>4, <2>5 DEF l, d
  <1> QED
    BY <1>7, <1>8
-----------------------------------------------------------------------------
(* Scan, line by line.                                                      *)

\* What Scan has gathered.
Locals == {g \in [event : Seq(Plain), data : Seq(Text), haveData : BOOLEAN] :
             ~g.haveData => g.data = <<>>}

\* What a field makes of it.
LEMMA FieldFacts ==
    ASSUME NEW g \in Locals, NEW l \in Seq(Plain), l # <<>>, l[1] # ":"
    PROVE  LET f == splitField(l)
               new == Field(g, l) IN
           /\ new \in Locals
           /\ f.name = NameOf("event") =>
                 new.event = f.value /\ new.data = g.data /\ new.haveData = g.haveData
           /\ f.name = NameOf("data") =>
                 /\ new.event = g.event /\ new.haveData
                 /\ new.data = IF g.haveData THEN After(g.data, f.value) ELSE f.value
           /\ f.name \notin {NameOf("event"), NameOf("data")} => new = g
  <1> DEFINE f == splitField(l)
             new == Field(g, l)
             ev == NameOf("event")
             da == NameOf("data")
  <1>1. f.value \in Seq(Plain) /\ f.value \in Seq(Text)
    BY SplitFacts, TextFacts
  <1>2. ev # da
    BY LineFacts, BlankFacts
  <1>3. /\ g.event \in Seq(Plain) /\ g.data \in Seq(Text) /\ g.haveData \in BOOLEAN
        /\ ~g.haveData => g.data = <<>>
        /\ g \in [event : Seq(Plain), data : Seq(Text), haveData : BOOLEAN]
    BY DEF Locals
  <1> DEFINE sum == (IF g.haveData THEN g.data \o <<LF>> ELSE g.data) \o f.value
  <1>4. new = IF f.name = ev THEN [g EXCEPT !.event = f.value]
              ELSE IF f.name = da THEN [g EXCEPT !.data = sum, !.haveData = TRUE]
              ELSE g
    BY <1>2 DEF Field
  <1> HIDE DEF f, new, ev, da
  <1>5. sum = IF g.haveData THEN After(g.data, f.value) ELSE f.value
    <2>1. CASE g.haveData
      BY <2>1 DEF After
    <2>2. CASE ~g.haveData
      <3>1. <<>> \o f.value = f.value
        BY <1>1, ConcatEmptySeq
      <3> QED
        BY <1>3, <2>2, <3>1
    <2> QED
      BY <2>1, <2>2
  <1> HIDE DEF sum
  <1>6. sum \in Seq(Text)
    <2>1. After(g.data, f.value) \in Seq(Text)
      BY <1>1, <1>3, AfterFacts
    <2> QED
      BY <1>1, <1>5, <2>1
  <1>7. CASE f.name = ev
    <2>1. new = [g EXCEPT !.event = f.value]
      BY <1>4, <1>7
    <2>2. new.event = f.value /\ new.data = g.data /\ new.haveData = g.haveData /\ new \in Locals
      BY <1>1, <1>3, <2>1 DEF Locals
    <2> QED
      BY <1>2, <1>7, <2>2 DEF f, new, ev, da
  <1>8. CASE f.name = da
    <2>1. new = [g EXCEPT !.data = sum, !.haveData = TRUE]
      BY <1>2, <1>4, <1>8
    <2>2. new.event = g.event /\ new.data = sum /\ new.haveData = TRUE /\ new \in Locals
      BY <1>3, <1>6, <2>1 DEF Locals
    <2> QED
      BY <1>2, <1>5, <1>8, <2>2 DEF f, new, ev, da
  <1>9. CASE f.name # ev /\ f.name # da
    <2>1. new = g
      BY <1>4, <1>9
    <2> QED
      BY <1>9, <2>1 DEF f, new, ev, da
  <1> QED
    BY <1>7, <1>8, <1>9

\* What is still to be read of frame f, when g has been gathered from it and
\* tail is what follows it.
Due(f, g, todo, tail) ==
    \/ /\ f.event # <<>> /\ ~g.haveData
       /\ todo = Onto(Line("event", f.event), Then(Ending(f.data), tail))
    \/ /\ ~g.haveData /\ g.event = f.event
       /\ todo = Then(Ending(f.data), tail)
    \/ /\ g.haveData /\ g.event = f.event /\ g.data = f.data
       /\ todo = Onto(<<>>, tail)
    \/ /\ g.haveData /\ g.event = f.event
       /\ \E b \in Seq(Text) : f.data = After(g.data, b) /\ todo = Then(Ending(b), tail)

\* What would be handed out at the end of the stream is the beginning of f.
Short(f, g) == g.haveData => g.event = f.event /\ Begins(g.data, f.data)

\* What a line h of frame f, or the beginning of it, makes of what is gathered.
Taken(f, g, h, t, tail) ==
    \/ h = <<>> /\ g.haveData /\ Dispatched(g) = f /\ t = tail
    \/ /\ h # <<>> /\ h[1] # ":" /\ Due(f, Field(g, h), t, tail)
       /\ \A l \in Seq(Plain) :
             l # <<>> /\ Begins(l, h) => l[1] # ":" /\ Short(f, Field(g, l))

\* What the payload gathered is after one more line of it.
Sum(g, v) == IF g.haveData THEN After(g.data, v) ELSE v

\* The beginning of a beginning is one.
LEMMA BeginsTrans ==
    ASSUME NEW S, NEW s \in Seq(S), NEW t \in Seq(S), NEW u \in Seq(S), Begins(s, t), Begins(t, u)
    PROVE  Begins(s, u)
  <1>1. Len(s) \in Nat /\ Len(t) \in Nat /\ Len(u) \in Nat /\ Len(s) <= Len(t) /\ Len(t) <= Len(u)
    BY DEF Begins
  <1>2. \A i \in 1..Len(s) : i \in 1..Len(t)
    BY <1>1
  <1>3. \A i \in 1..Len(s) : s[i] = u[i]
    BY <1>2 DEF Begins
  <1> QED
    BY <1>1, <1>3 DEF Begins

\* What one more line makes of the payload begins what more of it makes.
LEMMA SumFacts ==
    ASSUME NEW g \in Locals, NEW v \in Seq(Text), NEW a \in Seq(Text)
    PROVE  /\ Sum(g, v) \in Seq(Text)
           /\ Begins(v, a) => Begins(Sum(g, v), Sum(g, a))
           /\ Sum(g, After(v, a)) = After(Sum(g, v), a)
           /\ Begins(Sum(g, v), After(Sum(g, v), a))
  <1>1. g.data \in Seq(Text)
    BY DEF Locals
  <1>2. Sum(g, v) \in Seq(Text)
    BY <1>1, AfterFacts DEF Sum
  <1>3. Begins(v, a) => Begins(Sum(g, v), Sum(g, a))
    BY <1>1, BeginsAfter DEF Sum
  <1>4. Sum(g, After(v, a)) = After(Sum(g, v), a)
    BY <1>1, AfterFacts DEF Sum
  <1>5. Begins(Sum(g, v), After(Sum(g, v), a))
    BY <1>2, BeginsAfter
  <1> QED
    BY <1>2, <1>3, <1>4, <1>5

\* A data line, or the beginning of it.
LEMMA DataLine ==
    ASSUME NEW f \in Written, NEW g \in Locals, NEW a \in Seq(Plain),
           g.event = f.event, Short(f, g), Begins(Sum(g, a), f.data)
    PROVE  LET h == Line("data", a) IN
           /\ h \in Seq(Plain) /\ h # <<>> /\ h[1] # ":"
           /\ Field(g, h).haveData /\ Field(g, h).event = f.event
           /\ Field(g, h).data = Sum(g, a)
           /\ \A l \in Seq(Plain) :
                 l # <<>> /\ Begins(l, h) => l[1] # ":" /\ Short(f, Field(g, l))
  <1> DEFINE h == Line("data", a)
             da == NameOf("data")
             ev == NameOf("event")
  <1>1. h \in Seq(Plain) /\ h # <<>> /\ h[1] # ":"
    <2>1. h \in Seq(Plain) /\ Len(h) = Len(a) + 4 /\ h[1] \in {"ev", "da"}
      BY LineFacts
    <2>2. Len(a) \in Nat
      OBVIOUS
    <2> HIDE DEF h
    <2> QED
      BY <2>1, <2>2
  <1>2. ASSUME NEW l \in Seq(Plain), l # <<>>, Begins(l, h)
        PROVE  LET s == splitField(l) IN
               /\ l[1] # ":"
               /\ Len(l) = 1 => s.name # da /\ s.name # ev
               /\ Len(l) >= 2 => s.name = da /\ Begins(s.value, a)
               /\ l = h => Len(l) >= 2 /\ s.value = a
               /\ s.value \in Seq(Plain)
    <2>1. LET s == splitField(l) IN
               /\ l[1] # ":"
               /\ Len(l) = 1 => s.name # da /\ s.name # ev
               /\ Len(l) >= 2 => s.name = da /\ Begins(s.value, a)
               /\ l = h => Len(l) >= 2 /\ s.value = a
      BY <1>2, SplitLine
    <2>2. splitField(l).value \in Seq(Plain)
      BY <1>2, <2>1, SplitFacts
    <2> QED
      BY <2>1, <2>2
  <1> HIDE DEF h, da, ev
  <1>3. Begins(h, h)
    BY <1>1 DEF Begins
  <1>4. a \in Seq(Text) /\ f.data \in Seq(Text) /\ Sum(g, a) \in Seq(Text) /\ da # ev
    <2>1. a \in Seq(Text)
      BY TextFacts
    <2> QED
      BY <2>1, WrittenFacts, SumFacts, LineFacts, BlankFacts DEF da, ev
  <1>5. Field(g, h).haveData /\ Field(g, h).event = f.event /\ Field(g, h).data = Sum(g, a)
    <2>1. splitField(h).name = da /\ splitField(h).value = a
      BY <1>1, <1>2, <1>3
    <2> QED
      BY <1>1, <2>1, FieldFacts DEF da, Sum
  <1>6. ASSUME NEW l \in Seq(Plain), l # <<>>, Begins(l, h) PROVE l[1] # ":" /\ Short(f, Field(g, l))
    <2> DEFINE s == splitField(l)
               v == s.value
               new == Field(g, l)
    <2>1. /\ l[1] # ":" /\ v \in Seq(Plain)
          /\ Len(l) = 1 => s.name # da /\ s.name # ev
          /\ Len(l) >= 2 => s.name = da /\ Begins(v, a)
      BY <1>2, <1>6
    <2>2. Len(l) = 1 \/ Len(l) >= 2
      <3>1. l \in Seq(Plain) /\ l # <<>>
        BY <1>6
      <3>2. Len(l) \in Nat /\ Len(l) # 0
        BY <3>1, EmptySeq
      <3> DEFINE n == Len(l)
      <3>3. n \in Nat /\ n # 0
        BY <3>2
      <3> HIDE DEF n
      <3>4. n = 1 \/ n >= 2
        BY <3>3
      <3> QED
        BY <3>4 DEF n
    <2>3. CASE Len(l) = 1
      <3>1. new = g
        BY <1>6, <2>1, <2>3, FieldFacts DEF da, ev
      <3> QED
        BY <2>1, <3>1
    <2>4. CASE Len(l) >= 2
      <3>1. new.event = f.event /\ new.haveData /\ new.data = Sum(g, v)
        BY <1>6, <2>1, <2>4, FieldFacts DEF da, Sum
      <3>2. v \in Seq(Text)
        BY <2>1, TextFacts
      <3> HIDE DEF v, new
      <3>3. Sum(g, v) \in Seq(Text) /\ Begins(Sum(g, v), Sum(g, a))
        <4>1. Begins(v, a)
          BY <2>1, <2>4
        <4> QED
          BY <1>4, <3>2, <4>1, SumFacts
      <3>4. Begins(Sum(g, v), f.data)
        BY <1>4, <3>3, BeginsTrans
      <3>5. Short(f, new)
        BY <3>1, <3>4 DEF Short
      <3> QED
        BY <2>1, <3>5 DEF new
    <2> QED
      BY <2>2, <2>3, <2>4
  <1> QED
    BY <1>1, <1>5, <1>6 DEF h

\* The line of the event, or the beginning of it.
LEMMA EventLine ==
    ASSUME NEW f \in Written, NEW g \in Locals, ~g.haveData
    PROVE  LET h == Line("event", f.event) IN
           /\ h \in Seq(Plain) /\ h # <<>> /\ h[1] # ":"
           /\ ~Field(g, h).haveData /\ Field(g, h).event = f.event
           /\ \A l \in Seq(Plain) :
                 l # <<>> /\ Begins(l, h) => l[1] # ":" /\ Short(f, Field(g, l))
  <1> DEFINE a == f.event
             h == Line("event", a)
             da == NameOf("data")
             ev == NameOf("event")
  <1>0. a \in Seq(Plain)
    BY WrittenFacts
  <1> HIDE DEF a
  <1>1. h \in Seq(Plain) /\ h # <<>> /\ h[1] # ":"
    <2>1. h \in Seq(Plain) /\ Len(h) = Len(a) + 4 /\ h[1] \in {"ev", "da"}
      BY <1>0, LineFacts
    <2>2. Len(a) \in Nat
      BY <1>0
    <2> HIDE DEF h
    <2> QED
      BY <2>1, <2>2
  <1>2. ASSUME NEW l \in Seq(Plain), l # <<>>, Begins(l, h)
        PROVE  LET s == splitField(l) IN
               /\ l[1] # ":"
               /\ Len(l) = 1 => s.name # da /\ s.name # ev
               /\ Len(l) >= 2 => s.name = ev
               /\ l = h => Len(l) >= 2 /\ s.value = a
    BY <1>0, <1>2, SplitLine
  <1> HIDE DEF h, da, ev
  <1>3. Begins(h, h)
    BY <1>1 DEF Begins
  <1>5. ~Field(g, h).haveData /\ Field(g, h).event = a
    <2>1. splitField(h).name = ev /\ splitField(h).value = a
      BY <1>1, <1>2, <1>3
    <2> QED
      BY <1>1, <2>1, FieldFacts DEF ev
  <1>6. ASSUME NEW l \in Seq(Plain), l # <<>>, Begins(l, h) PROVE l[1] # ":" /\ ~Field(g, l).haveData
    <2>1. /\ l[1] # ":"
          /\ Len(l) = 1 => splitField(l).name # da /\ splitField(l).name # ev
          /\ Len(l) >= 2 => splitField(l).name = ev
      BY <1>2, <1>6
    <2>2. Len(l) = 1 \/ Len(l) >= 2
      <3>1. l \in Seq(Plain) /\ l # <<>>
        BY <1>6
      <3>2. Len(l) \in Nat /\ Len(l) # 0
        BY <3>1, EmptySeq
      <3> DEFINE n == Len(l)
      <3>3. n \in Nat /\ n # 0
        BY <3>2
      <3> HIDE DEF n
      <3>4. n = 1 \/ n >= 2
        BY <3>3
      <3> QED
        BY <3>4 DEF n
    <2> QED
      BY <1>6, <2>1, <2>2, FieldFacts DEF da, ev
  <1> QED
    BY <1>1, <1>5, <1>6 DEF h, a, Short

\* While a frame is due there is a line, and reading it, or the beginning of it,
\* keeps what is gathered right.
LEMMA DueStep ==
    ASSUME NEW f \in Written, NEW g \in Locals, NEW todo, NEW tail \in TextLines,
           Due(f, g, todo, tail)
    PROVE  /\ Short(f, g)
           /\ \E h \in Seq(Plain), t \in TextLines : todo = Onto(h, t) /\ Taken(f, g, h, t, tail)
  <1>1. /\ f.data \in Seq(Text) /\ Ending(f.data) \in TextLines
        /\ g.data \in Seq(Text) /\ g.haveData \in BOOLEAN
        /\ ~g.haveData => g.data = <<>>
    BY WrittenFacts, EndingFacts DEF Locals
  <1>2. CASE /\ f.event # <<>> /\ ~g.haveData
             /\ todo = Onto(Line("event", f.event), Then(Ending(f.data), tail))
    <2> DEFINE h == Line("event", f.event)
               t == Then(Ending(f.data), tail)
    <2>1. Short(f, g)
      BY <1>2 DEF Short
    <2>2. /\ h \in Seq(Plain) /\ h # <<>> /\ h[1] # ":"
          /\ ~Field(g, h).haveData /\ Field(g, h).event = f.event
          /\ \A l \in Seq(Plain) : l # <<>> /\ Begins(l, h) => l[1] # ":" /\ Short(f, Field(g, l))
      BY <1>2, EventLine
    <2>3. t \in TextLines
      BY <1>1, ThenFacts
    <2>4. Due(f, Field(g, h), t, tail)
      BY <2>2 DEF Due
    <2>5. todo = Onto(h, t)
      BY <1>2
    <2> HIDE DEF h, t
    <2>6. Taken(f, g, h, t, tail)
      BY <2>2, <2>4 DEF Taken
    <2> QED
      BY <2>1, <2>2, <2>3, <2>5, <2>6
  <1>3. CASE g.haveData /\ g.event = f.event /\ g.data = f.data /\ todo = Onto(<<>>, tail)
    <2>1. Short(f, g)
      BY <1>1, <1>3 DEF Short, Begins
    <2>2. Dispatched(g) = f
      BY <1>3 DEF Dispatched, Written
    <2> DEFINE h == <<>>
    <2>3. h \in Seq(Plain)
      BY BlankFacts
    <2>4. Taken(f, g, h, tail, tail)
      BY <1>3, <2>2 DEF Taken
    <2>5. todo = Onto(h, tail)
      BY <1>3
    <2> HIDE DEF h
    <2> QED
      BY <2>1, <2>3, <2>4, <2>5
  <1>4. ASSUME NEW b \in Seq(Text), g.event = f.event, f.data = Sum(g, b),
               todo = Then(Ending(b), tail), Short(f, g)
        PROVE  \E h \in Seq(Plain), t \in TextLines : todo = Onto(h, t) /\ Taken(f, g, h, t, tail)
    <2>1. CASE b \in Seq(Plain) /\ Ending(b) = Onto(Line("data", b), Blank)
      <3> DEFINE h == Line("data", b)
                 t == Then(Blank, tail)
                 new == Field(g, h)
      <3>1. Begins(Sum(g, b), f.data)
        BY <1>1, <1>4 DEF Begins
      <3>2. /\ h \in Seq(Plain) /\ h # <<>> /\ h[1] # ":"
            /\ new.haveData /\ new.event = f.event
            /\ new.data = Sum(g, b)
            /\ \A l \in Seq(Plain) : l # <<>> /\ Begins(l, h) => l[1] # ":" /\ Short(f, Field(g, l))
        BY <1>4, <2>1, <3>1, DataLine
      <3>3. t = Onto(<<>>, tail) /\ t \in TextLines
        <4> DEFINE e == <<>>
        <4>1. e \in Seq(Plain) /\ e \in TextLines /\ Blank = Onto(e, e) /\ Blank \in TextLines
          BY BlankFacts
        <4> HIDE DEF e
        <4>2. Then(Onto(e, e), tail) = Onto(e, Then(e, tail))
          BY <4>1, OntoFacts
        <4>3. Then(e, tail) = tail
          BY ThenFacts, EmptySeq DEF e
        <4>4. Then(Blank, tail) \in TextLines
          BY <4>1, ThenFacts
        <4> QED
          BY <4>1, <4>2, <4>3, <4>4 DEF e
      <3>4. todo = Onto(h, t)
        <4>1. Blank \in TextLines
          BY BlankFacts
        <4>2. Then(Onto(h, Blank), tail) = Onto(h, Then(Blank, tail))
          BY <3>2, <4>1, OntoFacts
        <4> QED
          BY <1>4, <2>1, <4>2
      <3> HIDE DEF new
      <3>5. Due(f, new, t, tail)
        BY <1>4, <3>2, <3>3 DEF Due
      <3> HIDE DEF h, t
      <3>6. Taken(f, g, h, t, tail)
        BY <3>2, <3>5 DEF Taken, new
      <3> QED
        BY <3>2, <3>3, <3>4, <3>6
    <2>2. CASE \E a \in Seq(Plain), c \in Seq(Text) :
                  b = After(a, c) /\ Ending(b) = Onto(Line("data", a), Ending(c))
      <3>0. PICK a \in Seq(Plain), c \in Seq(Text) :
                  b = After(a, c) /\ Ending(b) = Onto(Line("data", a), Ending(c))
        BY <2>2
      <3> DEFINE h == Line("data", a)
                 t == Then(Ending(c), tail)
                 new == Field(g, h)
      <3>a. a \in Seq(Text)
        BY TextFacts
      <3>b. f.data = After(Sum(g, a), c)
        BY <1>4, <3>0, <3>a, SumFacts
      <3>1. Begins(Sum(g, a), f.data)
        <4>1. Sum(g, a) \in Seq(Text)
          BY <3>a, SumFacts
        <4> QED
          BY <3>b, <4>1, BeginsAfter
      <3>2. /\ h \in Seq(Plain) /\ h # <<>> /\ h[1] # ":"
            /\ new.haveData /\ new.event = f.event
            /\ new.data = Sum(g, a)
            /\ \A l \in Seq(Plain) : l # <<>> /\ Begins(l, h) => l[1] # ":" /\ Short(f, Field(g, l))
        BY <1>4, <3>1, DataLine
      <3>3. t \in TextLines /\ Ending(c) \in TextLines
        BY EndingFacts, ThenFacts
      <3>4. todo = Onto(h, t)
        <4>1. Then(Onto(h, Ending(c)), tail) = Onto(h, Then(Ending(c), tail))
          BY <3>2, <3>3, OntoFacts
        <4> QED
          BY <1>4, <3>0, <4>1
      <3> HIDE DEF new
      <3>5. Due(f, new, t, tail)
        BY <3>b, <3>2 DEF Due
      <3> HIDE DEF h, t
      <3>6. Taken(f, g, h, t, tail)
        BY <3>2, <3>5 DEF Taken, new
      <3> QED
        BY <3>2, <3>3, <3>4, <3>6
    <2> QED
      BY <2>1, <2>2, EndingFacts
  <1>5. CASE ~g.haveData /\ g.event = f.event /\ todo = Then(Ending(f.data), tail)
    <2>1. Short(f, g) /\ f.data = Sum(g, f.data)
      BY <1>5 DEF Short, Sum
    <2> QED
      BY <1>1, <1>4, <1>5, <2>1
  <1>6. CASE /\ g.haveData /\ g.event = f.event
             /\ \E b \in Seq(Text) : f.data = After(g.data, b) /\ todo = Then(Ending(b), tail)
    <2>1. PICK b \in Seq(Text) : f.data = After(g.data, b) /\ todo = Then(Ending(b), tail)
      BY <1>6
    <2>2. Short(f, g)
      <3>1. Begins(g.data, After(g.data, b))
        BY <1>1, BeginsAfter
      <3> QED
        BY <1>6, <2>1, <3>1 DEF Short
    <2>3. f.data = Sum(g, b)
      BY <1>6, <2>1 DEF Sum
    <2> QED
      BY <1>4, <1>6, <2>1, <2>2, <2>3
  <1> QED
    BY <1>2, <1>3, <1>5, <1>6 DEF Due

-----------------------------------------------------------------------------
(* Comments.                                                                *)

Remarks == {<<":", "x">>, <<"id", ":", "x">>}

\* rem is todo, with a comment between two lines or without.
Laced(rem, todo) ==
    \/ rem = todo
    \/ \E c \in Remarks, a, b \in TextLines : todo = Then(a, b) /\ rem = Then(a, Onto(c, b))

\* A comment is a line that Scan passes over, and so is the beginning of one.
LEMMA RemarkFacts ==
    ASSUME NEW c \in Remarks, NEW g \in Locals
    PROVE  /\ c \in Seq(Plain) /\ c # <<>>
           /\ \A l \in Seq(Plain) : l # <<>> /\ Begins(l, c) /\ l[1] # ":" => Field(g, l) = g
  <1>1. c = <<":", "x">> \/ c = <<"id", ":", "x">>
    BY Zenon DEF Remarks
  <1>2. ":" \in Plain /\ "x" \in Plain /\ "id" \in Plain
    BY DEF Plain
  <1>3. c \in Seq(Plain) /\ c # <<>> /\ Len(c) >= 1 /\ (c[1] = ":" \/ c[1] = "id")
    <2>1. CASE c = <<":", "x">>
      BY <1>2, <2>1
    <2>2. CASE c = <<"id", ":", "x">>
      BY <1>2, <2>2
    <2> QED
      BY <1>1, <2>1, <2>2
  <1>4. ASSUME NEW l \in Seq(Plain), l # <<>>, Begins(l, c), l[1] # ":" PROVE Field(g, l) = g
    <2>1. l[1] = c[1]
      <3>1. Len(l) \in Nat \ {0}
        BY <1>4, EmptySeq
      <3>2. 1 \in 1..Len(l)
        BY <3>1
      <3> QED
        BY <1>4, <3>2 DEF Begins
    <2>2. l[1] = "id"
      BY <1>3, <1>4, <2>1
    <2> DEFINE n == splitField(l).name
    <2>3. n[1] = "id"
      BY <1>4, <2>2, SplitFacts
    <2> HIDE DEF n
    <2>4. NameOf("data")[1] = "da" /\ NameOf("event")[1] = "ev"
      BY DEF NameOf
    <2>5. n # NameOf("data") /\ n # NameOf("event")
      BY <2>3, <2>4
    <2> QED
      BY <1>4, <2>5, FieldFacts DEF n
  <1> QED
    BY <1>3, <1>4

\* The next line is a comment, or the next of those that are due.
LEMMA LacedStep ==
    ASSUME NEW rem \in TextLines, NEW todo \in TextLines, Laced(rem, todo)
    PROVE  /\ rem = <<>> => todo = <<>>
           /\ rem # <<>> =>
                \E h \in Seq(Plain), r \in TextLines :
                   /\ rem = Onto(h, r)
                   /\ \/ h \in Remarks /\ Laced(r, todo)
                      \/ \E t \in TextLines : todo = Onto(h, t) /\ Laced(r, t)
  <1> DEFINE Next1 == \E h \in Seq(Plain), r \in TextLines :
                         /\ rem = Onto(h, r)
                         /\ \/ h \in Remarks /\ Laced(r, todo)
                            \/ \E t \in TextLines : todo = Onto(h, t) /\ Laced(r, t)
  <1>0. \A t \in TextLines : Laced(t, t)
    BY DEF Laced
  <1>1. CASE rem = todo
    <2>1. ASSUME rem # <<>> PROVE Next1
      <3>1. PICK h \in Seq(Plain), t \in TextLines : rem = Onto(h, t)
        BY <2>1, OntoCases
      <3> QED
        BY <1>0, <1>1, <3>1
    <2> QED
      BY <1>1, <2>1
  <1>2. ASSUME NEW c \in Remarks, NEW a \in TextLines, NEW b \in TextLines,
               todo = Then(a, b), rem = Then(a, Onto(c, b))
        PROVE  rem # <<>> /\ Next1
    <2>1. c \in Seq(Plain)
      <3>1. <<":", "x">> \in Seq(Plain) /\ <<"id", ":", "x">> \in Seq(Plain)
        <4>1. ":" \in Plain /\ "x" \in Plain /\ "id" \in Plain
          BY DEF Plain
        <4> QED
          BY <4>1
      <3>2. c = <<":", "x">> \/ c = <<"id", ":", "x">>
        BY Zenon DEF Remarks
      <3> QED
        BY <3>1, <3>2
    <2>2. Onto(c, b) \in TextLines /\ Onto(c, b) # <<>>
      BY <2>1, OntoFacts
    <2>3. rem # <<>>
      BY <1>2, <2>2, ThenFacts
    <2>4. CASE a = <<>>
      <3>1. Then(a, b) = b /\ Then(a, Onto(c, b)) = Onto(c, b)
        BY <2>2, <2>4, ThenFacts
      <3>2. rem = Onto(c, b) /\ Laced(b, todo)
        BY <1>0, <1>2, <3>1
      <3> QED
        BY <2>1, <2>3, <3>2
    <2>5. CASE a # <<>>
      <3>1. PICK h \in Seq(Plain), s \in TextLines : a = Onto(h, s)
        BY <2>5, OntoCases
      <3> DEFINE r == Then(s, Onto(c, b))
                 t == Then(s, b)
      <3>2. todo = Onto(h, t) /\ t \in TextLines
        BY <1>2, <3>1, OntoFacts
      <3>3. rem = Onto(h, r) /\ r \in TextLines
        BY <1>2, <2>2, <3>1, OntoFacts
      <3>4. Laced(r, t)
        BY DEF Laced
      <3> HIDE DEF r, t
      <3> QED
        BY <2>3, <3>2, <3>3, <3>4
    <2> QED
      BY <2>4, <2>5
  <1> QED
    BY <1>1, <1>2 DEF Laced

-----------------------------------------------------------------------------
(* Data fields on the wire, and lines in what was read.                     *)

\* How many data fields begin in R, as long as it is the wire to come.
Fields(R) == Cardinality({k \in 1..Len(R) : R[k] = "ta"})

\* A line takes its own fields away, at least the one it begins with.
LEMMA FieldsStep ==
    ASSUME NEW R \in Seq(Bytes), R # <<>>
    PROVE  LET l == SubSeq(R, 1, LineLen(R)) IN
           /\ Fields(R) \in Nat /\ Fields(AfterLine(R)) \in Nat
           /\ Fields(AfterLine(R)) <= Fields(R)
           /\ Len(l) >= 2 /\ l[2] = "ta" => Fields(AfterLine(R)) + 1 <= Fields(R)
  <1> DEFINE n == LineLen(R)
             m == Len(R)
             l == SubSeq(R, 1, n)
             crlf == n + 2 <= m /\ R[n + 1] = CR /\ R[n + 2] = LF
             p == n + (IF crlf THEN 3 ELSE 2)
             A == AfterLine(R)
             P == {k \in 1..m : R[k] = "ta"}
             Q == {k \in p..m : R[k] = "ta"}
             T == {k \in 1..Len(A) : A[k] = "ta"}
  <1>1. m \in Nat /\ \A i \in 1..m : R[i] \in Bytes
    OBVIOUS
  <1>2. n \in 0..m /\ \A i \in 1..n : R[i] \in Plain
    BY LineLenFacts
  <1>3. A = SubSeq(R, p, m)
    BY DEF AfterLine
  <1> HIDE DEF n
  <1>4. p \in Nat /\ p >= n + 2
    BY <1>1, <1>2
  <1> HIDE DEF p, m, A
  <1>5. Len(A) = (IF p <= m THEN m - p + 1 ELSE 0) /\ \A i \in 1..(m - p + 1) : A[i] = R[p + i - 1]
    <2>1. p \in Int /\ m \in Int /\ \A i \in p..m : R[i] \in Bytes
      BY <1>1, <1>2, <1>4
    <2> QED
      BY <1>3, <2>1, SubSeqProperties
  <1>6. IsFiniteSet(P) /\ Cardinality(P) \in Nat
    <2>1. IsFiniteSet(1..m)
      BY <1>1, FS_Interval
    <2>2. P \in SUBSET (1..m)
      OBVIOUS
    <2> HIDE DEF P
    <2> QED
      BY <2>1, <2>2, FS_Subset, FS_CardinalityType
  <1>7. Q \subseteq P
    BY <1>1, <1>2, <1>4
  <1>8. IsFiniteSet(Q) /\ Cardinality(Q) \in Nat /\ Cardinality(Q) <= Cardinality(P)
    <2> HIDE DEF P, Q
    <2> QED
      BY <1>6, <1>7, FS_Subset, FS_CardinalityType
  <1> DEFINE f == [k \in Q |-> k - p + 1]
  <1>9. f \in Surjection(Q, T)
    <2>1. ASSUME NEW k \in Q PROVE f[k] \in T
      <3>1. k \in p..m /\ R[k] = "ta"
        OBVIOUS
      <3>2. k - p + 1 \in 1..(m - p + 1) /\ p + (k - p + 1) - 1 = k /\ k - p + 1 \in 1..Len(A)
        BY <1>1, <1>4, <1>5, <3>1
      <3>3. A[k - p + 1] = "ta"
        BY <1>5, <3>1, <3>2
      <3> QED
        BY <3>2, <3>3
    <2>2. ASSUME NEW j \in T PROVE \E k \in Q : f[k] = j
      <3>1. j \in 1..Len(A) /\ A[j] = "ta"
        OBVIOUS
      <3>2. j \in 1..(m - p + 1) /\ p + j - 1 \in p..m /\ (p + j - 1) - p + 1 = j
        BY <1>1, <1>4, <1>5, <3>1
      <3>3. R[p + j - 1] = "ta"
        BY <1>5, <3>1, <3>2
      <3>4. p + j - 1 \in Q
        BY <3>2, <3>3
      <3>5. f[p + j - 1] = j
        BY <3>2, <3>4
      <3> QED
        BY <3>4, <3>5
    <2> HIDE DEF Q, T
    <2>3. f \in [Q -> T]
      BY <2>1
    <2> QED
      BY <2>2, <2>3 DEF Surjection
  <1>10. IsFiniteSet(T) /\ Cardinality(T) \in Nat /\ Cardinality(T) <= Cardinality(Q)
    <2> HIDE DEF Q, T, f
    <2> QED
      BY <1>8, <1>9, FS_Surjection, FS_CardinalityType
  <1>11. ASSUME Len(l) >= 2, l[2] = "ta" PROVE Cardinality(Q) + 1 <= Cardinality(P)
    <2>1. 2 <= n /\ R[2] = "ta"
      <3>1. 1 \in Int /\ n \in Int /\ \A i \in 1..n : R[i] \in Plain
        BY <1>2
      <3>2. Len(l) = (IF 1 <= n THEN n - 1 + 1 ELSE 0) /\ \A i \in 1..(n - 1 + 1) : l[i] = R[1 + i - 1]
        BY <3>1, SubSeqProperties
      <3> HIDE DEF l
      <3>3. Len(l) = n /\ n >= 2
        BY <1>2, <1>11, <3>2
      <3>4. 2 \in 1..(n - 1 + 1)
        BY <1>2, <3>3
      <3>5. l[2] = R[1 + 2 - 1]
        BY <3>2, <3>4
      <3> QED
        BY <1>11, <3>3, <3>5
    <2>2. 2 \in P /\ 2 \notin Q
      BY <1>1, <1>2, <1>4, <2>1
    <2> DEFINE M == P \ {2}
    <2>3. Q \subseteq M
      BY <1>7, <2>2
    <2> HIDE DEF P, Q
    <2>4. IsFiniteSet(M) /\ Cardinality(M) = Cardinality(P) - 1
      BY <1>6, <2>2, FS_RemoveElement
    <2> HIDE DEF M
    <2>5. Cardinality(Q) <= Cardinality(M)
      BY <2>3, <2>4, FS_Subset
    <2> QED
      BY <1>6, <1>8, <2>4, <2>5
  <1>12. Fields(R) = Cardinality(P) /\ Fields(A) = Cardinality(T)
    BY DEF Fields, m
  <1> HIDE DEF P, Q, T, l
  <1>13. Fields(R) \in Nat /\ Fields(A) \in Nat /\ Fields(A) <= Fields(R)
    BY <1>6, <1>8, <1>10, <1>12
  <1>14. ASSUME Len(l) >= 2, l[2] = "ta" PROVE Fields(A) + 1 <= Fields(R)
    BY <1>6, <1>8, <1>10, <1>11, <1>12, <1>14
  <1> QED
    BY <1>13, <1>14 DEF A, n, l

\* The lines of what is gathered.
Held(g) == IF g.haveData THEN Len(Segments(g.data)) ELSE 0

\* A field adds a line to what is gathered only if it is a data field.
LEMMA HeldStep ==
    ASSUME NEW g \in Locals, NEW l \in Seq(Plain), l # <<>>, l[1] # ":"
    PROVE  /\ Held(g) \in Nat /\ Held(Field(g, l)) \in Nat
           /\ Held(Field(g, l)) <= Held(g) + (IF Len(l) >= 2 /\ l[2] = "ta" THEN 1 ELSE 0)
  <1> DEFINE f == splitField(l)
             v == f.value
             new == Field(g, l)
             da == NameOf("data")
             ev == NameOf("event")
  <1>1. v \in Seq(Plain) /\ (f.name = da => Len(l) >= 2 /\ l[2] = "ta")
    BY SplitFacts
  <1>2. /\ new \in Locals
        /\ f.name = ev => new.data = g.data /\ new.haveData = g.haveData
        /\ f.name = da => new.haveData /\ new.data = IF g.haveData THEN After(g.data, v) ELSE v
        /\ f.name \notin {ev, da} => new = g
    BY FieldFacts
  <1> HIDE DEF new, v, f, da, ev
  <1>3. \A x \in Locals : Held(x) \in Nat /\ x.data \in Seq(Text)
    <2> SUFFICES ASSUME NEW x \in Locals PROVE Held(x) \in Nat /\ x.data \in Seq(Text)
      OBVIOUS
    <2>1. x.data \in Seq(Text)
      BY DEF Locals
    <2>2. Segments(x.data) \in Seq(Seq(Text \ {LF}))
      BY <2>1, SegmentsType
    <2>3. Len(Segments(x.data)) \in Nat
      BY <2>2
    <2> QED
      BY <2>1, <2>3 DEF Held
  <1>4. CASE f.name = da
    <2>1. Len(Segments(v)) = 1 /\ Len(Segments(After(g.data, v))) = Len(Segments(g.data)) + 1
      <3>1. v \in Seq(Text \ {LF}) /\ g.data \in Seq(Text) /\ LF \in Text
        BY <1>1, <1>3, TextFacts
      <3> QED
        BY <3>1, SegmentsCount DEF After
    <2>2. Held(new) <= Held(g) + 1
      <3>1. CASE g.haveData
        BY <1>2, <1>3, <1>4, <2>1, <3>1 DEF Held
      <3>2. CASE ~g.haveData
        <4>1. new.data = v /\ new.haveData
          BY <1>2, <1>4, <3>2
        <4>2. Held(g) = 0 /\ Held(new) = Len(Segments(v))
          BY <3>2, <4>1 DEF Held
        <4> QED
          BY <2>1, <4>2
      <3> QED
        BY <3>1, <3>2
    <2> QED
      BY <1>1, <1>2, <1>3, <1>4, <2>2 DEF new
  <1>5. CASE f.name # da
    <2>1. Held(new) = Held(g)
      BY <1>2, <1>5 DEF Held
    <2>2. Held(new) <= Held(g) + (IF Len(l) >= 2 /\ l[2] = "ta" THEN 1 ELSE 0)
      BY <1>3, <2>1
    <2> QED
      BY <1>2, <1>3, <2>2 DEF new
  <1> QED
    BY <1>4, <1>5

\* Frames as they are read, and the lines of their payloads.
Got == [event : Seq(Plain), data : Seq(Text)]
LinesRead(read) == Len(FlattenSeq([k \in 1..Len(read) |-> Segments(read[k].data)]))

\* A frame handed out adds its lines to those read.
LEMMA LinesReadStep ==
    ASSUME NEW read \in Seq(Got), NEW x \in Got
    PROVE  /\ LinesRead(<<>>) = 0
           /\ LinesRead(read) \in Nat /\ Len(Segments(x.data)) \in Nat
           /\ LinesRead(Append(read, x)) = LinesRead(read) + Len(Segments(x.data))
  <1> DEFINE S == Seq(Text \ {LF})
             n == Len(read)
             ss == [k \in 1..n |-> Segments(read[k].data)]
             r == Append(read, x)
             tt == [k \in 1..(n + 1) |-> Segments(r[k].data)]
             e == Segments(x.data)
  <1>1. \A y \in Got : Segments(y.data) \in Seq(S)
    <2> SUFFICES ASSUME NEW y \in Got PROVE Segments(y.data) \in Seq(S)
      OBVIOUS
    <2>1. y.data \in Seq(Text)
      BY DEF Got
    <2> QED
      BY <2>1, SegmentsType
  <1>2. n \in Nat /\ \A k \in 1..n : read[k] \in Got
    OBVIOUS
  <1>3. Len(r) = n + 1 /\ r[n + 1] = x /\ \A k \in 1..n : r[k] = read[k]
    BY AppendProperties
  <1> HIDE DEF S, n, r
  <1>4. e \in Seq(S)
    BY <1>1
  <1>5. ss \in Seq(Seq(S)) /\ Len(ss) = n
    BY <1>1, <1>2
  <1>6. tt = Append(ss, e)
    <2>1. Append(ss, e) \in Seq(Seq(S)) /\ Len(Append(ss, e)) = n + 1 /\ Append(ss, e)[n + 1] = e
          /\ \A k \in 1..n : Append(ss, e)[k] = ss[k]
      <3> HIDE DEF ss, e
      <3> QED
        BY <1>4, <1>5, AppendProperties
    <2>2. /\ \A k \in 1..n : tt[k] = Segments(read[k].data)
          /\ tt[n + 1] = e
      BY <1>2, <1>3
    <2>3. \A k \in 1..(n + 1) : tt[k] \in Seq(S)
      <3> SUFFICES ASSUME NEW k \in 1..(n + 1) PROVE tt[k] \in Seq(S)
        OBVIOUS
      <3>1. k \in 1..n \/ k = n + 1
        BY <1>2
      <3> HIDE DEF tt
      <3> QED
        BY <1>1, <1>2, <1>4, <2>2, <3>1
    <2>4. tt \in Seq(Seq(S)) /\ Len(tt) = n + 1
      BY <1>2, <2>3
    <2>5. \A k \in 1..n : ss[k] = Segments(read[k].data)
      OBVIOUS
    <2> HIDE DEF tt, ss, e
    <2>6. \A k \in 1..Len(tt) : tt[k] = Append(ss, e)[k]
      <3> SUFFICES ASSUME NEW k \in 1..(n + 1) PROVE tt[k] = Append(ss, e)[k]
        BY <2>4
      <3>1. k \in 1..n \/ k = n + 1
        BY <1>2
      <3> QED
        BY <2>1, <2>2, <2>5, <3>1
    <2> DEFINE u == Append(ss, e)
    <2> HIDE DEF u
    <2>7. tt = u
      BY <2>1, <2>4, <2>6, SeqEqual DEF u
    <2> QED
      BY <2>7 DEF u
  <1> DEFINE F == FlattenSeq(ss)
  <1>7. FlattenSeq(Append(ss, e)) = F \o e /\ F \in Seq(S) /\ FlattenSeq(<<>>) = <<>>
    <2> HIDE DEF ss, e
    <2> QED
      BY <1>4, <1>5, FlattenStep
  <1>8. LinesRead(read) = Len(F) /\ LinesRead(r) = Len(FlattenSeq(tt))
    BY <1>3 DEF LinesRead, n
  <1>9. LinesRead(<<>>) = 0
    <2>1. [k \in 1..Len(<<>>) |-> Segments(<<>>[k].data)] = <<>>
      OBVIOUS
    <2> QED
      BY <1>7, <2>1 DEF LinesRead
  <1> HIDE DEF F, ss, tt, e
  <1>10. Len(F \o e) = Len(F) + Len(e) /\ Len(F) \in Nat /\ Len(e) \in Nat
    BY <1>4, <1>7, ConcatProperties
  <1> QED
    BY <1>6, <1>7, <1>8, <1>9, <1>10 DEF r, e
-----------------------------------------------------------------------------
(* The invariant.                                                           *)

Frame(k) == sent.frames[k]

\* What is written after frame n + 1.
Following(n) == IF n = 0 THEN WriteFrame(Frame(2)) ELSE <<>>

\* The lines due when n frames are read and g is gathered.
Reading(todo, g, n) ==
    IF n < 2 THEN Due(Frame(n + 1), g, todo, Following(n))
    ELSE todo = <<>> /\ ~g.haveData

\* The wire to come begins the lines that are due, and is them if it came whole.
Ahead(rest, g, n) ==
    \E eol \in LineEnds, rem \in TextLines, todo \in TextLines :
        /\ Laced(rem, todo) /\ Reading(todo, g, n)
        /\ Begins(rest, Joined(rem, eol))
        /\ ~sent.cut => rest = Joined(rem, eol)

\* The wire ended in the middle of a line.
Stranded(rest, g, n) ==
    /\ rest = <<>> /\ sent.cut
    /\ IF n < 2 THEN Short(Frame(n + 1), g) ELSE ~g.haveData

SentOK ==
    /\ sent.frames \in Seq(Written) /\ Len(sent.frames) = 2
    /\ sent.cut \in BOOLEAN /\ sent.ending \in {"EOF", "reset"} /\ sent.dataFields \in Nat

Scanners == [rest : Seq(Bytes), locals : Locals, read : Seq(Got), done : BOOLEAN,
             err : {"none", "tooLong", "reset"}]

\* While it reads, the frames read are those written, and the lines of all that
\* was read come from fields that began before the end of the wire.
Going(x) ==
    /\ x.err = "none"
    /\ Len(x.read) <= 2 /\ \A k \in 1..Len(x.read) : x.read[k] = Frame(k)
    /\ \/ Ahead(x.rest, x.locals, Len(x.read))
       \/ Stranded(x.rest, x.locals, Len(x.read))
    /\ LinesRead(x.read) + Held(x.locals) + Fields(x.rest) <= sent.dataFields

\* When it is done, the last may be one that the cut left.
Gone(x) ==
    /\ Len(x.read) <= 2
    /\ \A k \in 1..Len(x.read) :
          \/ x.read[k] = Frame(k)
          \/ k = Len(x.read) /\ x.err = "none" /\ sent.cut /\ CutFrom(x.read[k], Frame(k))
    /\ LinesRead(x.read) <= sent.dataFields
    /\ x.err = "none" => sent.ending = "EOF" /\ (sent.cut \/ Len(x.read) = 2)

ScanKept(x) == x \in Scanners /\ (IF x.done THEN Gone(x) ELSE Going(x))

FramesInv == SentOK /\ ScanKept(sse)

\* From the wire, readLine takes its first line or the beginning of that.
LEMMA ReadWire ==
    ASSUME NEW R \in Seq(Bytes), NEW h \in Seq(Plain), NEW r \in TextLines, NEW eol \in LineEnds,
           Begins(R, Joined(Onto(h, r), eol))
    PROVE  LET l == SubSeq(R, 1, LineLen(R))
               W == Joined(Onto(h, r), eol) IN
           /\ l \in Seq(Plain) /\ AfterLine(R) \in Seq(Bytes) /\ W # <<>>
           /\ \/ l = R /\ AfterLine(R) = <<>> /\ Begins(l, h) /\ R # W
              \/ /\ l = h /\ Begins(AfterLine(R), Joined(r, eol))
                 /\ R = W => AfterLine(R) = Joined(r, eol)
  <1> DEFINE l == SubSeq(R, 1, LineLen(R))
             W == Joined(Onto(h, r), eol)
             J == Joined(r, eol)
             A == AfterLine(R)
  <1>1. W = (h \o eol) \o J /\ J \in Seq(Bytes)
    BY JoinedFirst DEF Onto
  <1>2. J # <<>> /\ eol = <<CR>> => J[1] # LF
    BY JoinedByte
  <1>3. W # <<>>
    <2>1. h \in Seq(Bytes) /\ eol \in Seq(Bytes) /\ Len(eol) \in 1..2
      BY PlainBytes
    <2> DEFINE V == h \o eol
    <2>2. V \in Seq(Bytes) /\ Len(V) = Len(h) + Len(eol) /\ Len(h) \in Nat
      BY <2>1, ConcatProperties
    <2>4. W = V \o J /\ J \in Seq(Bytes)
      BY <1>1 DEF V
    <2> DEFINE v == Len(V)
               j == Len(J)
    <2> HIDE DEF V, J, W
    <2>3. Len(V \o J) = v + j /\ j \in Nat /\ v \in Nat
      <3>1. V \in Seq(Bytes) /\ J \in Seq(Bytes)
        BY <2>2, <2>4
      <3> QED
        BY <3>1, ConcatProperties, LenProperties
    <2>6. v >= 1
      <3> DEFINE a == Len(h)
                 b == Len(eol)
      <3>1. v = a + b /\ a \in Nat /\ b \in 1..2
        BY <2>1, <2>2
      <3> HIDE DEF a, b, v
      <3> QED
        BY <3>1
    <2> HIDE DEF v, j
    <2>5. Len(V \o J) >= 1
      BY <2>3, <2>6
    <2> QED
      BY <2>4, <2>5, EmptySeq
  <1>4. Begins(R, (h \o eol) \o J)
    BY <1>1
  <1> HIDE DEF J
  <1>5. /\ l \in Seq(Plain) /\ A \in Seq(Bytes)
        /\ Len(R) <= Len(h) => l = R /\ A = <<>> /\ Begins(R, h)
        /\ Len(R) > Len(h) => l = h /\ Begins(A, J)
        /\ R = (h \o eol) \o J => A = J /\ Len(R) > Len(h)
    BY <1>1, <1>2, <1>4, ReadLine, ZenonT(60)
  <1>6. R = W => A = J /\ Len(R) > Len(h)
    BY <1>1, <1>5
  <1> HIDE DEF l, A, W
  <1>7. Len(R) \in Nat /\ Len(h) \in Nat
    OBVIOUS
  <1>8. \/ l = R /\ A = <<>> /\ Begins(l, h) /\ R # W
        \/ l = h /\ Begins(A, J) /\ (R = W => A = J)
    <2>1. CASE Len(R) <= Len(h)
      <3>1. l = R /\ A = <<>> /\ Begins(R, h)
        BY <1>5, <2>1
      <3>2. R # W
        BY <1>6, <1>7, <2>1
      <3> QED
        BY <3>1, <3>2
    <2>2. CASE Len(R) > Len(h)
      BY <1>5, <1>6, <2>2
    <2> QED
      BY <1>7, <2>1, <2>2
  <1> QED
    BY <1>3, <1>5, <1>8 DEF l, A, W, J

\* Nothing is gathered at first.
LEMMA FreshFacts == Fresh \in Locals /\ ~Fresh.haveData /\ Fresh.event = <<>>
  <1> DEFINE e == <<>>
  <1>1. e \in Seq(Plain) /\ e \in Seq(Text)
    BY BlankFacts, TextFacts
  <1>2. Fresh = [event |-> e, data |-> e, haveData |-> FALSE]
    BY DEF Fresh
  <1>3. Fresh.data = e /\ Fresh.event = e /\ ~Fresh.haveData
    BY <1>2
  <1> HIDE DEF e
  <1>4. Fresh \in [event : Seq(Plain), data : Seq(Text), haveData : BOOLEAN]
    BY <1>1, <1>2
  <1> QED
    BY <1>3, <1>4 DEF Locals, e

\* The frames are of those that may be written, and so are the lines after one.
LEMMA SentFacts ==
    ASSUME SentOK
    PROVE  /\ Frame(1) \in Written /\ Frame(2) \in Written
           /\ \A n \in {0, 1} : Frame(n + 1) \in Written /\ Following(n) \in TextLines
           /\ Following(1) = <<>> /\ Following(0) = WriteFrame(Frame(2))
           /\ \A f \in Written : Due(f, Fresh, WriteFrame(f), <<>>)
           /\ Fresh \in Locals /\ ~Fresh.haveData
  <1>1. Frame(1) \in Written /\ Frame(2) \in Written
    BY DEF SentOK, Frame
  <1>2. Following(1) = <<>> /\ Following(0) = WriteFrame(Frame(2))
    BY DEF Following
  <1>3. Following(0) \in TextLines /\ Following(1) \in TextLines
    BY <1>1, <1>2, WrittenFacts, BlankFacts
  <1>4. Fresh \in Locals /\ ~Fresh.haveData /\ Fresh.event = <<>>
    BY FreshFacts
  <1>5. ASSUME NEW f \in Written PROVE Due(f, Fresh, WriteFrame(f), <<>>)
    <2> DEFINE e == <<>>
    <2>1. Ending(f.data) \in TextLines
      BY WrittenFacts, EndingFacts
    <2>2. Then(Ending(f.data), e) = Ending(f.data)
      BY <2>1, ThenFacts
    <2>3. CASE f.event = <<>>
      <3>1. WriteFrame(f) = Ending(f.data)
        BY <2>3, WrittenFacts
      <3> HIDE DEF e
      <3>2. Due(f, Fresh, WriteFrame(f), e)
        BY <1>4, <2>2, <2>3, <3>1 DEF Due
      <3> QED
        BY <3>2 DEF e
    <2>4. CASE f.event # <<>>
      <3>1. WriteFrame(f) = Onto(Line("event", f.event), Ending(f.data))
        BY <2>4, WrittenFacts
      <3> HIDE DEF e
      <3>2. Due(f, Fresh, WriteFrame(f), e)
        BY <1>4, <2>2, <2>4, <3>1 DEF Due
      <3> QED
        BY <3>2 DEF e
    <2> QED
      BY <2>3, <2>4
  <1>6. \A n \in {0, 1} : Frame(n + 1) \in Written /\ Following(n) \in TextLines
    <2>1. 0 + 1 = 1 /\ 1 + 1 = 2
      OBVIOUS
    <2> QED
      BY <1>1, <1>3, <2>1
  <1> QED
    BY <1>1, <1>2, <1>3, <1>4, <1>5, <1>6

\* While frames are due there are lines, and at the end of the wire what is
\* gathered is the beginning of one.
LEMMA AheadFacts ==
    ASSUME SentOK, NEW g \in Locals, NEW n \in 0..2, NEW todo \in TextLines, Reading(todo, g, n)
    PROVE  /\ n < 2 => Short(Frame(n + 1), g) /\ todo # <<>>
           /\ n = 2 => ~g.haveData /\ todo = <<>>
  <1>1. CASE n < 2
    <2>1. n \in {0, 1} /\ n # 2
      BY <1>1
    <2>2. Frame(n + 1) \in Written /\ Following(n) \in TextLines
      BY <2>1, SentFacts
    <2>3. Due(Frame(n + 1), g, todo, Following(n))
      BY <1>1 DEF Reading
    <2>4. /\ Short(Frame(n + 1), g)
          /\ \E h \in Seq(Plain), t \in TextLines : todo = Onto(h, t)
      BY <2>2, <2>3, DueStep
    <2> QED
      BY <2>1, <2>4, OntoFacts
  <1>2. CASE n = 2
    BY <1>2 DEF Reading
  <1> QED
    BY <1>1, <1>2

\* One line: the wire goes on, a frame is complete, or the wire stops there.
LEMMA LineRead ==
    ASSUME SentOK, NEW R \in Seq(Bytes), R # <<>>, NEW g \in Locals, NEW n \in 0..2, Ahead(R, g, n)
    PROVE  LET l == SubSeq(R, 1, LineLen(R))
               A == AfterLine(R)
               new == IF l[1] = ":" THEN g ELSE Field(g, l) IN
           /\ l \in Seq(Plain) /\ A \in Seq(Bytes)
           /\ l # <<>> => Ahead(A, new, n) \/ Stranded(A, new, n)
           /\ l = <<>> /\ g.haveData =>
                 n < 2 /\ Dispatched(g) = Frame(n + 1) /\ Ahead(A, Fresh, n + 1)
           /\ l = <<>> => g.haveData
  <1> DEFINE l == SubSeq(R, 1, LineLen(R))
             A == AfterLine(R)
             new == IF l[1] = ":" THEN g ELSE Field(g, l)
  <1>1. PICK eol \in LineEnds, rem \in TextLines, todo \in TextLines :
           /\ Laced(rem, todo) /\ Reading(todo, g, n)
           /\ Begins(R, Joined(rem, eol))
           /\ ~sent.cut => R = Joined(rem, eol)
    BY DEF Ahead
  <1>2. rem # <<>>
    <2> SUFFICES ASSUME rem = <<>> PROVE FALSE
      OBVIOUS
    <2>1. Joined(<<>>, eol) = <<>>
      <3>1. rem \in Seq(Plain)
        BY BlankFacts
      <3> QED
        BY <3>1, JoinedStep
    <2>2. Begins(R, <<>>)
      BY <1>1, <2>1
    <2>3. Len(R) \in Nat /\ Len(R) # 0
      BY EmptySeq
    <2> QED
      BY <2>2, <2>3 DEF Begins
  <1>3. PICK h \in Seq(Plain), r \in TextLines :
           /\ rem = Onto(h, r)
           /\ \/ h \in Remarks /\ Laced(r, todo)
              \/ \E t \in TextLines : todo = Onto(h, t) /\ Laced(r, t)
    BY <1>1, <1>2, LacedStep
  <1> DEFINE J == Joined(r, eol)
             W == Joined(Onto(h, r), eol)
  <1>4. Begins(R, W) /\ (~sent.cut => R = W)
    BY <1>1, <1>3
  <1>5. /\ l \in Seq(Plain) /\ A \in Seq(Bytes) /\ W # <<>>
        /\ \/ l = R /\ A = <<>> /\ Begins(l, h) /\ R # W
           \/ l = h /\ Begins(A, J) /\ (R = W => A = J)
    BY <1>4, ReadWire
  <1>6. \A t \in TextLines : \A x, k :
           Laced(r, t) /\ Reading(t, x, k) /\ Begins(A, J) /\ (R = W => A = J) => Ahead(A, x, k)
    BY <1>4 DEF Ahead
  <1> HIDE DEF l, A, J, W
  <1>7. SUFFICES /\ l # <<>> => Ahead(A, new, n) \/ Stranded(A, new, n)
                 /\ l = <<>> => /\ g.haveData /\ n < 2 /\ Dispatched(g) = Frame(n + 1)
                                /\ Ahead(A, Fresh, n + 1)
    BY <1>5 DEF l, A
  <1>8. /\ n < 2 => Short(Frame(n + 1), g) /\ todo # <<>>
        /\ n = 2 => ~g.haveData /\ todo = <<>>
    BY <1>1, AheadFacts
  <1>9. SentOK /\ sent.cut \in BOOLEAN
    BY DEF SentOK
  <1>10. CASE h \in Remarks /\ Laced(r, todo)
    <2>1. h # <<>> /\ \A x \in Seq(Plain) : x # <<>> /\ Begins(x, h) /\ x[1] # ":" => Field(g, x) = g
      BY <1>10, RemarkFacts
    <2>2. CASE l = R /\ A = <<>> /\ Begins(l, h) /\ R # W
      <3>1. l # <<>> /\ new = g
        BY <1>5, <2>1, <2>2
      <3>2. sent.cut
        BY <1>4, <2>2
      <3>3. Stranded(A, g, n)
        BY <1>8, <2>2, <3>2 DEF Stranded
      <3> QED
        BY <3>1, <3>3
    <2>3. CASE l = h /\ Begins(A, J) /\ (R = W => A = J)
      <3>1. Begins(h, h)
        BY DEF Begins
      <3>2. l # <<>> /\ new = g
        BY <2>1, <2>3, <3>1
      <3>3. Ahead(A, g, n)
        BY <1>1, <1>6, <1>10, <2>3
      <3> QED
        BY <3>2, <3>3
    <2> QED
      BY <1>5, <2>2, <2>3
  <1>11. CASE \E t \in TextLines : todo = Onto(h, t) /\ Laced(r, t)
    <2>1. PICK t \in TextLines : todo = Onto(h, t) /\ Laced(r, t)
      BY <1>11
    <2>2. n < 2 /\ n \in {0, 1}
      <3>1. todo # <<>>
        BY <2>1, OntoFacts
      <3>2. n # 2
        BY <1>8, <3>1
      <3> QED
        BY <3>2
    <2> DEFINE f == Frame(n + 1)
               tail == Following(n)
    <2>3. f \in Written /\ tail \in TextLines
      BY <1>9, <2>2, SentFacts
    <2>4. Due(f, g, todo, tail)
      BY <1>1, <2>2 DEF Reading
    <2> HIDE DEF f, tail
    <2>5. Taken(f, g, h, t, tail)
      <3>1. \E h2 \in Seq(Plain), t2 \in TextLines : todo = Onto(h2, t2) /\ Taken(f, g, h2, t2, tail)
        BY <2>3, <2>4, DueStep
      <3>2. PICK h2 \in Seq(Plain), t2 \in TextLines : todo = Onto(h2, t2) /\ Taken(f, g, h2, t2, tail)
        BY <3>1
      <3>3. h = h2 /\ t = t2
        <4>1. Onto(h, t) = Onto(h2, t2)
          BY <2>1, <3>2
        <4> QED
          BY <3>2, <4>1, OntoFacts
      <3> QED
        BY <3>2, <3>3
    <2>6. CASE h = <<>> /\ g.haveData /\ Dispatched(g) = f /\ t = tail
      <3>1. ~Begins(R, h)
        <4>1. Len(R) \in Nat /\ Len(R) # 0
          BY EmptySeq
        <4> QED
          BY <2>6, <4>1 DEF Begins
      <3>2. l = h /\ Begins(A, J) /\ (R = W => A = J)
        BY <1>5, <3>1
      <3>3. Reading(t, Fresh, n + 1)
        <4>1. CASE n = 0
          <5>1. n + 1 = 1 /\ 1 < 2 /\ 1 + 1 = 2
            BY <4>1
          <5>2. t = WriteFrame(Frame(2)) /\ Following(1) = <<>> /\ Frame(2) \in Written
            BY <1>9, <2>6, <4>1, SentFacts DEF tail
          <5>3. Due(Frame(2), Fresh, t, Following(1))
            BY <1>9, <5>2, SentFacts
          <5> QED
            BY <5>1, <5>3 DEF Reading
        <4>2. CASE n = 1
          <5>1. n + 1 = 2 /\ ~(2 < 2)
            BY <4>2
          <5>2. t = <<>> /\ ~Fresh.haveData
            BY <1>9, <2>6, <4>2, SentFacts DEF tail
          <5> QED
            BY <5>1, <5>2 DEF Reading
        <4> QED
          BY <2>2, <4>1, <4>2
      <3>4. Ahead(A, Fresh, n + 1)
        BY <1>6, <2>1, <3>2, <3>3
      <3> QED
        BY <2>2, <2>6, <3>2, <3>4 DEF f
    <2>7. CASE /\ h # <<>> /\ h[1] # ":" /\ Due(f, Field(g, h), t, tail)
               /\ \A x \in Seq(Plain) :
                     x # <<>> /\ Begins(x, h) => x[1] # ":" /\ Short(f, Field(g, x))
      <3>1. CASE l = R /\ A = <<>> /\ Begins(l, h) /\ R # W
        <4>1. l # <<>> /\ new = Field(g, l) /\ Short(f, Field(g, l))
          BY <1>5, <2>7, <3>1
        <4>2. sent.cut
          BY <1>4, <3>1
        <4>3. Stranded(A, Field(g, l), n)
          BY <2>2, <3>1, <4>1, <4>2 DEF Stranded, f
        <4> QED
          BY <4>1, <4>3
      <3>2. CASE l = h /\ Begins(A, J) /\ (R = W => A = J)
        <4>1. l # <<>> /\ new = Field(g, h)
          BY <2>7, <3>2
        <4>2. Reading(t, Field(g, h), n)
          BY <2>2, <2>7 DEF Reading, f, tail
        <4>3. Ahead(A, Field(g, h), n)
          BY <1>6, <2>1, <3>2, <4>2
        <4> QED
          BY <4>1, <4>3
      <3> QED
        BY <1>5, <3>1, <3>2
    <2> QED
      BY <2>5, <2>6, <2>7 DEF Taken
  <1> QED
    BY <1>3, <1>10, <1>11

-----------------------------------------------------------------------------
(* The steps of Scan.                                                       *)

\* The parts of a Scanner.
LEMMA ScannerFacts ==
    ASSUME NEW s \in Scanners
    PROVE  /\ s.rest \in Seq(Bytes) /\ s.locals \in Locals /\ s.read \in Seq(Got)
           /\ s.done \in BOOLEAN /\ Len(s.read) \in Nat
  <1>1. /\ s.rest \in Seq(Bytes) /\ s.locals \in Locals /\ s.read \in Seq(Got)
        /\ s.done \in BOOLEAN
    BY DEF Scanners
  <1> QED
    BY <1>1

\* The counts are numbers.
LEMMA CountTypes ==
    ASSUME NEW s \in Scanners
    PROVE  Held(s.locals) \in Nat /\ LinesRead(s.read) \in Nat
  <1>1. s.locals \in Locals /\ s.read \in Seq(Got)
    BY ScannerFacts
  <1>2. s.locals.data \in Seq(Text)
    BY <1>1 DEF Locals
  <1>3. Len(Segments(s.locals.data)) \in Nat
    BY <1>2, SegmentsType, LenProperties
  <1>4. Held(s.locals) \in Nat
    BY <1>3 DEF Held
  <1>5. [event |-> s.locals.event, data |-> s.locals.data] \in Got
    BY <1>1 DEF Locals, Got
  <1> QED
    BY <1>1, <1>4, <1>5, LinesReadStep

\* The count of data fields, and that of no wire.
LEMMA FieldsType ==
    ASSUME NEW R \in Seq(Bytes)
    PROVE  Fields(R) \in Nat /\ (R = <<>> => Fields(R) = 0)
  <1>1. CASE R # <<>>
    BY <1>1, FieldsStep
  <1>2. CASE R = <<>>
    <2>1. {k \in 1..Len(R) : R[k] = "ta"} = {}
      BY <1>2
    <2> QED
      BY <1>2, <2>1, FS_EmptySet DEF Fields
  <1> QED
    BY <1>1, <1>2

\* At the end of the wire: a frame is still due only if the wire was cut.
LEMMA AheadEnd ==
    ASSUME SentOK, NEW R, R = <<>>, NEW g \in Locals, NEW n \in 0..2,
           Ahead(R, g, n) \/ Stranded(R, g, n)
    PROVE  /\ n < 2 => sent.cut /\ Short(Frame(n + 1), g)
           /\ n = 2 => ~g.haveData
  <1>1. CASE Stranded(R, g, n)
    <2>1. sent.cut /\ (IF n < 2 THEN Short(Frame(n + 1), g) ELSE ~g.haveData)
      BY <1>1 DEF Stranded
    <2>2. n = 2 => ~(n < 2)
      OBVIOUS
    <2> QED
      BY <2>1, <2>2
  <1>2. CASE Ahead(R, g, n)
    <2>1. PICK eol \in LineEnds, rem \in TextLines, todo \in TextLines :
             /\ Laced(rem, todo) /\ Reading(todo, g, n)
             /\ Begins(R, Joined(rem, eol))
             /\ ~sent.cut => R = Joined(rem, eol)
      BY <1>2 DEF Ahead
    <2>2. /\ n < 2 => Short(Frame(n + 1), g) /\ todo # <<>>
          /\ n = 2 => ~g.haveData /\ todo = <<>>
      BY <2>1, AheadFacts
    <2>3. ASSUME n < 2, ~sent.cut PROVE FALSE
      <3>1. rem # <<>>
        BY <2>1, <2>2, <2>3, LacedStep
      <3>2. PICK h \in Seq(Plain), r \in TextLines : rem = Onto(h, r)
        BY <3>1, OntoCases
      <3>3. Begins(R, Joined(Onto(h, r), eol)) /\ R = Joined(Onto(h, r), eol)
        BY <2>1, <2>3, <3>2
      <3>4. R \in Seq(Bytes)
        OBVIOUS
      <3>5. Joined(Onto(h, r), eol) # <<>>
        BY <3>3, <3>4, ReadWire, ZenonT(60)
      <3> QED
        BY <3>3, <3>5
    <2>4. sent.cut \in BOOLEAN
      BY DEF SentOK
    <2> QED
      BY <2>2, <2>3, <2>4
  <1> QED
    BY <1>1, <1>2

\* A field, a comment or a line of no interest.
LEMMA KeptField ==
    ASSUME SentOK, NEW s, ScanKept(s), ~s.done, s.rest # <<>>,
           SubSeq(s.rest, 1, LineLen(s.rest)) # <<>>
    PROVE  LET l == SubSeq(s.rest, 1, LineLen(s.rest)) IN
           ScanKept([s EXCEPT !.rest = AfterLine(@),
                          !.locals = IF l[1] = ":" THEN @ ELSE Field(@, l)])
  <1> DEFINE R == s.rest
             g == s.locals
             n == Len(s.read)
             l == SubSeq(R, 1, LineLen(R))
             A == AfterLine(R)
             new == IF l[1] = ":" THEN g ELSE Field(g, l)
             x == [s EXCEPT !.rest = AfterLine(@),
                            !.locals = IF l[1] = ":" THEN @ ELSE Field(@, l)]
  <1>1. /\ s \in Scanners /\ s.err = "none"
        /\ n <= 2 /\ \A k \in 1..n : s.read[k] = Frame(k)
        /\ Ahead(R, g, n) \/ Stranded(R, g, n)
        /\ LinesRead(s.read) + Held(g) + Fields(R) <= sent.dataFields
    BY DEF ScanKept, Going
  <1>2. R \in Seq(Bytes) /\ g \in Locals /\ s.read \in Seq(Got) /\ n \in Nat
    BY <1>1, ScannerFacts
  <1>3. Ahead(R, g, n) /\ n \in 0..2
    <2>1. ~Stranded(R, g, n)
      BY Zenon DEF Stranded
    <2>2. n \in 0..2
      <3>1. n \in Nat /\ n <= 2
        BY <1>1, <1>2, Zenon
      <3> HIDE DEF n
      <3> QED
        BY <3>1
    <2> QED
      BY <1>1, <2>1, <2>2
  <1>4. /\ l \in Seq(Plain) /\ A \in Seq(Bytes) /\ l # <<>>
        /\ Ahead(A, new, n) \/ Stranded(A, new, n)
    BY <1>2, <1>3, LineRead
  <1>5. /\ Fields(R) \in Nat /\ Fields(A) \in Nat /\ Fields(A) <= Fields(R)
        /\ Len(l) >= 2 /\ l[2] = "ta" => Fields(A) + 1 <= Fields(R)
    BY <1>2, FieldsStep
  <1>6. s = [rest |-> R, locals |-> g, read |-> s.read, done |-> s.done, err |-> s.err]
    BY <1>1 DEF Scanners
  <1>7. x = [rest |-> A, locals |-> new, read |-> s.read, done |-> s.done, err |-> s.err]
    <2>1. x = [s EXCEPT !.rest = A, !.locals = new]
      BY Zenon
    <2> HIDE DEF A, new, x, R, g
    <2> QED
      BY <1>6, <2>1
  <1> HIDE DEF l, A
  <1>9. new \in Locals /\ Held(new) \in Nat /\ Held(g) \in Nat
        /\ Held(new) <= Held(g) + (IF Len(l) >= 2 /\ l[2] = "ta" THEN 1 ELSE 0)
    <2>1. CASE l[1] = ":"
      <3>1. new = g
        BY <2>1
      <3>2. Held(g) \in Nat
        BY <1>1, CountTypes
      <3> HIDE DEF new
      <3> QED
        BY <1>2, <3>1, <3>2
    <2>2. CASE l[1] # ":"
      <3>1. new = Field(g, l)
        BY <2>2
      <3> HIDE DEF new
      <3> QED
        BY <1>2, <1>4, <2>2, <3>1, FieldFacts, HeldStep
    <2> QED
      BY <2>1, <2>2
  <1> HIDE DEF new
  <1>10. LinesRead(s.read) \in Nat /\ sent.dataFields \in Nat
    BY <1>1, CountTypes DEF SentOK
  <1>11. LinesRead(s.read) + Held(new) + Fields(A) <= sent.dataFields
    BY <1>1, <1>5, <1>9, <1>10, SMTT(30)
  <1>12. x \in Scanners /\ ~x.done /\ x.rest = A /\ x.locals = new /\ x.read = s.read /\ x.err = "none"
    BY <1>1, <1>2, <1>4, <1>7, <1>9 DEF Scanners
  <1> HIDE DEF R, g, n, x
  <1>13. Going(x)
    BY <1>1, <1>4, <1>11, <1>12 DEF Going, n
  <1>14. ScanKept(x)
    BY <1>12, <1>13 DEF ScanKept
  <1> QED
    BY <1>14 DEF x, l, R

\* A blank line hands out the frame that was written.
LEMMA KeptBlank ==
    ASSUME SentOK, NEW s, ScanKept(s), ~s.done, s.rest # <<>>,
           SubSeq(s.rest, 1, LineLen(s.rest)) = <<>>
    PROVE  /\ s.locals.haveData
           /\ ScanKept([s EXCEPT !.rest = AfterLine(@), !.locals = Fresh,
                             !.read = Append(@, Dispatched(s.locals))])
  <1> DEFINE R == s.rest
             g == s.locals
             read == s.read
             n == Len(read)
             l == SubSeq(R, 1, LineLen(R))
             A == AfterLine(R)
             d == Dispatched(g)
             more == Append(read, d)
             x == [s EXCEPT !.rest = AfterLine(@), !.locals = Fresh,
                            !.read = Append(@, Dispatched(s.locals))]
  <1>1. /\ s \in Scanners /\ s.err = "none"
        /\ n <= 2 /\ \A k \in 1..n : read[k] = Frame(k)
        /\ Ahead(R, g, n) \/ Stranded(R, g, n)
        /\ LinesRead(read) + Held(g) + Fields(R) <= sent.dataFields
    BY DEF ScanKept, Going
  <1>2. R \in Seq(Bytes) /\ g \in Locals /\ read \in Seq(Got) /\ n \in Nat
    BY <1>1, ScannerFacts
  <1>3. Ahead(R, g, n) /\ n \in 0..2
    <2>1. ~Stranded(R, g, n)
      BY Zenon DEF Stranded
    <2>2. n \in 0..2
      <3>1. n \in Nat /\ n <= 2
        BY <1>1, <1>2, Zenon
      <3> HIDE DEF n
      <3> QED
        BY <3>1
    <2> QED
      BY <1>1, <2>1, <2>2
  <1>4. /\ g.haveData /\ A \in Seq(Bytes)
        /\ n < 2 /\ d = Frame(n + 1) /\ Ahead(A, Fresh, n + 1)
    BY <1>2, <1>3, LineRead
  <1>5. Fields(R) \in Nat /\ Fields(A) \in Nat /\ Fields(A) <= Fields(R)
    BY <1>2, FieldsStep
  <1>6. s = [rest |-> R, locals |-> g, read |-> read, done |-> s.done, err |-> s.err]
    BY <1>1 DEF Scanners
  <1>7. x = [rest |-> A, locals |-> Fresh, read |-> more, done |-> s.done, err |-> s.err]
    <2>1. x = [s EXCEPT !.rest = A, !.locals = Fresh, !.read = more]
      BY Zenon
    <2> HIDE DEF A, x, R, g, more, read
    <2> QED
      BY <1>6, <2>1
  <1>8. d \in Got /\ d.data = g.data
    BY <1>2 DEF Dispatched, Got, Locals
  <1> HIDE DEF d
  <1>9. LinesRead(more) = LinesRead(read) + Held(g) /\ LinesRead(read) \in Nat /\ Held(g) \in Nat
    <2>1. LinesRead(more) = LinesRead(read) + Len(Segments(d.data))
      BY <1>2, <1>8, LinesReadStep
    <2>2. Held(g) = Len(Segments(d.data))
      BY <1>4, <1>8 DEF Held
    <2> HIDE DEF more, g
    <2> QED
      BY <1>1, <2>1, <2>2, CountTypes DEF g
  <1>10. Held(Fresh) = 0 /\ Fresh \in Locals
    BY SentFacts DEF Held
  <1>11. /\ more \in Seq(Got) /\ Len(more) = n + 1
         /\ more[n + 1] = d /\ \A k \in 1..n : more[k] = read[k]
    BY <1>2, <1>8, AppendProperties
  <1> HIDE DEF A, R, g, read, n, more
  <1>12. \A k \in 1..(n + 1) : more[k] = Frame(k)
    <2>1. \A k \in 1..(n + 1) : k \in 1..n \/ k = n + 1
      BY <1>2
    <2> QED
      BY <1>1, <1>4, <1>11, <2>1
  <1>13. LinesRead(more) + Held(Fresh) + Fields(A) <= sent.dataFields
    <2>1. sent.dataFields \in Nat
      BY DEF SentOK
    <2> QED
      BY <1>1, <1>5, <1>9, <1>10, <2>1
  <1>14. x \in Scanners /\ ~x.done /\ x.rest = A /\ x.locals = Fresh /\ x.read = more /\ x.err = "none"
    BY <1>1, <1>4, <1>7, <1>10, <1>11 DEF Scanners
  <1> HIDE DEF x
  <1>15. Going(x)
    <2>1. Len(x.read) = n + 1 /\ n + 1 <= 2
      BY <1>2, <1>4, <1>11, <1>14
    <2> QED
      BY <1>4, <1>12, <1>13, <1>14, <2>1 DEF Going
  <1>16. ScanKept(x)
    BY <1>14, <1>15 DEF ScanKept
  <1> QED
    BY <1>4, <1>16 DEF x, g

\* A line that is too long ends the reading with an error.
LEMMA KeptTooLong ==
    ASSUME SentOK, NEW s, ScanKept(s), ~s.done, NEW e \in {"tooLong", "reset"}
    PROVE  ScanKept([s EXCEPT !.done = TRUE, !.err = e])
  <1> DEFINE x == [s EXCEPT !.done = TRUE, !.err = e]
             read == s.read
  <1>1. /\ s \in Scanners
        /\ Len(read) <= 2 /\ \A k \in 1..Len(read) : read[k] = Frame(k)
        /\ LinesRead(read) + Held(s.locals) + Fields(s.rest) <= sent.dataFields
    BY DEF ScanKept, Going
  <1>2. x \in Scanners /\ x.done /\ x.err = e /\ x.read = read
    BY <1>1 DEF Scanners
  <1>4. LinesRead(read) <= sent.dataFields
    <2>1. Held(s.locals) \in Nat /\ LinesRead(read) \in Nat
      BY <1>1, CountTypes
    <2>2. Fields(s.rest) \in Nat
      BY <1>1, FieldsType, ScannerFacts
    <2>3. sent.dataFields \in Nat
      BY DEF SentOK
    <2> DEFINE a == LinesRead(read)
               b == Held(s.locals)
               c == Fields(s.rest)
               m == sent.dataFields
    <2>4. a + b + c <= m /\ a \in Nat /\ b \in Nat /\ c \in Nat /\ m \in Nat
      BY <1>1, <2>1, <2>2, <2>3, Zenon
    <2> HIDE DEF a, b, c, m
    <2>5. a <= m
      BY <2>4
    <2> QED
      BY <2>5 DEF a, m
  <1> HIDE DEF x, read
  <1>5. Gone(x)
    <2>1. e # "none"
      OBVIOUS
    <2> QED
      BY <1>1, <1>2, <1>4, <2>1 DEF Gone
  <1>6. ScanKept(x)
    BY <1>2, <1>5 DEF ScanKept
  <1> QED
    BY <1>6 DEF x

\* The end of the wire: what was gathered may be handed out, if the wire was cut.
LEMMA KeptEnd ==
    ASSUME SentOK, NEW s, ScanKept(s), ~s.done, s.rest = <<>>, sent.ending # "reset"
    PROVE  /\ s.locals.haveData =>
                ScanKept([s EXCEPT !.done = TRUE, !.read = Append(@, Dispatched(s.locals))])
           /\ ~s.locals.haveData => ScanKept([s EXCEPT !.done = TRUE])
  <1> DEFINE R == s.rest
             g == s.locals
             read == s.read
             n == Len(read)
             d == Dispatched(g)
             more == Append(read, d)
             x == [s EXCEPT !.done = TRUE, !.read = Append(@, Dispatched(s.locals))]
             y == [s EXCEPT !.done = TRUE]
  <1>1. /\ s \in Scanners /\ s.err = "none"
        /\ n <= 2 /\ \A k \in 1..n : read[k] = Frame(k)
        /\ Ahead(R, g, n) \/ Stranded(R, g, n)
        /\ LinesRead(read) + Held(g) + Fields(R) <= sent.dataFields
    BY DEF ScanKept, Going
  <1>2. R \in Seq(Bytes) /\ g \in Locals /\ read \in Seq(Got) /\ n \in Nat /\ R = <<>>
    BY <1>1, ScannerFacts
  <1>3. n \in 0..2
    <2>1. n \in Nat /\ n <= 2
      BY <1>1, <1>2, Zenon
    <2> HIDE DEF n
    <2> QED
      BY <2>1
  <1>4. sent.ending = "EOF" /\ sent.dataFields \in Nat
    BY DEF SentOK
  <1>5. /\ n < 2 => sent.cut /\ Short(Frame(n + 1), g)
        /\ n = 2 => ~g.haveData
    BY <1>1, <1>2, <1>3, AheadEnd
  <1>6. Fields(R) = 0 /\ Held(g) \in Nat /\ LinesRead(read) \in Nat
    BY <1>1, <1>2, FieldsType, CountTypes
  <1>7. s = [rest |-> R, locals |-> g, read |-> read, done |-> s.done, err |-> s.err]
    BY <1>1 DEF Scanners
  <1>8. d \in Got /\ d.data = g.data /\ d.event = g.event /\ g.haveData \in BOOLEAN
    BY <1>2 DEF Dispatched, Got, Locals
  <1> HIDE DEF d
  <1>9. LinesRead(more) = LinesRead(read) + Len(Segments(g.data))
    BY <1>2, <1>8, LinesReadStep
  <1>10. /\ more \in Seq(Got) /\ Len(more) = n + 1
         /\ more[n + 1] = d /\ \A k \in 1..n : more[k] = read[k]
    BY <1>2, <1>8, AppendProperties
  <1>11. x = [s EXCEPT !.done = TRUE, !.read = more]
    BY Zenon DEF d
  <1>12. y = [s EXCEPT !.done = TRUE]
    OBVIOUS
  <1> HIDE DEF x, y, R, g, read, more
  <1>13. x \in Scanners /\ x.done /\ x.read = more /\ x.err = "none"
    BY <1>1, <1>10, <1>11 DEF Scanners
  <1>14. y \in Scanners /\ y.done /\ y.read = read /\ y.err = "none"
    BY <1>1, <1>12 DEF Scanners, read
  <1> HIDE DEF R, read, n, more
  <1>15. ASSUME g.haveData PROVE ScanKept(x)
    <2>1. n < 2
      BY <1>3, <1>5, <1>15
    <2>2. sent.cut /\ g.event = Frame(n + 1).event /\ Begins(g.data, Frame(n + 1).data)
      BY <1>5, <1>15, <2>1 DEF Short
    <2>3. CutFrom(d, Frame(n + 1))
      <3>1. Frame(n + 1) \in Written
        <4>1. n \in {0, 1}
          BY <1>3, <2>1
        <4> QED
          BY <4>1, SentFacts
      <3>2. g.data \in Seq(Text) /\ Frame(n + 1).data \in Seq(Text)
        BY <1>2, <3>1, WrittenFacts DEF Locals
      <3>3. IsPrefix(g.data, Frame(n + 1).data)
        BY <2>2, <3>2, BeginsPrefix
      <3> QED
        BY <1>8, <2>2, <3>3 DEF CutFrom
    <2>4. Held(g) = Len(Segments(g.data))
      BY <1>15 DEF Held
    <2> HIDE DEF g
    <2>5. LinesRead(more) <= sent.dataFields
      BY <1>1, <1>4, <1>6, <1>9, <2>4
    <2>6. Len(x.read) = n + 1 /\ n + 1 <= 2
      BY <1>3, <1>10, <1>13, <2>1
    <2>7. \A k \in 1..(n + 1) : k \in 1..n \/ k = n + 1
      BY <1>3
    <2>8. \A k \in 1..(n + 1) :
             \/ more[k] = Frame(k)
             \/ k = n + 1 /\ sent.cut /\ CutFrom(more[k], Frame(k))
      BY <1>1, <1>10, <2>2, <2>3, <2>7
    <2>9. Gone(x)
      BY <1>4, <1>13, <2>2, <2>5, <2>6, <2>8 DEF Gone
    <2> QED
      BY <1>13, <2>9 DEF ScanKept
  <1>16. ASSUME ~g.haveData PROVE ScanKept(y)
    <2> HIDE DEF g
    <2>1. LinesRead(read) <= sent.dataFields
      BY <1>1, <1>4, <1>6
    <2>2. sent.cut \/ n = 2
      BY <1>3, <1>5
    <2>3. Gone(y)
      BY <1>1, <1>4, <1>14, <2>1, <2>2 DEF Gone, n
    <2> QED
      BY <1>14, <2>3 DEF ScanKept
  <1> QED
    BY <1>15, <1>16 DEF x, y, g

-----------------------------------------------------------------------------
(* What is written at first.                                                *)

\* A comment is put between two of the lines.
LEMMA InsertFacts ==
    ASSUME NEW ls \in TextLines, Len(ls) >= 4, NEW at \in 2..3, NEW c \in Remarks
    PROVE  InsertAt(ls, at, c) \in TextLines /\ Laced(InsertAt(ls, at, c), ls)
  <1> DEFINE m == Len(ls)
             k == at - 1
             a == SubSeq(ls, 1, k)
             b == SubSeq(ls, k + 1, m)
             o == <<c>>
  <1>1. m \in Nat /\ m >= 4 /\ k \in 1..2 /\ k + 1 = at /\ at \in Int
    BY LenProperties DEF TextLines
  <1>2. \A i \in 1..m : ls[i] \in Seq(Plain)
    BY DEF TextLines
  <1> HIDE DEF m, k
  <1>3. a \in TextLines /\ b \in TextLines
    <2>1. \A i \in 1..k : ls[i] \in Seq(Plain)
      BY <1>1, <1>2
    <2>2. \A i \in (k + 1)..m : ls[i] \in Seq(Plain)
      BY <1>1, <1>2
    <2>3. k \in Int /\ k + 1 \in Int /\ m \in Int /\ 1 \in Int
      BY <1>1
    <2> QED
      BY <2>1, <2>2, <2>3, SubSeqProperties DEF TextLines
  <1>4. Then(a, b) = ls
    <2> DEFINE S == Seq(Plain)
    <2>1. ls \in Seq(S) /\ Len(ls) = m
      BY DEF TextLines, m
    <2> HIDE DEF S
    <2>2. 1 \in 1..(Len(ls) + 1) /\ k \in (1 - 1)..Len(ls) /\ m \in k..Len(ls)
      BY <1>1, <2>1
    <2>3. a \o b = SubSeq(ls, 1, m)
      BY <2>1, <2>2, ConcatAdjacentSubSeq
    <2>4. SubSeq(ls, 1, m) = ls
      BY <2>1, SubSeqFull
    <2> QED
      BY <2>3, <2>4 DEF Then
  <1>5. c \in Seq(Plain)
    BY RemarkFacts, FreshFacts
  <1>6. o \in TextLines
    BY <1>5 DEF TextLines
  <1>7. InsertAt(ls, at, c) = (a \o o) \o b
    BY <1>1 DEF InsertAt, m, k
  <1> HIDE DEF a, b, o
  <1>8. (a \o o) \o b = a \o (o \o b)
    <2> DEFINE S == Seq(Plain)
    <2>1. a \in Seq(S) /\ o \in Seq(S) /\ b \in Seq(S)
      BY <1>3, <1>6 DEF TextLines
    <2> HIDE DEF S
    <2>2. Grouped(a, o, b)
      BY <2>1, ConcatThree
    <2> QED
      BY <2>2 DEF Grouped
  <1>9. InsertAt(ls, at, c) = Then(a, Onto(c, b))
    BY <1>7, <1>8 DEF Then, Onto, o
  <1>10. Onto(c, b) \in TextLines
    BY <1>3, <1>5, OntoFacts
  <1>11. Then(a, Onto(c, b)) \in TextLines
    BY <1>3, <1>10, ThenFacts
  <1> HIDE DEF m
  <1>12. Laced(InsertAt(ls, at, c), ls)
    BY <1>3, <1>4, <1>9 DEF Laced
  <1> QED
    BY <1>9, <1>11, <1>12

\* The wire of two frames is their lines, with a comment or without.
LEMMA WireFacts ==
    ASSUME NEW f \in Written, NEW g \in Written, NEW c \in Comments, NEW at \in 2..3,
           NEW eol \in LineEnds
    PROVE  \E rem \in TextLines :
              /\ Laced(rem, Then(WriteFrame(f), WriteFrame(g)))
              /\ Wire(<<f, g>>, c, at, eol) = Joined(rem, eol)
  <1> DEFINE a == WriteFrame(f)
             b == WriteFrame(g)
             two == [n \in DOMAIN <<f, g>> |-> WriteFrame(<<f, g>>[n])]
             lines == FlattenSeq(two)
             all == IF c = <<>> THEN lines ELSE InsertAt(lines, at, c)
             S == Seq(Plain)
  <1>1. a \in TextLines /\ b \in TextLines /\ Len(a) >= 2 /\ Len(b) >= 2
    BY WrittenFacts
  <1>2. two = <<a, b>>
    OBVIOUS
  <1>3. Wire(<<f, g>>, c, at, eol) = Joined(all, eol)
    BY Zenon DEF Wire, Joined, Ended
  <1> HIDE DEF a, b, S
  <1>4. lines = Then(a, b)
    <2> DEFINE e == <<>>
               p == Append(e, a)
               q == Append(p, b)
    <2>1. <<a, b>> = q
      OBVIOUS
    <2>2. a \in Seq(S) /\ b \in Seq(S) /\ e \in Seq(Seq(S)) /\ p \in Seq(Seq(S))
      <3>1. a \in Seq(S) /\ b \in Seq(S)
        BY <1>1 DEF TextLines, S
      <3> QED
        BY <3>1
    <2> HIDE DEF p, q
    <2>3. FlattenSeq(p) = FlattenSeq(e) \o a /\ FlattenSeq(<<>>) = <<>>
      BY <2>2, FlattenStep DEF p
    <2>4. FlattenSeq(q) = FlattenSeq(p) \o b
      BY <2>2, FlattenStep DEF q
    <2>5. e \o a = a
      BY <2>2, ConcatEmptySeq
    <2>6. FlattenSeq(p) = a
      BY <2>3, <2>5
    <2> QED
      BY <1>2, <2>1, <2>4, <2>6 DEF Then
  <1> HIDE DEF two, lines
  <1>5. lines \in TextLines /\ Len(lines) >= 4
    <2>1. lines \in TextLines /\ Len(lines) = Len(a) + Len(b)
      BY <1>1, <1>4, ThenFacts
    <2>2. Len(a) \in Nat /\ Len(b) \in Nat
      BY <1>1, LenProperties DEF TextLines
    <2> QED
      BY <1>1, <2>1, <2>2
  <1>6. all \in TextLines /\ Laced(all, lines)
    <2>1. CASE c = <<>>
      BY <1>5, <2>1 DEF Laced
    <2>2. CASE c # <<>>
      <3>1. c \in Remarks
        BY <2>2, Zenon DEF Comments, Remarks
      <3>2. all = InsertAt(lines, at, c)
        BY <2>2
      <3> QED
        BY <1>5, <3>1, <3>2, InsertFacts
    <2> QED
      BY <2>1, <2>2
  <1> HIDE DEF all
  <1> QED
    BY <1>3, <1>4, <1>6 DEF a, b

\* A whole frame is due before any of it is gathered.
LEMMA FreshDue ==
    ASSUME NEW f \in Written, NEW tail \in TextLines
    PROVE  Due(f, Fresh, Then(WriteFrame(f), tail), tail)
  <1> DEFINE E == Ending(f.data)
             l == Line("event", f.event)
  <1>1. Fresh.event = <<>> /\ ~Fresh.haveData
    BY FreshFacts
  <1>2. /\ f.data \in Seq(Text) /\ E \in TextLines
        /\ f.event = <<>> => WriteFrame(f) = E
        /\ f.event # <<>> => WriteFrame(f) = Onto(l, E)
    BY WrittenFacts, EndingFacts
  <1>3. l \in Seq(Plain)
    BY WrittenFacts, LineFacts
  <1>4. CASE f.event = <<>>
    BY <1>1, <1>2, <1>4 DEF Due
  <1>5. CASE f.event # <<>>
    <2> HIDE DEF E, l
    <2>1. Then(Onto(l, E), tail) = Onto(l, Then(E, tail))
      BY <1>2, <1>3, OntoFacts
    <2> QED
      BY <1>1, <1>2, <1>5, <2>1 DEF Due, E, l
  <1> QED
    BY <1>4, <1>5

-----------------------------------------------------------------------------
(* The invariant holds.                                                     *)

\* The data fields of a wire that is cut are those that begin before the cut.
LEMMA CutFields ==
    ASSUME NEW W \in Seq(Bytes), NEW cut \in 0..Len(W)
    PROVE  LET R == SubSeq(W, 1, cut) IN
           /\ R \in Seq(Bytes) /\ Begins(R, W) /\ (cut = Len(W) => R = W)
           /\ Fields(R) = Cardinality({k \in 1..cut : W[k] = "ta"})
  <1> DEFINE R == SubSeq(W, 1, cut)
             m == Len(W)
  <1>1. m \in Nat /\ cut \in 0..m /\ \A i \in 1..m : W[i] \in Bytes
    OBVIOUS
  <1> HIDE DEF m
  <1>2. cut \in Nat /\ cut <= m /\ cut \in Int /\ 1 \in Int /\ \A i \in 1..cut : i \in 1..m
    BY <1>1
  <1>3. R \in Seq(Bytes) /\ Len(R) = cut /\ \A i \in 1..cut : R[i] = W[i]
    <2>1. \A i \in 1..cut : W[i] \in Bytes
      BY <1>1, <1>2
    <2>2. /\ R \in Seq(Bytes)
          /\ Len(R) = IF 1 <= cut THEN cut - 1 + 1 ELSE 0
          /\ \A i \in 1..(cut - 1 + 1) : R[i] = W[1 + i - 1]
      BY <1>2, <2>1, SubSeqProperties
    <2> HIDE DEF R
    <2> QED
      BY <1>2, <2>2
  <1>4. cut = m => R = W
    BY SubSeqFull DEF m
  <1> HIDE DEF R
  <1>5. Begins(R, W)
    BY <1>2, <1>3 DEF Begins, m
  <1>6. {k \in 1..Len(R) : R[k] = "ta"} = {k \in 1..cut : W[k] = "ta"}
    BY <1>3
  <1>7. Fields(R) = Cardinality({k \in 1..cut : W[k] = "ta"})
    BY <1>6 DEF Fields
  <1> QED
    BY <1>3, <1>4, <1>5, <1>7 DEF R, m

\* The parts of what is sent.
LEMMA SendsFacts ==
    ASSUME NEW frames, NEW whole, NEW cut, NEW ending, Sends(frames, whole, cut, ending)
    PROVE  /\ sent.frames = frames /\ sent.ending = ending
           /\ sent.dataFields = Cardinality({k \in 1..cut : whole[k] = "ta"})
           /\ sent.cut \in BOOLEAN /\ (~sent.cut => ~(cut < Len(whole)))
           /\ sse = [rest |-> SubSeq(whole, 1, cut), locals |-> Fresh,
                     read |-> <<>>, done |-> FALSE, err |-> "none"]
  <1> DEFINE F == Cardinality({k \in 1..cut : whole[k] = "ta"})
             short == cut < Len(whole)
  <1>1. /\ sent = [frames |-> frames, cut |-> short, ending |-> ending, dataFields |-> F]
        /\ sse = [rest |-> SubSeq(whole, 1, cut), locals |-> Fresh,
                  read |-> <<>>, done |-> FALSE, err |-> "none"]
    BY DEF Sends
  <1> HIDE DEF F, short
  <1>2. sent.frames = frames /\ sent.ending = ending /\ sent.dataFields = F /\ sent.cut = short
    BY <1>1
  <1>3. short \in BOOLEAN
    BY DEF short
  <1>4. sent.cut \in BOOLEAN /\ (~sent.cut => ~short)
    BY <1>2, <1>3
  <1> QED
    BY <1>1, <1>2, <1>4 DEF F, short

\* Before anything is read.
LEMMA NothingRead == \E none \in Seq(Got) : none = <<>> /\ Len(none) = 0 /\ LinesRead(none) = 0
  <1> DEFINE none == <<>>
             e == <<>>
             x == [event |-> e, data |-> e]
  <1>1. none \in Seq(Got) /\ Len(none) = 0
    OBVIOUS
  <1>2. e \in Seq(Plain) /\ e \in Seq(Text)
    BY BlankFacts, TextFacts
  <1> HIDE DEF e
  <1>3. x \in Got
    BY <1>2 DEF Got
  <1> HIDE DEF x, none
  <1>4. LinesRead(<<>>) = 0
    BY <1>1, <1>3, LinesReadStep
  <1> QED
    BY <1>1, <1>4 DEF none

\* At first nothing is read, and both frames are due.
LEMMA SendsInv ==
    ASSUME NEW f \in Written, NEW g \in Written, NEW rem \in TextLines, NEW eol \in LineEnds,
           Laced(rem, Then(WriteFrame(f), WriteFrame(g))),
           NEW whole, whole = Joined(rem, eol),
           NEW cut \in 0..Len(whole), NEW ending, ending = "EOF" \/ ending = "reset",
           NEW both, both = <<f, g>>, Sends(both, whole, cut, ending)
    PROVE  FramesInv
  <1> DEFINE R == SubSeq(whole, 1, cut)
             todo == Then(WriteFrame(f), WriteFrame(g))
             F == Cardinality({k \in 1..cut : whole[k] = "ta"})
             short == cut < Len(whole)
  <1>5. whole \in Seq(Bytes) /\ Len(whole) \in Nat
    <2>1. <<>> \in Seq(Plain)
      BY BlankFacts
    <2> DEFINE none == <<>>
    <2> HIDE DEF none
    <2>2. Joined(rem, eol) \in Seq(Bytes)
      BY <2>1, JoinedStep DEF none
    <2> QED
      BY <2>2, LenProperties
  <1>6. /\ R \in Seq(Bytes) /\ Begins(R, whole) /\ (cut = Len(whole) => R = whole)
        /\ Fields(R) = F
    BY <1>5, CutFields
  <1>7. ~short => cut = Len(whole)
    BY <1>5
  <1>8. F \in Nat
    BY <1>6, FieldsType, Zenon
  <1>9. Len(both) = 2 /\ both \in Seq(Written) /\ both[1] = f /\ both[2] = g
    OBVIOUS
  <1>10. /\ sent.frames = both /\ sent.ending = ending /\ sent.dataFields = F
         /\ sent.cut \in BOOLEAN /\ (~sent.cut => ~short)
    <2>1. sent.frames = both /\ sent.ending = ending
      BY SendsFacts
    <2>2. sent.dataFields = F
      BY SendsFacts
    <2>3. sent.cut \in BOOLEAN
      BY SendsFacts
    <2>4. ~sent.cut => ~short
      BY SendsFacts
    <2> QED
      BY <2>1, <2>2, <2>3, <2>4
  <1> HIDE DEF F, short
  <1>12. SentOK
    BY <1>8, <1>9, <1>10 DEF SentOK
  <1>13. Frame(1) = f /\ Frame(2) = g
    BY <1>9, <1>10 DEF Frame
  <1>14. Reading(todo, Fresh, 0)
    <2> DEFINE tail == WriteFrame(g)
    <2>1. Following(0) = tail /\ tail \in TextLines
      BY <1>13, WrittenFacts DEF Following
    <2>2. Due(f, Fresh, Then(WriteFrame(f), tail), tail)
      BY <2>1, FreshDue, Zenon
    <2>3. 0 < 2 /\ 0 + 1 = 1
      OBVIOUS
    <2> QED
      BY <1>13, <2>1, <2>2, <2>3 DEF Reading
  <1>15. todo \in TextLines
    BY WrittenFacts, ThenFacts, Zenon
  <1> HIDE DEF todo, R
  <1>16. Ahead(R, Fresh, 0)
    <2>1. Laced(rem, todo)
      BY DEF todo
    <2>2. Begins(R, Joined(rem, eol)) /\ (~sent.cut => R = Joined(rem, eol))
      BY <1>6, <1>7, <1>10
    <2> QED
      BY <1>14, <1>15, <2>1, <2>2 DEF Ahead
  <1>17. Held(Fresh) = 0 /\ Fresh \in Locals
    BY FreshFacts DEF Held
  <1>18. PICK none \in Seq(Got) : none = <<>> /\ Len(none) = 0 /\ LinesRead(none) = 0
    BY NothingRead
  <1>19. sse = [rest |-> R, locals |-> Fresh, read |-> none, done |-> FALSE, err |-> "none"]
    BY <1>18, SendsFacts, Zenon DEF R
  <1>20. /\ sse \in Scanners /\ sse.rest = R /\ sse.locals = Fresh /\ sse.read = none
         /\ ~sse.done /\ sse.err = "none"
    BY <1>6, <1>17, <1>19 DEF Scanners
  <1>21. LinesRead(none) + Held(Fresh) + Fields(R) <= sent.dataFields
    BY <1>6, <1>8, <1>10, <1>17, <1>18
  <1>22. Going(sse)
    <2>1. \A k \in 1..Len(none) : none[k] = Frame(k)
      BY <1>18
    <2>2. Len(none) <= 2
      BY <1>18
    <2>3. Ahead(R, Fresh, Len(none))
      BY <1>16, <1>18
    <2> QED
      BY <1>20, <1>21, <2>1, <2>2, <2>3 DEF Going
  <1> QED
    BY <1>12, <1>20, <1>22 DEF FramesInv, ScanKept

\* The invariant holds at first, whatever is sent.
LEMMA FramesInvInit == FramesInit => FramesInv
  <1> SUFFICES ASSUME FramesInit PROVE FramesInv
    OBVIOUS
  <1> DEFINE Sent == [event : {<<>>, <<"x">>}, data : Payloads]
             Wires(f, g) == {Wire(<<f, g>>, comment, at, eol) :
                               comment \in Comments, at \in 2..3, eol \in LineEnds}
             Cut(f, g, whole) == \E cut \in 0..Len(whole), ending \in {"EOF", "reset"} :
                                    Sends(<<f, g>>, whole, cut, ending)
  <1>0. \E f, g \in Sent : \E whole \in Wires(f, g) : Cut(f, g, whole)
    BY DEF FramesInit
  <1> HIDE DEF Cut, Wires, Sent
  <1>1. PICK f \in Sent, g \in Sent : \E whole \in Wires(f, g) : Cut(f, g, whole)
    BY <1>0
  <1>2. PICK c \in Comments, at \in 2..3, eol \in LineEnds : Cut(f, g, Wire(<<f, g>>, c, at, eol))
    BY <1>1 DEF Wires
  <1> DEFINE whole == Wire(<<f, g>>, c, at, eol)
  <1>a. PICK cut \in 0..Len(whole), ending \in {"EOF", "reset"} : Sends(<<f, g>>, whole, cut, ending)
    BY <1>2 DEF Cut
  <1>3. f \in Written /\ g \in Written
    <2>1. \A d \in Payloads : d \in Seq(Text)
      <3>1. {"x", ":", SP, LF} \subseteq Text
        BY TextFacts DEF Plain
      <3>2. \A d \in Payloads : d \in Seq({"x", ":", SP, LF})
        BY FramesAssumption
      <3> QED
        BY <3>1, <3>2
    <2> QED
      BY <2>1 DEF Written, Sent
  <1>4. PICK rem \in TextLines : /\ Laced(rem, Then(WriteFrame(f), WriteFrame(g)))
                             /\ Wire(<<f, g>>, c, at, eol) = Joined(rem, eol)
    BY <1>3, WireFacts
  <1>5. whole = Joined(rem, eol) /\ cut \in 0..Len(whole) /\ Sends(<<f, g>>, whole, cut, ending)
    BY <1>a, <1>4
  <1>6. ending = "EOF" \/ ending = "reset"
    OBVIOUS
  <1> DEFINE both == <<f, g>>
  <1>7. both = <<f, g>> /\ Sends(both, whole, cut, ending)
    BY <1>5
  <1> HIDE DEF whole, both
  <1> QED
    BY <1>3, <1>4, <1>5, <1>6, <1>7, SendsInv, Zenon

\* What is said of the Scanner is said of it after a step: what was sent stays.
LEMMA KeptPrime ==
    ASSUME SentOK, sent' = sent, ScanKept(sse')
    PROVE  FramesInv'
  <1>1. SentOK'
    BY DEF SentOK
  <1>2. ScanKept(sse)'
    BY DEF ScanKept, Going, Gone, Ahead, Stranded, Reading, Following, Frame
  <1> QED
    BY <1>1, <1>2 DEF FramesInv

\* No step breaks it.
LEMMA FramesInvStep == FramesInv /\ [FramesNext]_frameVars => FramesInv'
  <1> SUFFICES ASSUME FramesInv, [FramesNext]_frameVars PROVE FramesInv'
    OBVIOUS
  <1>0. SentOK /\ ScanKept(sse)
    BY DEF FramesInv
  <1>1. CASE ScanField
    <2>1. ~sse.done /\ sse.rest # <<>> /\ SubSeq(sse.rest, 1, LineLen(sse.rest)) # <<>>
      BY <1>1 DEF ScanField, Scanning, LineInHand
    <2>2. sse' = LET l == SubSeq(sse.rest, 1, LineLen(sse.rest)) IN
                 [sse EXCEPT !.rest = AfterLine(@),
                             !.locals = IF l[1] = ":" THEN @ ELSE Field(@, l)]
      BY <1>1, Zenon DEF ScanField, LineInHand
    <2>3. ScanKept(sse')
      BY <1>0, <2>1, <2>2, KeptField, Zenon
    <2>4. sent' = sent
      BY <1>1 DEF ScanField
    <2> QED
      BY <1>0, <2>3, <2>4, KeptPrime
  <1>2. CASE ScanBlank
    <2>1. ~sse.done /\ sse.rest # <<>> /\ SubSeq(sse.rest, 1, LineLen(sse.rest)) = <<>>
      BY <1>2 DEF ScanBlank, Scanning, LineInHand
    <2>2. /\ sse.locals.haveData
          /\ ScanKept([sse EXCEPT !.rest = AfterLine(@), !.locals = Fresh,
                              !.read = Append(@, Dispatched(sse.locals))])
      BY <1>0, <2>1, KeptBlank, Zenon
    <2>3. sse' = [sse EXCEPT !.rest = AfterLine(@), !.locals = Fresh,
                             !.read = Append(@, Dispatched(sse.locals))]
      BY <1>2, <2>2, Zenon DEF ScanBlank
    <2>4. sent' = sent
      BY <1>2 DEF ScanBlank
    <2>5. ScanKept(sse')
      BY <2>2, <2>3, Zenon
    <2> QED
      BY <1>0, <2>4, <2>5, KeptPrime
  <1>3. CASE LineTooLong
    <2>1. ~sse.done /\ sent' = sent
      BY <1>3, Zenon DEF LineTooLong, Scanning
    <2>2. sse' = [sse EXCEPT !.done = TRUE, !.err = "tooLong"]
      BY <1>3, Zenon DEF LineTooLong
    <2>3. ScanKept(sse')
      BY <1>0, <2>1, <2>2, KeptTooLong, Zenon
    <2> QED
      BY <1>0, <2>1, <2>3, KeptPrime
  <1>4. CASE ScanEnd
    <2>1. ~sse.done /\ sse.rest = <<>> /\ sent' = sent
      BY <1>4, Zenon DEF ScanEnd
    <2>2. CASE sent.ending = "reset"
      <3>1. sse' = [sse EXCEPT !.done = TRUE, !.err = "reset"]
        BY <1>4, <2>2, Zenon DEF ScanEnd
      <3>3. ScanKept(sse')
        BY <1>0, <2>1, <3>1, KeptTooLong, Zenon
      <3> QED
        BY <1>0, <2>1, <3>3, KeptPrime
    <2>3. CASE sent.ending # "reset" /\ sse.locals.haveData
      <3>1. sse' = [sse EXCEPT !.done = TRUE, !.read = Append(@, Dispatched(sse.locals))]
        BY <1>4, <2>3 DEF ScanEnd, FlushAtEOF
      <3>2. ScanKept(sse')
        BY <1>0, <2>1, <2>3, <3>1, KeptEnd, Zenon
      <3> QED
        BY <1>0, <2>1, <3>2, KeptPrime
    <2>4. CASE sent.ending # "reset" /\ ~sse.locals.haveData
      <3>1. sse' = [sse EXCEPT !.done = TRUE]
        BY <1>4, <2>4 DEF ScanEnd, FlushAtEOF
      <3>2. ScanKept(sse')
        BY <1>0, <2>1, <2>4, <3>1, KeptEnd, Zenon
      <3> QED
        BY <1>0, <2>1, <3>2, KeptPrime
    <2> QED
      BY <2>2, <2>3, <2>4
  <1>5. CASE UNCHANGED frameVars
    <2>1. sent' = sent /\ sse' = sse
      BY <1>5 DEF frameVars
    <2> QED
      BY <1>0, <2>1, KeptPrime
  <1> QED
    BY <1>1, <1>2, <1>3, <1>4, <1>5 DEF FramesNext

\* The invariant is what the codec promises, at every point of the reading.
LEMMA FramesInvFaithful == FramesInv => FramesFaithful
  <1> SUFFICES ASSUME FramesInv PROVE FramesFaithful
    OBVIOUS
  <1> DEFINE read == sse.read
             n == Len(read)
  <1>1. /\ Len(sent.frames) = 2 /\ sent.dataFields \in Nat /\ sse \in Scanners
        /\ sse.done => Gone(sse)
        /\ ~sse.done => Going(sse)
    BY DEF FramesInv, SentOK, ScanKept
  <1>2. sse.done \in BOOLEAN
    BY <1>1, ScannerFacts
  <1>3. LinesRead(read) = Len(FlattenSeq([k \in 1..n |-> Segments(read[k].data)]))
    BY DEF LinesRead
  <1>4. CASE sse.done
    <2>1. /\ n <= 2
          /\ \A k \in 1..n :
                \/ read[k] = Frame(k)
                \/ k = n /\ sse.err = "none" /\ sent.cut /\ CutFrom(read[k], Frame(k))
          /\ LinesRead(read) <= sent.dataFields
          /\ sse.err = "none" => sent.ending = "EOF" /\ (sent.cut \/ n = 2)
      BY <1>1, <1>4, Zenon DEF Gone
    <2> QED
      BY <1>1, <1>3, <1>4, <2>1 DEF FramesFaithful, Frame
  <1>5. CASE ~sse.done
    <2>1. /\ n <= 2 /\ \A k \in 1..n : read[k] = Frame(k)
          /\ LinesRead(read) + Held(sse.locals) + Fields(sse.rest) <= sent.dataFields
      BY <1>1, <1>5, Zenon DEF Going
    <2>2. LinesRead(read) <= sent.dataFields
      <3>1. /\ LinesRead(read) \in Nat /\ Held(sse.locals) \in Nat
            /\ Fields(sse.rest) \in Nat
        BY <1>1, CountTypes, FieldsType, ScannerFacts
      <3> QED
        BY <1>1, <2>1, <3>1
    <2> QED
      BY <1>1, <1>3, <1>5, <2>1, <2>2 DEF FramesFaithful, Frame
  <1> QED
    BY <1>2, <1>4, <1>5

\* What the SSE codec reads is what was written, whatever ends the lines, whatever
\* is between them and wherever the connection is cut: readLine, splitField and
\* Scan of internal/sse, for every payload and every limit on a line.
THEOREM FramesFaithfulAlways == FramesInit /\ [][FramesNext]_frameVars => []FramesFaithful
  <1>1. FramesInit => FramesInv
    BY FramesInvInit
  <1>2. FramesInv /\ [FramesNext]_frameVars => FramesInv'
    BY FramesInvStep
  <1>3. FramesInv => FramesFaithful
    BY FramesInvFaithful
  <1> QED
    BY <1>1, <1>2, <1>3, PTL

-----------------------------------------------------------------------------
(* The accounts of the local usage history: sums.                           *)

\* g is the sum of w over the subsets of S.
Sums(g, w, S) ==
    /\ \A s \in SUBSET S : g[s] \in Nat
    /\ g[{}] = 0
    /\ \A s \in SUBSET S : \A x \in s : g[s] = w[x] + g[s \ {x}]

\* The sum of w over S.
Sigma(w, S) == (CHOOSE g : Sums(g, w, S))[S]

\* The loop of FoldSet, which takes an element that it chooses.
Chosen(s) == CHOOSE x \in s : TRUE
Loops(g, w, S) ==
    g = [s \in SUBSET S |-> IF s = {} THEN 0 ELSE w[Chosen(s)] + g[s \ {Chosen(s)}]]

\* There is such a loop on a finite set.
LEMMA LoopExists ==
    ASSUME NEW S, IsFiniteSet(S), NEW w
    PROVE  \E g : Loops(g, w, S)
  <1> DEFINE Small(n) == {s \in SUBSET S : Cardinality(s) <= n}
             Upto(h, n) == h = [s \in Small(n) |->
                                 IF s = {} THEN 0 ELSE w[Chosen(s)] + h[s \ {Chosen(s)}]]
             T == {n \in Nat : \E h : Upto(h, n)}
  <1>1. \A s \in SUBSET S : /\ IsFiniteSet(s) /\ Cardinality(s) \in Nat
                            /\ Cardinality(s) = 0 <=> s = {}
                            /\ s # {} => /\ Chosen(s) \in s
                                         /\ s \ {Chosen(s)} \in SUBSET S
                                         /\ Cardinality(s \ {Chosen(s)}) = Cardinality(s) - 1
    <2> SUFFICES ASSUME NEW s \in SUBSET S
                 PROVE  /\ IsFiniteSet(s) /\ Cardinality(s) \in Nat
                        /\ Cardinality(s) = 0 <=> s = {}
                        /\ s # {} => /\ Chosen(s) \in s
                                     /\ s \ {Chosen(s)} \in SUBSET S
                                     /\ Cardinality(s \ {Chosen(s)}) = Cardinality(s) - 1
      OBVIOUS
    <2>1. IsFiniteSet(s)
      BY FS_Subset
    <2>2. Cardinality(s) \in Nat /\ (Cardinality(s) = 0 <=> s = {})
      BY <2>1, FS_CardinalityType, FS_EmptySet
    <2>3. s # {} => Chosen(s) \in s
      BY DEF Chosen
    <2>4. s # {} => Cardinality(s \ {Chosen(s)}) = Cardinality(s) - 1
      BY <2>1, <2>3, FS_RemoveElement
    <2> QED
      BY <2>1, <2>2, <2>3, <2>4
  <1>2. 0 \in T
    <2> DEFINE h == [s \in Small(0) |-> 0]
    <2>1. ASSUME NEW s \in Small(0) PROVE s = {}
      <3>1. s \in SUBSET S /\ Cardinality(s) <= 0
        OBVIOUS
      <3>2. Cardinality(s) \in Nat /\ (Cardinality(s) = 0 <=> s = {})
        BY <1>1, <3>1
      <3> QED
        BY <3>1, <3>2
    <2>2. Upto(h, 0)
      BY <2>1
    <2> QED
      BY <2>2
  <1>3. ASSUME NEW n \in Nat, n \in T PROVE n + 1 \in T
    <2>1. PICK h : Upto(h, n)
      BY <1>3
    <2> DEFINE k == [s \in Small(n + 1) |->
                       IF Cardinality(s) <= n THEN h[s]
                       ELSE w[Chosen(s)] + h[s \ {Chosen(s)}]]
    <2>2. ASSUME NEW s \in Small(n + 1), s # {}
          PROVE  k[s] = w[Chosen(s)] + k[s \ {Chosen(s)}]
      <3> DEFINE c == Chosen(s)
                 r == s \ {c}
      <3>1. r \in Small(n) /\ r \in Small(n + 1) /\ Cardinality(r) <= n
        BY <1>1, <2>2
      <3>2. k[r] = h[r]
        BY <3>1
      <3>3. CASE Cardinality(s) <= n
        <4>1. s \in Small(n)
          BY <3>3
        <4>2. h[s] = w[c] + h[r]
          <5> HIDE DEF Small
          <5> QED
            BY <2>1, <2>2, <4>1
        <4> QED
          BY <3>2, <3>3, <4>2
      <3>4. CASE ~ (Cardinality(s) <= n)
        BY <3>2, <3>4
      <3> QED
        BY <3>3, <3>4
    <2>3. {} \in Small(n + 1) => k[{}] = 0
      <3>1. {} \in Small(n) /\ Cardinality({}) <= n
        <4>1. Cardinality({}) = 0
          BY FS_EmptySet
        <4> QED
          BY <1>3, <4>1
      <3>2. h[{}] = 0
        <4> HIDE DEF Small
        <4> QED
          BY <2>1, <3>1
      <3> QED
        BY <3>1, <3>2
    <2>4. Upto(k, n + 1)
      <3>1. k = [s \in Small(n + 1) |-> k[s]]
        OBVIOUS
      <3> HIDE DEF k, Small
      <3> QED
        BY <2>2, <2>3, <3>1
    <2> HIDE DEF k, Upto
    <2> QED
      BY <2>4
  <1> HIDE DEF T
  <1>4. \A n \in Nat : n \in T
    BY <1>2, <1>3, NatSetInduction
  <1>5. Cardinality(S) \in Nat /\ S \in SUBSET S
    BY FS_CardinalityType
  <1>6. PICK g : Upto(g, Cardinality(S))
    BY <1>4, <1>5 DEF T
  <1>7. Small(Cardinality(S)) = SUBSET S
    <2>1. \A s \in SUBSET S : Cardinality(s) <= Cardinality(S)
      BY FS_Subset
    <2> QED
      BY <2>1
  <1>8. Loops(g, w, S)
    BY <1>6, <1>7 DEF Loops
  <1> QED
    BY <1>8

\* Whatever it chooses, the loop is the sum.
LEMMA LoopSums ==
    ASSUME NEW S, IsFiniteSet(S), NEW w, \A x \in S : w[x] \in Nat, NEW g, Loops(g, w, S)
    PROVE  Sums(g, w, S)
  <1> DEFINE T == {n \in Nat : \A s \in SUBSET S : Cardinality(s) <= n =>
                      /\ g[s] \in Nat
                      /\ \A x \in s : g[s] = w[x] + g[s \ {x}]}
  <1>1. ASSUME NEW s \in SUBSET S
        PROVE  /\ IsFiniteSet(s) /\ Cardinality(s) \in Nat
               /\ Cardinality(s) = 0 <=> s = {}
               /\ \A x \in s : s \ {x} \in SUBSET S /\ Cardinality(s \ {x}) = Cardinality(s) - 1
    <2>1. IsFiniteSet(s)
      BY FS_Subset
    <2>2. Cardinality(s) \in Nat /\ (Cardinality(s) = 0 <=> s = {})
      BY <2>1, FS_CardinalityType, FS_EmptySet
    <2>3. \A x \in s : Cardinality(s \ {x}) = Cardinality(s) - 1
      BY <2>1, FS_RemoveElement
    <2> QED
      BY <2>1, <2>2, <2>3
  <1>2. g[{}] = 0
    BY DEF Loops
  <1>3. \A s \in SUBSET S : s # {} => /\ Chosen(s) \in s
                                      /\ g[s] = w[Chosen(s)] + g[s \ {Chosen(s)}]
    BY DEF Loops, Chosen
  <1>4. 0 \in T
    BY <1>1, <1>2
  <1>5. ASSUME NEW n \in Nat, n \in T PROVE n + 1 \in T
    <2>0. \A s \in SUBSET S : Cardinality(s) <= n + 1 =>
              Cardinality(s) <= n \/ Cardinality(s) = n + 1
      <3> SUFFICES ASSUME NEW s \in SUBSET S, Cardinality(s) <= n + 1
                   PROVE  Cardinality(s) <= n \/ Cardinality(s) = n + 1
        OBVIOUS
      <3>1. Cardinality(s) \in Nat
        BY <1>1
      <3> QED
        BY <1>5, <3>1
    <2> SUFFICES ASSUME NEW s \in SUBSET S, Cardinality(s) = n + 1
                 PROVE  g[s] \in Nat /\ \A x \in s : g[s] = w[x] + g[s \ {x}]
      BY <1>5, <2>0
    <2> DEFINE c == Chosen(s)
    <2>1. s # {}
      BY <1>1
    <2>2. c \in s /\ c \in S /\ g[s] = w[c] + g[s \ {c}]
      BY <1>3, <2>1
    <2>3. ASSUME NEW x \in s
          PROVE  /\ s \ {x} \in SUBSET S /\ Cardinality(s \ {x}) = n /\ w[x] \in Nat
                 /\ g[s \ {x}] \in Nat
                 /\ \A y \in s \ {x} : g[s \ {x}] = w[y] + g[(s \ {x}) \ {y}]
      <3> DEFINE r == s \ {x}
      <3>1. r \in SUBSET S /\ Cardinality(r) = n
        BY <1>1, <1>5
      <3>2. Cardinality(r) <= n
        BY <1>5, <3>1
      <3> HIDE DEF r
      <3>3. g[r] \in Nat /\ \A y \in r : g[r] = w[y] + g[r \ {y}]
        BY <1>5, <3>1, <3>2
      <3> QED
        BY <3>1, <3>3 DEF r
    <2> HIDE DEF c
    <2>4. g[s] \in Nat
      <3>1. w[c] \in Nat /\ g[s \ {c}] \in Nat
        BY <2>2, <2>3
      <3> QED
        BY <2>2, <3>1
    <2>5. ASSUME NEW x \in s PROVE g[s] = w[x] + g[s \ {x}]
      <3>1. CASE x = c
        BY <2>2, <3>1
      <3>2. CASE x # c
        <4> DEFINE r == (s \ {c}) \ {x}
        <4>1. r = (s \ {x}) \ {c} /\ x \in s \ {c} /\ c \in s \ {x}
          BY <2>2, <3>2
        <4>2. g[s \ {c}] = w[x] + g[r] /\ g[s \ {x}] = w[c] + g[r]
          BY <2>2, <2>3, <4>1
        <4>3. g[r] \in Nat
          <5>1. Cardinality(s \ {c}) = n /\ s \ {c} \in SUBSET S
            BY <2>2, <2>3
          <5>2. r \in SUBSET S /\ Cardinality(r) = n - 1
            BY <1>1, <4>1, <5>1
          <5>3. Cardinality(r) <= n
            BY <5>2
          <5> HIDE DEF r
          <5> QED
            BY <1>5, <5>2, <5>3
        <4> HIDE DEF r
        <4>4. w[x] \in Nat /\ w[c] \in Nat
          BY <2>2, <2>3
        <4> QED
          BY <2>2, <4>2, <4>3, <4>4
      <3> QED
        BY <3>1, <3>2
    <2> QED
      BY <2>4, <2>5
  <1> HIDE DEF T
  <1>6. \A n \in Nat : n \in T
    BY <1>4, <1>5, NatSetInduction
  <1>7. \A s \in SUBSET S : g[s] \in Nat /\ \A x \in s : g[s] = w[x] + g[s \ {x}]
    <2> SUFFICES ASSUME NEW s \in SUBSET S
                 PROVE  g[s] \in Nat /\ \A x \in s : g[s] = w[x] + g[s \ {x}]
      OBVIOUS
    <2>1. Cardinality(s) \in T /\ Cardinality(s) <= Cardinality(s)
      BY <1>1, <1>6
    <2> QED
      BY <2>1 DEF T
  <1> QED
    BY <1>2, <1>7 DEF Sums

\* The sum of a finite set: of nothing, and of one element more.
LEMMA SigmaIsSums ==
    ASSUME NEW S, IsFiniteSet(S), NEW w, \A x \in S : w[x] \in Nat
    PROVE  \E g : Sums(g, w, S) /\ g[S] = Sigma(w, S)
  <1>1. \E g : Sums(g, w, S)
    BY LoopExists, LoopSums
  <1>2. Sums(CHOOSE g : Sums(g, w, S), w, S)
    BY <1>1, Zenon
  <1> QED
    BY <1>2, Zenon DEF Sigma

\* Two sums of sets agree on what is in both.
LEMMA SumsUnique ==
    ASSUME NEW S, NEW R, IsFiniteSet(R), R \subseteq S, NEW w, NEW v,
           \A x \in R : w[x] = v[x], NEW g, NEW h, Sums(g, w, S), Sums(h, v, R)
    PROVE  g[R] = h[R]
  <1> DEFINE T == {n \in Nat : \A s \in SUBSET R : Cardinality(s) = n => g[s] = h[s]}
  <1>1. ASSUME NEW s \in SUBSET R
        PROVE  /\ IsFiniteSet(s) /\ Cardinality(s) \in Nat
               /\ Cardinality(s) = 0 <=> s = {}
               /\ \A x \in s : s \ {x} \in SUBSET R /\ Cardinality(s \ {x}) = Cardinality(s) - 1
    <2>1. IsFiniteSet(s)
      BY FS_Subset
    <2>2. Cardinality(s) \in Nat /\ (Cardinality(s) = 0 <=> s = {})
      BY <2>1, FS_CardinalityType, FS_EmptySet
    <2>3. \A x \in s : Cardinality(s \ {x}) = Cardinality(s) - 1
      BY <2>1, FS_RemoveElement
    <2> QED
      BY <2>1, <2>2, <2>3
  <1>2. 0 \in T
    <2>1. g[{}] = 0 /\ h[{}] = 0
      BY DEF Sums
    <2> QED
      BY <1>1, <2>1
  <1>3. ASSUME NEW n \in Nat, n \in T PROVE n + 1 \in T
    <2> SUFFICES ASSUME NEW s \in SUBSET R, Cardinality(s) = n + 1 PROVE g[s] = h[s]
      OBVIOUS
    <2>1. s # {}
      BY <1>1
    <2>2. PICK x \in s : TRUE
      BY <2>1
    <2> DEFINE r == s \ {x}
    <2>3. r \in SUBSET R /\ Cardinality(r) = n
      BY <1>1
    <2>4. g[s] = w[x] + g[r] /\ h[s] = v[x] + h[r] /\ w[x] = v[x]
      BY DEF Sums
    <2> HIDE DEF r
    <2>5. g[r] = h[r]
      BY <1>3, <2>3
    <2> QED
      BY <2>4, <2>5
  <1> HIDE DEF T
  <1>4. \A n \in Nat : n \in T
    BY <1>2, <1>3, NatSetInduction
  <1>5. R \in SUBSET R /\ Cardinality(R) \in Nat
    BY FS_CardinalityType
  <1> QED
    BY <1>4, <1>5 DEF T

\* What sums are.
LEMMA SigmaFacts ==
    ASSUME NEW S, IsFiniteSet(S), NEW w, \A x \in S : w[x] \in Nat
    PROVE  /\ Sigma(w, S) \in Nat
           /\ Sigma(w, {}) = 0
           /\ \A x \in S : Sigma(w, S) = w[x] + Sigma(w, S \ {x})
           /\ \A v : (\A x \in S : v[x] = w[x]) => Sigma(v, S) = Sigma(w, S)
  <1>1. PICK g : Sums(g, w, S) /\ g[S] = Sigma(w, S)
    BY SigmaIsSums
  <1>2. ASSUME NEW R \in SUBSET S, NEW v, \A x \in R : v[x] = w[x] PROVE g[R] = Sigma(v, R)
    <2>1. IsFiniteSet(R) /\ \A x \in R : v[x] \in Nat
      BY <1>2, FS_Subset
    <2>2. PICK h : Sums(h, v, R) /\ h[R] = Sigma(v, R)
      BY <2>1, SigmaIsSums
    <2>3. \A x \in R : w[x] = v[x]
      BY <1>2
    <2> QED
      BY <1>1, <2>1, <2>2, <2>3, SumsUnique
  <1>3. Sigma(w, S) \in Nat
    BY <1>1 DEF Sums
  <1>4. Sigma(w, {}) = 0
    <2>1. g[{}] = 0
      BY <1>1 DEF Sums
    <2>2. {} \in SUBSET S /\ \A x \in {} : w[x] = w[x]
      OBVIOUS
    <2> QED
      BY <1>2, <2>1, <2>2
  <1>5. ASSUME NEW x \in S PROVE Sigma(w, S) = w[x] + Sigma(w, S \ {x})
    <2> DEFINE R == S \ {x}
    <2>1. g[S] = w[x] + g[R]
      BY <1>1 DEF Sums
    <2>2. R \in SUBSET S
      OBVIOUS
    <2> HIDE DEF R
    <2>3. g[R] = Sigma(w, R)
      BY <1>2, <2>2
    <2> QED
      BY <1>1, <2>1, <2>3 DEF R
  <1>6. ASSUME NEW v, \A x \in S : v[x] = w[x] PROVE Sigma(v, S) = Sigma(w, S)
    <2>1. S \in SUBSET S
      OBVIOUS
    <2> QED
      BY <1>1, <1>2, <1>6, <2>1
  <1> QED
    BY <1>3, <1>4, <1>5, <1>6

\* One element more.
LEMMA SigmaMore ==
    ASSUME NEW S, IsFiniteSet(S), NEW y, y \notin S, NEW w, \A x \in S \cup {y} : w[x] \in Nat
    PROVE  Sigma(w, S \cup {y}) = w[y] + Sigma(w, S)
  <1> DEFINE U == S \cup {y}
  <1>1. IsFiniteSet(U)
    BY FS_AddElement
  <1>2. U \ {y} = S /\ y \in U /\ \A x \in U : w[x] \in Nat
    OBVIOUS
  <1> HIDE DEF U
  <1>3. Sigma(w, U) = w[y] + Sigma(w, U \ {y})
    BY <1>1, <1>2, SigmaFacts
  <1> QED
    BY <1>2, <1>3 DEF U

\* Induction on finite sets: a set of sets that holds the empty one and, with a set,
\* each one with an element more, holds all.
LEMMA FinSetInduction ==
    ASSUME NEW S, IsFiniteSet(S), NEW T, {} \in T,
           \A s \in SUBSET S, x \in S : s \in T /\ x \notin s => s \cup {x} \in T
    PROVE  \A s \in SUBSET S : s \in T
  <1> DEFINE U == {n \in Nat : \A s \in SUBSET S : Cardinality(s) = n => s \in T}
  <1>1. ASSUME NEW s \in SUBSET S
        PROVE  /\ IsFiniteSet(s) /\ Cardinality(s) \in Nat
               /\ Cardinality(s) = 0 <=> s = {}
               /\ \A x \in s : s \ {x} \in SUBSET S /\ Cardinality(s \ {x}) = Cardinality(s) - 1
    <2>1. IsFiniteSet(s)
      BY FS_Subset
    <2>2. Cardinality(s) \in Nat /\ (Cardinality(s) = 0 <=> s = {})
      BY <2>1, FS_CardinalityType, FS_EmptySet
    <2>3. \A x \in s : Cardinality(s \ {x}) = Cardinality(s) - 1
      BY <2>1, FS_RemoveElement
    <2> QED
      BY <2>1, <2>2, <2>3
  <1>2. 0 \in U
    BY <1>1
  <1>3. ASSUME NEW n \in Nat, n \in U PROVE n + 1 \in U
    <2> SUFFICES ASSUME NEW s \in SUBSET S, Cardinality(s) = n + 1 PROVE s \in T
      OBVIOUS
    <2>1. s # {}
      BY <1>1
    <2>2. PICK x \in s : TRUE
      BY <2>1
    <2> DEFINE r == s \ {x}
    <2>3. r \in SUBSET S /\ Cardinality(r) = n /\ x \notin r /\ r \cup {x} = s /\ x \in S
      BY <1>1
    <2> HIDE DEF r
    <2>4. r \in T
      BY <1>3, <2>3
    <2> QED
      BY <2>3, <2>4
  <1> HIDE DEF U
  <1>4. \A n \in Nat : n \in U
    BY <1>2, <1>3, NatSetInduction
  <1> QED
    BY <1>1, <1>4 DEF U

\* A part is no more than the whole.
LEMMA SigmaPart ==
    ASSUME NEW S, IsFiniteSet(S), NEW w, \A x \in S : w[x] \in Nat, NEW R, R \subseteq S
    PROVE  Sigma(w, R) \in Nat /\ Sigma(w, R) <= Sigma(w, S)
  <1>0. ASSUME NEW s \in SUBSET S
        PROVE  IsFiniteSet(s) /\ (\A x \in s : w[x] \in Nat) /\ Sigma(w, s) \in Nat
    <2>1. IsFiniteSet(s) /\ \A x \in s : w[x] \in Nat
      BY FS_Subset
    <2> QED
      BY <2>1, SigmaFacts
  <1> DEFINE T == {s \in SUBSET S : Sigma(w, s \cap R) <= Sigma(w, s)}
  <1>1. {} \in T
    <2>1. {} \cap R = {} /\ {} \in SUBSET S
      OBVIOUS
    <2>2. Sigma(w, {}) <= Sigma(w, {})
      BY <1>0, <2>1
    <2> QED
      BY <2>1, <2>2
  <1>2. ASSUME NEW s \in SUBSET S, NEW x \in S, s \in T, x \notin s PROVE s \cup {x} \in T
    <2> DEFINE u == s \cup {x}
               q == s \cap R
    <2>1. Sigma(w, u) = w[x] + Sigma(w, s)
      <3>1. IsFiniteSet(s) /\ \A y \in s \cup {x} : w[y] \in Nat
        BY <1>0
      <3> QED
        BY <1>2, <3>1, SigmaMore
    <2>2. Sigma(w, q) <= Sigma(w, s) /\ Sigma(w, q) \in Nat /\ Sigma(w, s) \in Nat
      BY <1>0, <1>2
    <2>3. w[x] \in Nat
      OBVIOUS
    <2>4. CASE x \in R
      <3>1. u \cap R = q \cup {x} /\ x \notin q
        BY <1>2, <2>4
      <3>2. IsFiniteSet(q) /\ \A y \in q \cup {x} : w[y] \in Nat
        BY <1>0
      <3>3. Sigma(w, q \cup {x}) = w[x] + Sigma(w, q)
        BY <3>1, <3>2, SigmaMore
      <3>4. Sigma(w, u \cap R) <= Sigma(w, u)
        <4>1. Sigma(w, u \cap R) = w[x] + Sigma(w, q)
          BY <3>1, <3>3, Zenon
        <4> HIDE DEF u, q
        <4> QED
          BY <2>1, <2>2, <2>3, <4>1
      <3> QED
        BY <3>4
    <2>5. CASE x \notin R
      <3>1. u \cap R = q
        BY <2>5
      <3>2. Sigma(w, u \cap R) <= Sigma(w, u)
        <4>1. Sigma(w, u \cap R) = Sigma(w, q)
          BY <3>1, Zenon
        <4> HIDE DEF u, q
        <4> QED
          BY <2>1, <2>2, <2>3, <4>1
      <3> QED
        BY <3>2
    <2> QED
      BY <2>4, <2>5
  <1> HIDE DEF T
  <1>3. \A s \in SUBSET S : s \in T
    BY <1>1, <1>2, FinSetInduction
  <1>4. S \in T /\ S \cap R = R /\ R \in SUBSET S
    BY <1>3
  <1> QED
    BY <1>0, <1>4 DEF T

\* One summand grows.
LEMMA SigmaBump ==
    ASSUME NEW S, IsFiniteSet(S), NEW v, \A x \in S : v[x] \in Nat, NEW u, NEW d \in S,
           NEW a \in Nat, u[d] = a + v[d], \A x \in S : x # d => u[x] = v[x]
    PROVE  Sigma(u, S) = a + Sigma(v, S)
  <1> DEFINE R == S \ {d}
  <1>1. IsFiniteSet(R) /\ (\A x \in R : v[x] \in Nat /\ u[x] = v[x])
    BY FS_Subset
  <1>2. \A x \in S : u[x] \in Nat
    <2> SUFFICES ASSUME NEW x \in S PROVE u[x] \in Nat
      OBVIOUS
    <2>1. v[x] \in Nat
      OBVIOUS
    <2>2. CASE x = d
      BY <2>1, <2>2
    <2>3. CASE x # d
      BY <2>1, <2>3
    <2> QED
      BY <2>2, <2>3
  <1>3. Sigma(u, S) = u[d] + Sigma(u, R)
    BY <1>2, SigmaFacts
  <1>4. Sigma(v, S) = v[d] + Sigma(v, R)
    BY SigmaFacts
  <1> HIDE DEF R
  <1>5. Sigma(u, R) = Sigma(v, R) /\ Sigma(v, R) \in Nat
    BY <1>1, SigmaFacts
  <1>6. v[d] \in Nat
    OBVIOUS
  <1> QED
    BY <1>3, <1>4, <1>5, <1>6

\* A sum by keys.
LEMMA SigmaByKey ==
    ASSUME NEW S, IsFiniteSet(S), NEW w, \A x \in S : w[x] \in Nat,
           NEW K, IsFiniteSet(K), NEW k, \A x \in S : k[x] \in K
    PROVE  LET Part(c) == {x \in S : k[x] = c} IN
           /\ \A c \in K : Sigma(w, Part(c)) \in Nat /\ Sigma(w, Part(c)) <= Sigma(w, S)
           /\ Sigma([c \in K |-> Sigma(w, Part(c))], K) = Sigma(w, S)
  <1> DEFINE Of(s, c) == {x \in s : k[x] = c}
             By(s) == [c \in K |-> Sigma(w, Of(s, c))]
             T == {s \in SUBSET S : Sigma(By(s), K) = Sigma(w, s)}
  <1>0. ASSUME NEW s \in SUBSET S
        PROVE  IsFiniteSet(s) /\ (\A x \in s : w[x] \in Nat) /\ Sigma(w, s) \in Nat
    <2>1. IsFiniteSet(s) /\ \A x \in s : w[x] \in Nat
      BY FS_Subset
    <2> QED
      BY <2>1, SigmaFacts
  <1>1. ASSUME NEW s \in SUBSET S, NEW c \in K
        PROVE  Of(s, c) \in SUBSET S /\ By(s)[c] = Sigma(w, Of(s, c)) /\ By(s)[c] \in Nat
    <2>1. Of(s, c) \in SUBSET S
      OBVIOUS
    <2>2. Sigma(w, Of(s, c)) \in Nat
      BY <1>0, <2>1
    <2>3. By(s)[c] = Sigma(w, Of(s, c))
      OBVIOUS
    <2> HIDE DEF By
    <2> QED
      BY <2>1, <2>2, <2>3
  <1>2. {} \in T
    <2>1. \A c \in K : Of({}, c) = {}
      OBVIOUS
    <2>2. Sigma(w, {}) = 0
      BY SigmaFacts
    <2>3. \A c \in K : By({})[c] = 0
      BY <1>1, <2>1, <2>2
    <2> DEFINE z == By({})
               Z == {s \in SUBSET K : Sigma(z, s) = 0}
    <2> HIDE DEF By
    <2>4. {} \in Z
      <3>1. \A c \in K : z[c] \in Nat
        BY <2>3
      <3>2. Sigma(z, {}) = 0
        BY <3>1, SigmaFacts
      <3> QED
        BY <3>2
    <2>5. ASSUME NEW s \in SUBSET K, NEW c \in K, s \in Z, c \notin s PROVE s \cup {c} \in Z
      <3>1. IsFiniteSet(s) /\ \A x \in s \cup {c} : z[x] \in Nat
        BY <2>3, FS_Subset
      <3>2. Sigma(z, s \cup {c}) = z[c] + Sigma(z, s)
        BY <2>5, <3>1, SigmaMore
      <3>3. z[c] = 0 /\ Sigma(z, s) = 0
        BY <2>3, <2>5
      <3> HIDE DEF z
      <3>4. Sigma(z, s \cup {c}) = 0
        BY <3>2, <3>3
      <3> QED
        BY <3>4
    <2> HIDE DEF Z
    <2>6. \A s \in SUBSET K : s \in Z
      BY <2>4, <2>5, FinSetInduction
    <2>7. Sigma(z, K) = 0
      BY <2>6 DEF Z
    <2> QED
      BY <2>2, <2>7
  <1>3. ASSUME NEW s \in SUBSET S, NEW y \in S, s \in T, y \notin s PROVE s \cup {y} \in T
    <2> DEFINE t == s \cup {y}
               d == k[y]
               q == Of(s, d)
    <2>1. Sigma(w, t) = w[y] + Sigma(w, s)
      <3>1. IsFiniteSet(s) /\ \A x \in s \cup {y} : w[x] \in Nat
        BY <1>0
      <3> QED
        BY <1>3, <3>1, SigmaMore
    <2>2. t \in SUBSET S /\ d \in K /\ w[y] \in Nat
      OBVIOUS
    <2>3. By(t)[d] = w[y] + By(s)[d]
      <3>1. Of(t, d) = q \cup {y} /\ y \notin q /\ q \in SUBSET S
        BY <1>3
      <3>2. IsFiniteSet(q) /\ \A x \in q \cup {y} : w[x] \in Nat
        BY <1>0, <3>1
      <3>3. Sigma(w, q \cup {y}) = w[y] + Sigma(w, q)
        BY <3>1, <3>2, SigmaMore
      <3>4. By(t)[d] = Sigma(w, Of(t, d)) /\ By(s)[d] = Sigma(w, q)
        BY <1>1, <2>2
      <3> HIDE DEF By, q, t, d
      <3> QED
        BY <3>1, <3>3, <3>4
    <2>4. \A c \in K : c # d => By(t)[c] = By(s)[c]
      <3> SUFFICES ASSUME NEW c \in K, c # d PROVE By(t)[c] = By(s)[c]
        OBVIOUS
      <3>1. Of(t, c) = Of(s, c)
        OBVIOUS
      <3>2. By(t)[c] = Sigma(w, Of(t, c)) /\ By(s)[c] = Sigma(w, Of(s, c))
        BY <1>1, <2>2
      <3> HIDE DEF By, Of
      <3> QED
        BY <3>1, <3>2
    <2>5. \A c \in K : By(s)[c] \in Nat
      BY <1>1
    <2> HIDE DEF By, Of, t, d, q
    <2>6. Sigma(By(t), K) = w[y] + Sigma(By(s), K)
      BY <2>2, <2>3, <2>4, <2>5, SigmaBump
    <2>7. Sigma(By(s), K) = Sigma(w, s)
      BY <1>3
    <2>8. Sigma(By(t), K) = Sigma(w, t)
      BY <2>1, <2>6, <2>7
    <2> QED
      BY <2>2, <2>8 DEF t
  <1> HIDE DEF T
  <1>4. \A s \in SUBSET S : s \in T
    BY <1>2, <1>3, FinSetInduction
  <1>5. S \in SUBSET S
    OBVIOUS
  <1>6. Sigma(By(S), K) = Sigma(w, S)
    BY <1>4, <1>5 DEF T
  <1>7. \A c \in K : Sigma(w, Of(S, c)) \in Nat /\ Sigma(w, Of(S, c)) <= Sigma(w, S)
    <2> SUFFICES ASSUME NEW c \in K
                 PROVE  Sigma(w, Of(S, c)) \in Nat /\ Sigma(w, Of(S, c)) <= Sigma(w, S)
      OBVIOUS
    <2>1. Of(S, c) \subseteq S
      OBVIOUS
    <2> HIDE DEF Of
    <2> QED
      BY <2>1, SigmaPart
  <1> QED
    BY <1>6, <1>7

ImageOf(h, S) == {h[x] : x \in S}

\* A sum over another set of indices.
LEMMA SigmaIndex ==
    ASSUME NEW S, IsFiniteSet(S), NEW w, \A x \in S : w[x] \in Nat, NEW v, NEW h,
           \A x \in S : v[h[x]] = w[x], \A x, y \in S : h[x] = h[y] => x = y
    PROVE  /\ IsFiniteSet(ImageOf(h, S)) /\ \A y \in ImageOf(h, S) : v[y] \in Nat
           /\ Sigma(v, ImageOf(h, S)) = Sigma(w, S)
  <1> DEFINE H(s) == {h[x] : x \in s}
             T == {s \in SUBSET S : IsFiniteSet(H(s)) /\ Sigma(v, H(s)) = Sigma(w, s)}
  <1>0. \A s \in SUBSET S : \A y \in H(s) : v[y] \in Nat
    OBVIOUS
  <1>1. {} \in T
    <2>1. H({}) = {} /\ IsFiniteSet({}) /\ {} \in SUBSET S
      BY FS_EmptySet
    <2>2. Sigma(w, {}) = 0
      BY SigmaFacts
    <2>3. Sigma(v, {}) = 0
      <3>1. \A x \in {} : v[x] \in Nat
        OBVIOUS
      <3> QED
        BY <2>1, <3>1, SigmaFacts
    <2> HIDE DEF H
    <2> QED
      BY <2>1, <2>2, <2>3
  <1>2. ASSUME NEW s \in SUBSET S, NEW x \in S, s \in T, x \notin s PROVE s \cup {x} \in T
    <2> DEFINE t == s \cup {x}
               y == h[x]
               G == H(s)
    <2>1. Sigma(w, t) = w[x] + Sigma(w, s)
      <3>1. IsFiniteSet(s) /\ \A z \in s \cup {x} : w[z] \in Nat
        BY FS_Subset
      <3> QED
        BY <1>2, <3>1, SigmaMore
    <2>2. H(t) = G \cup {y} /\ y \notin G
      BY <1>2
    <2>3. IsFiniteSet(G) /\ Sigma(v, G) = Sigma(w, s) /\ \A z \in G \cup {y} : v[z] \in Nat
      BY <1>2
    <2>4. v[y] = w[x] /\ t \in SUBSET S
      OBVIOUS
    <2> HIDE DEF G, y, t, H
    <2>5. Sigma(v, G \cup {y}) = v[y] + Sigma(v, G) /\ IsFiniteSet(G \cup {y})
      BY <2>2, <2>3, SigmaMore, FS_AddElement
    <2> QED
      BY <2>1, <2>2, <2>3, <2>4, <2>5 DEF t
  <1> HIDE DEF T
  <1>3. \A s \in SUBSET S : s \in T
    BY <1>1, <1>2, FinSetInduction
  <1>4. S \in SUBSET S
    OBVIOUS
  <1>5. IsFiniteSet(H(S)) /\ Sigma(v, H(S)) = Sigma(w, S)
    BY <1>3, <1>4 DEF T
  <1> QED
    BY <1>0, <1>4, <1>5 DEF ImageOf

\* What the loop leaves is the sum.
LEMMA LoopIsSigma ==
    ASSUME NEW S, IsFiniteSet(S), NEW w, \A x \in S : w[x] \in Nat, NEW g, Loops(g, w, S)
    PROVE  g[S] = Sigma(w, S)
  <1>1. Sums(g, w, S)
    BY LoopSums
  <1>2. PICK h : Sums(h, w, S) /\ h[S] = Sigma(w, S)
    BY SigmaIsSums
  <1> QED
    BY <1>1, <1>2, SumsUnique

\* The tokens of a set of rows.
LEMMA TotalTokens ==
    ASSUME NEW R, IsFiniteSet(R), NEW w, \A r \in R : w[r] = r.tokens /\ r.tokens \in Nat
    PROVE  Total(R, LAMBDA r : r.tokens) = Sigma(w, R)
  <1> DEFINE Body(g) == [s \in SUBSET R |-> IF s = {} THEN 0
                           ELSE (CHOOSE x \in s : TRUE).tokens + g[s \ {CHOOSE x \in s : TRUE}]]
             f == CHOOSE g : g = Body(g)
  <1>1. Total(R, LAMBDA r : r.tokens) = f[R]
    BY DEF Total, FoldSet, MapThenFoldSet
  <1>2. ASSUME NEW g PROVE g = Body(g) <=> Loops(g, w, R)
    <2>1. \A s \in SUBSET R : s # {} => w[Chosen(s)] = (CHOOSE x \in s : TRUE).tokens
                                         /\ Chosen(s) = CHOOSE x \in s : TRUE
      BY DEF Chosen
    <2>2. ASSUME NEW s \in SUBSET R
          PROVE  (IF s = {} THEN 0 ELSE (CHOOSE x \in s : TRUE).tokens + g[s \ {CHOOSE x \in s : TRUE}])
                   = IF s = {} THEN 0 ELSE w[Chosen(s)] + g[s \ {Chosen(s)}]
      <3>1. CASE s = {}
        BY <3>1
      <3>2. CASE s # {}
        <4>1. /\ w[Chosen(s)] = (CHOOSE x \in s : TRUE).tokens
              /\ Chosen(s) = CHOOSE x \in s : TRUE
          BY <2>1, <3>2
        <4> QED
          BY <3>2, <4>1
      <3> QED
        BY <3>1, <3>2
    <2>3. Body(g) = [s \in SUBSET R |-> IF s = {} THEN 0
                                         ELSE w[Chosen(s)] + g[s \ {Chosen(s)}]]
      BY <2>2
    <2> HIDE DEF Body
    <2> QED
      BY <2>3 DEF Loops
  <1>3. \E g : g = Body(g)
    <2>1. \E g : Loops(g, w, R)
      BY LoopExists
    <2> HIDE DEF Body
    <2> QED
      BY <1>2, <2>1
  <1>4. f = Body(f)
    <2> HIDE DEF Body
    <2> QED
      BY <1>3, Zenon
  <1>5. Loops(f, w, R)
    <2> HIDE DEF Body, f
    <2> QED
      BY <1>2, <1>4
  <1> HIDE DEF f
  <1>6. f[R] = Sigma(w, R)
    BY <1>5, LoopIsSigma
  <1> QED
    BY <1>1, <1>6

\* The tokens of some entries.
LEMMA TotalEntries ==
    ASSUME NEW I, IsFiniteSet(I), NEW entries, NEW w,
           \A i \in I : w[i] = entries[i].tokens /\ entries[i].tokens \in Nat
    PROVE  Total(I, LAMBDA i : entries[i].tokens) = Sigma(w, I)
  <1> DEFINE Body(g) == [s \in SUBSET I |-> IF s = {} THEN 0
                           ELSE entries[CHOOSE x \in s : TRUE].tokens
                                + g[s \ {CHOOSE x \in s : TRUE}]]
             f == CHOOSE g : g = Body(g)
  <1>1. Total(I, LAMBDA i : entries[i].tokens) = f[I]
    BY DEF Total, FoldSet, MapThenFoldSet
  <1>2. ASSUME NEW g PROVE g = Body(g) <=> Loops(g, w, I)
    <2>1. \A s \in SUBSET I : s # {} => w[Chosen(s)] = entries[CHOOSE x \in s : TRUE].tokens
                                         /\ Chosen(s) = CHOOSE x \in s : TRUE
      BY DEF Chosen
    <2>2. ASSUME NEW s \in SUBSET I
          PROVE  (IF s = {} THEN 0 ELSE entries[CHOOSE x \in s : TRUE].tokens + g[s \ {CHOOSE x \in s : TRUE}])
                   = IF s = {} THEN 0 ELSE w[Chosen(s)] + g[s \ {Chosen(s)}]
      <3>1. CASE s = {}
        BY <3>1
      <3>2. CASE s # {}
        <4>1. /\ w[Chosen(s)] = entries[CHOOSE x \in s : TRUE].tokens
              /\ Chosen(s) = CHOOSE x \in s : TRUE
          BY <2>1, <3>2
        <4> QED
          BY <3>2, <4>1
      <3> QED
        BY <3>1, <3>2
    <2>3. Body(g) = [s \in SUBSET I |-> IF s = {} THEN 0
                                         ELSE w[Chosen(s)] + g[s \ {Chosen(s)}]]
      BY <2>2
    <2> HIDE DEF Body
    <2> QED
      BY <2>3 DEF Loops
  <1>3. \E g : g = Body(g)
    <2>1. \E g : Loops(g, w, I)
      BY LoopExists
    <2> HIDE DEF Body
    <2> QED
      BY <1>2, <2>1
  <1>4. f = Body(f)
    <2> HIDE DEF Body
    <2> QED
      BY <1>3, Zenon
  <1>5. Loops(f, w, I)
    <2> HIDE DEF Body, f
    <2> QED
      BY <1>2, <1>4
  <1> HIDE DEF f
  <1>6. f[I] = Sigma(w, I)
    BY <1>5, LoopIsSigma
  <1> QED
    BY <1>1, <1>6

\* The sum of some counters.
LEMMA SumTokensIs ==
    ASSUME NEW counts, IsFiniteSet(DOMAIN counts), \A i \in DOMAIN counts : counts[i] \in Nat
    PROVE  sumTokens(counts) = Sigma(counts, DOMAIN counts)
  <1> DEFINE I == DOMAIN counts
             Body(g) == [s \in SUBSET I |-> IF s = {} THEN 0
                           ELSE counts[CHOOSE x \in s : TRUE] + g[s \ {CHOOSE x \in s : TRUE}]]
             f == CHOOSE g : g = Body(g)
  <1>1. sumTokens(counts) = f[I]
    BY DEF sumTokens, FoldSeq, FoldFunction, FoldFunctionOnSet, MapThenFoldSet
  <1>2. ASSUME NEW g PROVE g = Body(g) <=> Loops(g, counts, I)
    BY DEF Loops, Chosen
  <1>3. \E g : g = Body(g)
    <2>1. \E g : Loops(g, counts, I)
      BY LoopExists
    <2> HIDE DEF Body
    <2> QED
      BY <1>2, <2>1
  <1>4. f = Body(f)
    <2> HIDE DEF Body
    <2> QED
      BY <1>3, Zenon
  <1>5. Loops(f, counts, I)
    <2> HIDE DEF Body, f
    <2> QED
      BY <1>2, <1>4
  <1> HIDE DEF f
  <1>6. f[I] = Sigma(counts, I)
    BY <1>5, LoopIsSigma
  <1> QED
    BY <1>1, <1>6

-----------------------------------------------------------------------------
(* The tokens of a sequence of entries.                                     *)

TokensOf(es) == [i \in DOMAIN es |-> es[i].tokens]
Spent(es) == Sigma(TokensOf(es), DOMAIN es)

\* The sum of a sequence of numbers, as it grows.
LEMMA SeqSigma ==
    ASSUME NEW c \in Seq(Nat)
    PROVE  /\ IsFiniteSet(DOMAIN c) /\ (\A i \in DOMAIN c : c[i] \in Nat)
           /\ Sigma(c, DOMAIN c) \in Nat
           /\ sumTokens(c) = Sigma(c, DOMAIN c)
           /\ Len(c) = 0 => Sigma(c, DOMAIN c) = 0
           /\ \A x \in Nat : Sigma(Append(c, x), DOMAIN Append(c, x)) = x + Sigma(c, DOMAIN c)
  <1>1. DOMAIN c = 1..Len(c) /\ Len(c) \in Nat /\ \A i \in DOMAIN c : c[i] \in Nat
    OBVIOUS
  <1>2. IsFiniteSet(DOMAIN c)
    BY <1>1, FS_Interval
  <1>3. Sigma(c, DOMAIN c) \in Nat /\ Sigma(c, {}) = 0 /\ sumTokens(c) = Sigma(c, DOMAIN c)
    BY <1>1, <1>2, SigmaFacts, SumTokensIs
  <1>4. Len(c) = 0 => DOMAIN c = {}
    BY <1>1
  <1>5. ASSUME NEW x \in Nat
        PROVE  Sigma(Append(c, x), DOMAIN Append(c, x)) = x + Sigma(c, DOMAIN c)
    <2> DEFINE b == Append(c, x)
               n == Len(c) + 1
               D == DOMAIN c
    <2>1. DOMAIN b = D \cup {n} /\ n \notin D /\ b[n] = x /\ \A i \in D : b[i] = c[i]
      BY <1>1
    <2> HIDE DEF b, n, D
    <2>2. \A i \in D \cup {n} : b[i] \in Nat
      BY <1>1, <2>1 DEF D
    <2>3. Sigma(b, D \cup {n}) = b[n] + Sigma(b, D)
      BY <1>2, <2>1, <2>2, SigmaMore DEF D
    <2>4. Sigma(b, D) = Sigma(c, D)
      BY <1>1, <1>2, <2>1, SigmaFacts DEF D
    <2>5. Sigma(b, DOMAIN b) = x + Sigma(c, D)
      BY <2>1, <2>3, <2>4
    <2> QED
      BY <2>5 DEF b, D
  <1> QED
    BY <1>1, <1>2, <1>3, <1>4, <1>5

\* The tokens of entries, as there are more of them.
LEMMA SpentStep ==
    ASSUME NEW E, \A e \in E : e.tokens \in Nat, NEW es \in Seq(E)
    PROVE  /\ TokensOf(es) \in Seq(Nat) /\ DOMAIN TokensOf(es) = DOMAIN es
           /\ Spent(es) \in Nat
           /\ Len(es) = 0 => Spent(es) = 0
           /\ \A e \in E : Spent(Append(es, e)) = e.tokens + Spent(es)
  <1>0. ASSUME NEW s \in Seq(E)
        PROVE  /\ DOMAIN TokensOf(s) = DOMAIN s /\ DOMAIN s = 1..Len(s) /\ Len(s) \in Nat
               /\ TokensOf(s) \in Seq(Nat) /\ Len(TokensOf(s)) = Len(s)
               /\ \A i \in 1..Len(s) : TokensOf(s)[i] = s[i].tokens /\ s[i] \in E
    <2>1. DOMAIN s = 1..Len(s) /\ Len(s) \in Nat /\ \A i \in 1..Len(s) : s[i] \in E
      OBVIOUS
    <2>2. TokensOf(s) = [i \in 1..Len(s) |-> s[i].tokens]
      BY <2>1 DEF TokensOf
    <2>3. \A i \in 1..Len(s) : s[i].tokens \in Nat
      BY <2>1
    <2> QED
      BY <2>1, <2>2, <2>3
  <1> DEFINE c == TokensOf(es)
  <1>1. c \in Seq(Nat) /\ DOMAIN c = DOMAIN es /\ Len(c) = Len(es)
    BY <1>0
  <1>2. Spent(es) = Sigma(c, DOMAIN c)
    BY <1>1 DEF Spent
  <1>3. ASSUME NEW e \in E PROVE Spent(Append(es, e)) = e.tokens + Spent(es)
    <2> DEFINE t == Append(es, e)
               x == e.tokens
    <2>1. t \in Seq(E) /\ x \in Nat /\ Len(t) = Len(es) + 1 /\ t[Len(es) + 1] = e
          /\ \A i \in 1..Len(es) : t[i] = es[i]
      OBVIOUS
    <2>2. TokensOf(t) = Append(c, x)
      <3> DEFINE a == TokensOf(t)
                 b == Append(c, x)
      <3>1. a \in Seq(Nat) /\ Len(a) = Len(es) + 1 /\ \A i \in 1..Len(a) : a[i] = t[i].tokens
        BY <1>0, <2>1
      <3>2. /\ b \in Seq(Nat) /\ Len(b) = Len(es) + 1 /\ b[Len(es) + 1] = x
            /\ \A i \in 1..Len(es) : b[i] = es[i].tokens
        <4>1. \A i \in 1..Len(c) : c[i] = es[i].tokens
          BY <1>0
        <4> HIDE DEF c, x, t
        <4>2. b \in Seq(Nat) /\ Len(b) = Len(c) + 1 /\ b[Len(c) + 1] = x
              /\ \A i \in 1..Len(c) : b[i] = c[i]
          BY <1>1, <2>1, AppendProperties
        <4> HIDE DEF b
        <4> QED
          BY <1>1, <4>1, <4>2
      <3>3. Len(es) \in Nat
        OBVIOUS
      <3> HIDE DEF a, b, t, c, x
      <3>4. ASSUME NEW i \in 1..Len(a) PROVE a[i] = b[i]
        <4>1. i \in 1..Len(es) \/ i = Len(es) + 1
          BY <3>1, <3>3
        <4>2. a[i] = t[i].tokens
          BY <3>1
        <4>3. CASE i \in 1..Len(es)
          BY <2>1, <3>2, <4>2, <4>3
        <4>4. CASE i = Len(es) + 1
          BY <2>1, <3>2, <4>2, <4>4 DEF x
        <4> QED
          BY <4>1, <4>3, <4>4
      <3> QED
        BY <3>1, <3>2, <3>4, SeqEqual DEF a, b
    <2>3. DOMAIN TokensOf(t) = DOMAIN t
      BY <1>0, <2>1
    <2>4. Spent(t) = Sigma(Append(c, x), DOMAIN Append(c, x))
      BY <2>2, <2>3 DEF Spent
    <2> HIDE DEF t, c, x
    <2> QED
      BY <1>1, <1>2, <2>1, <2>4, SeqSigma DEF t, x
  <1>4. Spent(es) \in Nat /\ (Len(es) = 0 => Spent(es) = 0)
    <2> HIDE DEF c
    <2> QED
      BY <1>1, <1>2, SeqSigma
  <1> QED
    BY <1>1, <1>3, <1>4

\* Of one sequence of entries after the other.
LEMMA SpentConcat ==
    ASSUME NEW E, \A e \in E : e.tokens \in Nat, NEW s \in Seq(E), NEW t \in Seq(E)
    PROVE  Spent(s \o t) = Spent(s) + Spent(t)
  <1> DEFINE T == {u \in Seq(E) : Spent(s \o u) = Spent(s) + Spent(u)}
  <1>1. <<>> \in T
    <2> DEFINE e == <<>>
    <2>1. s \o e = s /\ e \in Seq(E) /\ Len(e) = 0
      BY ConcatStep, EmptySeq
    <2> HIDE DEF e
    <2>2. Spent(e) = 0 /\ Spent(s) \in Nat
      BY <2>1, SpentStep
    <2>3. Spent(s \o e) = Spent(s) + Spent(e)
      BY <2>1, <2>2
    <2> QED
      BY <2>1, <2>3 DEF e
  <1>2. ASSUME NEW u \in Seq(E), NEW x \in E, u \in T PROVE Append(u, x) \in T
    <2> DEFINE a == s \o u
               b == Append(u, x)
    <2>1. a \in Seq(E) /\ b \in Seq(E)
      OBVIOUS
    <2>2. s \o b = Append(a, x)
      BY ConcatStep
    <2>3. Spent(Append(a, x)) = x.tokens + Spent(a) /\ Spent(b) = x.tokens + Spent(u)
      <3> HIDE DEF a
      <3> QED
        BY <2>1, SpentStep
    <2>4. Spent(a) = Spent(s) + Spent(u)
      BY <1>2
    <2>5. Spent(s) \in Nat /\ Spent(u) \in Nat /\ x.tokens \in Nat
      BY SpentStep
    <2>6. Spent(s \o b) = Spent(Append(a, x))
      BY <2>2
    <2> HIDE DEF a, b
    <2>7. Spent(s \o b) = Spent(s) + Spent(b)
      BY <2>3, <2>4, <2>5, <2>6
    <2> QED
      BY <2>1, <2>7 DEF b
  <1> HIDE DEF T
  <1>3. \A u \in Seq(E) : u \in T
    BY <1>1, <1>2, SeqSetInduction
  <1> QED
    BY <1>3 DEF T

SpentEach(ss) == [k \in DOMAIN ss |-> Spent(ss[k])]

\* Of sequences of entries, flattened: sum by sum.
LEMMA SpentFlat ==
    ASSUME NEW E, \A e \in E : e.tokens \in Nat, NEW ss \in Seq(Seq(E))
    PROVE  /\ FlattenSeq(ss) \in Seq(E)
           /\ SpentEach(ss) \in Seq(Nat)
           /\ Spent(FlattenSeq(ss)) = sumTokens(SpentEach(ss))
  <1> DEFINE T == {s \in Seq(Seq(E)) : Spent(FlattenSeq(s)) = sumTokens(SpentEach(s))}
  <1>0. ASSUME NEW s \in Seq(Seq(E))
        PROVE  /\ SpentEach(s) \in Seq(Nat) /\ Len(SpentEach(s)) = Len(s)
               /\ \A i \in 1..Len(s) : SpentEach(s)[i] = Spent(s[i]) /\ s[i] \in Seq(E)
    <2>1. DOMAIN s = 1..Len(s) /\ Len(s) \in Nat /\ \A i \in 1..Len(s) : s[i] \in Seq(E)
      OBVIOUS
    <2>2. SpentEach(s) = [i \in 1..Len(s) |-> Spent(s[i])]
      BY <2>1 DEF SpentEach
    <2>3. \A i \in 1..Len(s) : Spent(s[i]) \in Nat
      BY <2>1, SpentStep
    <2> QED
      BY <2>1, <2>2, <2>3
  <1>1. <<>> \in T
    <2> DEFINE e == <<>>
    <2>1. e \in Seq(Seq(E)) /\ e \in Seq(E) /\ Len(e) = 0 /\ FlattenSeq(e) = e
      BY EmptySeq, FlattenStep
    <2> HIDE DEF e
    <2>2. Spent(e) = 0
      BY <2>1, SpentStep
    <2>3. SpentEach(e) \in Seq(Nat) /\ Len(SpentEach(e)) = 0
      BY <1>0, <2>1
    <2>4. sumTokens(SpentEach(e)) = 0
      BY <2>3, SeqSigma
    <2> QED
      BY <2>1, <2>2, <2>4 DEF e
  <1>2. ASSUME NEW s \in Seq(Seq(E)), NEW x \in Seq(E), s \in T PROVE Append(s, x) \in T
    <2> DEFINE t == Append(s, x)
               c == SpentEach(s)
               n == Spent(x)
    <2>1. t \in Seq(Seq(E)) /\ Len(t) = Len(s) + 1 /\ t[Len(s) + 1] = x
          /\ (\A i \in 1..Len(s) : t[i] = s[i]) /\ Len(s) \in Nat
      OBVIOUS
    <2>2. n \in Nat /\ c \in Seq(Nat) /\ Len(c) = Len(s) /\ \A i \in 1..Len(s) : c[i] = Spent(s[i])
      BY <1>0, SpentStep
    <2>3. SpentEach(t) = Append(c, n)
      <3> DEFINE a == SpentEach(t)
                 b == Append(c, n)
      <3>1. a \in Seq(Nat) /\ Len(a) = Len(s) + 1 /\ \A i \in 1..Len(a) : a[i] = Spent(t[i])
        BY <1>0, <2>1
      <3>2. /\ b \in Seq(Nat) /\ Len(b) = Len(s) + 1 /\ b[Len(s) + 1] = n
            /\ \A i \in 1..Len(s) : b[i] = Spent(s[i])
        <4> HIDE DEF c, n
        <4> QED
          BY <2>2, AppendProperties
      <3> HIDE DEF a, b, t, c
      <3>3. ASSUME NEW i \in 1..Len(a) PROVE a[i] = b[i]
        <4>1. i \in 1..Len(s) \/ i = Len(s) + 1
          BY <2>1, <3>1
        <4>2. a[i] = Spent(t[i])
          BY <3>1
        <4>3. CASE i \in 1..Len(s)
          BY <2>1, <3>2, <4>2, <4>3
        <4>4. CASE i = Len(s) + 1
          BY <2>1, <3>2, <4>2, <4>4
        <4> QED
          BY <4>1, <4>3, <4>4
      <3> QED
        BY <3>1, <3>2, <3>3, SeqEqual DEF a, b
    <2>4. sumTokens(SpentEach(t)) = n + sumTokens(c)
      <3> HIDE DEF c, n, t
      <3>1. Append(c, n) \in Seq(Nat)
        BY <2>2
      <3>2. sumTokens(Append(c, n)) = Sigma(Append(c, n), DOMAIN Append(c, n))
        BY <3>1, SeqSigma
      <3>3. Sigma(Append(c, n), DOMAIN Append(c, n)) = n + sumTokens(c)
        BY <2>2, SeqSigma
      <3> QED
        BY <2>3, <3>2, <3>3
    <2>5. FlattenSeq(t) = FlattenSeq(s) \o x /\ FlattenSeq(s) \in Seq(E)
      BY FlattenStep
    <2>6. Spent(FlattenSeq(t)) = Spent(FlattenSeq(s)) + n
      <3>1. Spent(FlattenSeq(s) \o x) = Spent(FlattenSeq(s)) + Spent(x)
        BY <2>5, SpentConcat
      <3> QED
        BY <2>5, <3>1
    <2>7. Spent(FlattenSeq(s)) = sumTokens(c)
      BY <1>2
    <2>8. Spent(FlattenSeq(s)) \in Nat
      BY <2>5, SpentStep
    <2> HIDE DEF t, c, n
    <2>9. Spent(FlattenSeq(t)) = sumTokens(SpentEach(t))
      BY <2>2, <2>4, <2>6, <2>7, <2>8
    <2> QED
      BY <2>1, <2>9 DEF t
  <1> HIDE DEF T
  <1>3. \A s \in Seq(Seq(E)) : s \in T
    BY <1>1, <1>2, SeqSetInduction
  <1>4. FlattenSeq(ss) \in Seq(E)
    BY FlattenStep, EmptySeq
  <1> QED
    BY <1>0, <1>3, <1>4 DEF T

\* A sum that fits its width is not wrapped.
LEMMA WrappedFits ==
    ASSUME NEW n \in Nat, n <= MaxUint
    PROVE  Wrapped(n) = n
  BY UintAssumption DEF Wrapped

\* Counters that sum to a total, as validateTotals accepts it.
LEMMA SumsToIs ==
    ASSUME NEW c \in Seq(Nat), NEW total \in Nat, SumsTo(c, total)
    PROVE  sumTokens(c) = total /\ total <= MaxUint
  <1> DEFINE n == sumTokens(c)
  <1>1. n \in Nat
    BY SeqSigma
  <1>2. n <= MaxUint /\ Wrapped(n) = total
    BY DEF SumsTo, addUint
  <1> HIDE DEF n
  <1>3. Wrapped(n) = n
    BY <1>1, <1>2, WrappedFits
  <1> QED
    BY <1>2, <1>3 DEF n

AgentEntries(day, agent) ==
    [i \in DOMAIN agent.models |->
       [date |-> day.date, source |-> agent.source, model |-> agent.models[i].model,
        tokens |-> agent.models[i].tokens, cost |-> agent.models[i].cost]]

DayEntries(day) ==
    FlattenSeq([a \in DOMAIN day.agents |-> AgentEntries(day, day.agents[a])])

Entry == [date : Since..Until, source : STRING, model : ModelNames, tokens : Nat, cost : Nat]

\* An agent's entries have the tokens of its breakdowns.
LEMMA AgentSpent ==
    ASSUME NEW day \in rawDaily, day.date \in Since..Until, NEW agent \in rawAgentDaily,
           SumsTo([k \in DOMAIN agent.models |-> agent.models[k].tokens], agent.total)
    PROVE  AgentEntries(day, agent) \in Seq(Entry)
           /\ Spent(AgentEntries(day, agent)) = agent.total
  <1> DEFINE ms == agent.models
             es == AgentEntries(day, agent)
             c == TokensOf(es)
             n == Len(ms)
  <1>1. /\ ms \in Seq(rawModelBreakdown) /\ agent.total \in Nat /\ agent.source \in STRING
        /\ n \in Nat /\ DOMAIN ms = 1..n
        /\ \A i \in 1..n : ms[i] \in rawModelBreakdown
    BY DEF rawAgentDaily
  <1>2. \A i \in 1..n : ms[i].model \in ModelNames /\ ms[i].tokens \in Nat /\ ms[i].cost \in Nat
    BY <1>1 DEF rawModelBreakdown
  <1>3. es = [i \in 1..n |-> [date |-> day.date, source |-> agent.source,
                               model |-> ms[i].model, tokens |-> ms[i].tokens,
                               cost |-> ms[i].cost]]
    BY <1>1 DEF AgentEntries
  <1>4. es \in Seq(Entry) /\ DOMAIN es = 1..n /\ \A i \in 1..n : es[i].tokens = ms[i].tokens
    <2>1. \A i \in 1..n : es[i] \in Entry /\ es[i].tokens = ms[i].tokens
      BY <1>1, <1>2, <1>3 DEF Entry
    <2> HIDE DEF ms, n
    <2>2. DOMAIN es = 1..n
      BY <1>3
    <2>3. es = [i \in 1..n |-> es[i]]
      BY <1>3
    <2> HIDE DEF es
    <2> QED
      BY <1>1, <2>1, <2>2, <2>3
  <1>5. c = [k \in DOMAIN ms |-> ms[k].tokens]
    <2> HIDE DEF es, ms, n
    <2> QED
      BY <1>1, <1>4 DEF TokensOf
  <1>6. SumsTo(c, agent.total)
    BY <1>5
  <1>7. c \in Seq(Nat) /\ DOMAIN c = DOMAIN es
    <2>1. \A e \in Entry : e.tokens \in Nat
      BY DEF Entry
    <2> HIDE DEF es
    <2> QED
      BY <1>4, <2>1, SpentStep
  <1>8. Spent(es) = Sigma(c, DOMAIN c)
    BY <1>7 DEF Spent
  <1> HIDE DEF es, c, ms
  <1>9. sumTokens(c) = agent.total
    BY <1>1, <1>6, <1>7, SumsToIs
  <1>10. Spent(es) = agent.total
    BY <1>7, <1>8, <1>9, SeqSigma
  <1> QED
    BY <1>4, <1>10 DEF es

\* A day's entries have the tokens of its agents.
LEMMA DaySpent ==
    ASSUME NEW day \in rawDaily, day.date \in Since..Until,
           SumsTo([k \in DOMAIN day.agents |-> day.agents[k].total], day.total),
           \A a \in ToSet(day.agents) :
              SumsTo([k \in DOMAIN a.models |-> a.models[k].tokens], a.total)
    PROVE  DayEntries(day) \in Seq(Entry) /\ Spent(DayEntries(day)) = day.total
  <1> DEFINE as == day.agents
             n == Len(as)
             ss == [a \in DOMAIN as |-> AgentEntries(day, as[a])]
             c == SpentEach(ss)
  <1>1. /\ as \in Seq(rawAgentDaily) /\ day.total \in Nat
        /\ n \in Nat /\ DOMAIN as = 1..n
        /\ \A i \in 1..n : as[i] \in rawAgentDaily /\ as[i].total \in Nat
    <2>1. as \in Seq(rawAgentDaily) /\ day.total \in Nat
      BY DEF rawDaily
    <2>2. n \in Nat /\ DOMAIN as = 1..n /\ \A i \in 1..n : as[i] \in rawAgentDaily
      <3>1. \A s \in Seq(rawAgentDaily) : /\ Len(s) \in Nat /\ DOMAIN s = 1..Len(s)
                               /\ \A i \in 1..Len(s) : s[i] \in rawAgentDaily
        OBVIOUS
      <3> HIDE DEF as
      <3> QED
        BY <2>1, <3>1
    <2>3. \A a \in rawAgentDaily : a.total \in Nat
      BY DEF rawAgentDaily
    <2> HIDE DEF as, n
    <2> QED
      BY <2>1, <2>2, <2>3
  <1>2. ASSUME NEW i \in 1..n
        PROVE  AgentEntries(day, as[i]) \in Seq(Entry) /\ Spent(AgentEntries(day, as[i])) = as[i].total
    <2> DEFINE a == as[i]
    <2>1. a \in ToSet(day.agents) /\ a \in rawAgentDaily
      BY <1>1 DEF ToSet
    <2> HIDE DEF a
    <2>2. SumsTo([k \in DOMAIN a.models |-> a.models[k].tokens], a.total)
      BY <2>1
    <2>3. AgentEntries(day, a) \in Seq(Entry) /\ Spent(AgentEntries(day, a)) = a.total
      BY <2>1, <2>2, AgentSpent
    <2> QED
      BY <2>3 DEF a
  <1>3. /\ ss \in Seq(Seq(Entry)) /\ DOMAIN ss = 1..n
        /\ \A i \in 1..n : Spent(ss[i]) = as[i].total
    <2>1. ss = [i \in 1..n |-> AgentEntries(day, as[i])]
      BY <1>1
    <2> HIDE DEF as, n
    <2>2. \A i \in 1..n : ss[i] = AgentEntries(day, as[i])
      BY <2>1
    <2>3. ss \in [1..n -> Seq(Entry)]
      BY <1>2, <2>1
    <2>4. n \in Nat /\ DOMAIN ss = 1..n
      BY <1>1, <2>1
    <2> HIDE DEF ss
    <2>5. ss \in Seq(Seq(Entry))
      BY <2>3, <2>4
    <2> QED
      BY <1>2, <2>2, <2>4, <2>5
  <1>4. \A e \in Entry : e.tokens \in Nat
    BY DEF Entry
  <1>5. c = [k \in DOMAIN as |-> as[k].total]
    <2> HIDE DEF ss, as, n
    <2> QED
      BY <1>1, <1>3 DEF SpentEach
  <1>6. SumsTo(c, day.total)
    BY <1>5
  <1>7. DayEntries(day) = FlattenSeq(ss)
    BY DEF DayEntries
  <1> HIDE DEF ss, as
  <1>8. FlattenSeq(ss) \in Seq(Entry) /\ c \in Seq(Nat) /\ Spent(FlattenSeq(ss)) = sumTokens(c)
    BY <1>3, <1>4, SpentFlat
  <1> HIDE DEF c
  <1>9. sumTokens(c) = day.total
    BY <1>1, <1>6, <1>8, SumsToIs
  <1> QED
    BY <1>7, <1>8, <1>9

\* The entries of a document that parseDaily accepts have its tokens.
LEMMA DocSpent ==
    ASSUME NEW doc \in rawDailyReport, parseDaily(doc, Since, Until) # None
    PROVE  /\ Entries(doc) \in Seq(Entry)
           /\ Spent(Entries(doc)) = doc.total /\ doc.total <= MaxUint
           /\ parseDaily(doc, Since, Until) =
                {addDailyModel(Entries(doc), key) :
                   key \in {<<e.date, e.source, e.model>> : e \in ToSet(Entries(doc))}}
  <1> DEFINE ds == doc.days
             n == Len(ds)
             ss == [d \in DOMAIN ds |-> DayEntries(ds[d])]
             c == SpentEach(ss)
  <1>1. /\ ds \in Seq(rawDaily) /\ doc.total \in Nat
        /\ n \in Nat /\ DOMAIN ds = 1..n
        /\ \A i \in 1..n : ds[i] \in rawDaily /\ ds[i].total \in Nat
    <2>1. ds \in Seq(rawDaily) /\ doc.total \in Nat
      BY DEF rawDailyReport
    <2>2. n \in Nat /\ DOMAIN ds = 1..n /\ \A i \in 1..n : ds[i] \in rawDaily
      <3>1. \A s \in Seq(rawDaily) : /\ Len(s) \in Nat /\ DOMAIN s = 1..Len(s)
                               /\ \A i \in 1..Len(s) : s[i] \in rawDaily
        OBVIOUS
      <3> HIDE DEF ds
      <3> QED
        BY <2>1, <3>1
    <2>3. \A d \in rawDaily : d.total \in Nat
      BY DEF rawDaily
    <2> HIDE DEF ds, n
    <2> QED
      BY <2>1, <2>2, <2>3
  <1>2. /\ \A d \in ToSet(doc.days) : d.date \in Since..Until
        /\ Balanced(doc)
    BY DEF parseDaily
  <1>3. ASSUME NEW i \in 1..n
        PROVE  DayEntries(ds[i]) \in Seq(Entry) /\ Spent(DayEntries(ds[i])) = ds[i].total
    <2> DEFINE d == ds[i]
    <2>1. d \in ToSet(doc.days) /\ d \in rawDaily
      BY <1>1 DEF ToSet
    <2> HIDE DEF d
    <2>2. /\ d.date \in Since..Until
          /\ SumsTo([k \in DOMAIN d.agents |-> d.agents[k].total], d.total)
          /\ \A a \in ToSet(d.agents) : SumsTo([k \in DOMAIN a.models |-> a.models[k].tokens], a.total)
      BY <1>2, <2>1 DEF Balanced
    <2>3. DayEntries(d) \in Seq(Entry) /\ Spent(DayEntries(d)) = d.total
      BY <2>1, <2>2, DaySpent
    <2> QED
      BY <2>3 DEF d
  <1>4. /\ ss \in Seq(Seq(Entry)) /\ DOMAIN ss = 1..n
        /\ \A i \in 1..n : Spent(ss[i]) = ds[i].total
    <2>1. ss = [i \in 1..n |-> DayEntries(ds[i])]
      BY <1>1
    <2> HIDE DEF ds, n
    <2>2. \A i \in 1..n : ss[i] = DayEntries(ds[i])
      BY <2>1
    <2>3. ss \in [1..n -> Seq(Entry)]
      BY <1>3, <2>1
    <2>4. n \in Nat /\ DOMAIN ss = 1..n
      BY <1>1, <2>1
    <2> HIDE DEF ss
    <2>5. ss \in Seq(Seq(Entry))
      BY <2>3, <2>4
    <2> QED
      BY <1>3, <2>2, <2>4, <2>5
  <1>5. \A e \in Entry : e.tokens \in Nat
    BY DEF Entry
  <1>6. c = [k \in DOMAIN ds |-> ds[k].total]
    <2> HIDE DEF ss, ds, n
    <2> QED
      BY <1>1, <1>4 DEF SpentEach
  <1>7. SumsTo(c, doc.total)
    BY <1>2, <1>6 DEF Balanced
  <1>8. Entries(doc) = FlattenSeq(ss)
    BY DEF Entries, DayEntries, AgentEntries
  <1> HIDE DEF ss, ds
  <1>9. FlattenSeq(ss) \in Seq(Entry) /\ c \in Seq(Nat) /\ Spent(FlattenSeq(ss)) = sumTokens(c)
    BY <1>4, <1>5, SpentFlat
  <1> HIDE DEF c
  <1>10. sumTokens(c) = doc.total /\ doc.total <= MaxUint
    BY <1>1, <1>7, <1>9, SumsToIs
  <1>11. parseDaily(doc, Since, Until) =
           {addDailyModel(Entries(doc), key) :
              key \in {<<e.date, e.source, e.model>> : e \in ToSet(Entries(doc))}}
    BY Zenon DEF parseDaily
  <1> QED
    BY <1>8, <1>9, <1>10, <1>11

\* The image of a finite set is finite, and no larger.
LEMMA ImageFinite ==
    ASSUME NEW S, IsFiniteSet(S), NEW f
    PROVE  /\ IsFiniteSet({f[x] : x \in S})
           /\ Cardinality({f[x] : x \in S}) <= Cardinality(S)
  <1> DEFINE T == {f[x] : x \in S}
             g == [x \in S |-> f[x]]
  <1>1. g \in Surjection(S, T)
    BY DEF Surjection
  <1> HIDE DEF T, g
  <1>2. IsFiniteSet(T) /\ Cardinality(T) <= Cardinality(S)
    BY <1>1, FS_Surjection
  <1> QED
    BY <1>2 DEF T

-----------------------------------------------------------------------------
(* Rows.                                                                    *)

KeyOf(e) == <<e.date, e.source, e.model>>
KeysOf(es) == {KeyOf(e) : e \in ToSet(es)}
Mine(es, key) == {i \in DOMAIN es : KeyOf(es[i]) = key}

\* What is known of rows: the day is one asked for, and the leg is the model's.
RowKnown(r) ==
    /\ r.tokens \in Nat /\ r.date \in Since..Until
    /\ r.leg = classifyLeg(r.model) /\ r.leg \in Legs \cup {"unknown"}

\* A row is its key's, has the tokens of the entries with that key, and a cost only if
\* all of them that used tokens were priced.
LEMMA RowIs ==
    ASSUME NEW es \in Seq(Entry), Spent(es) <= MaxUint, NEW key \in KeysOf(es)
    PROVE  LET r == addDailyModel(es, key) IN
           /\ RowKnown(r) /\ KeyOf(r) = key
           /\ r.tokens = Sigma(TokensOf(es), Mine(es, key))
           /\ r.cost # None => \A e \in ToSet(es) : KeyOf(e) = key => e.tokens = 0 \/ e.cost > 0
  <1> DEFINE r == addDailyModel(es, key)
             I == Mine(es, key)
             w == TokensOf(es)
  <1>1. PICK e \in Entry : KeyOf(e) = key
    <2>1. PICK e \in ToSet(es) : KeyOf(e) = key
      BY DEF KeysOf
    <2>2. e \in Entry
      BY <2>1 DEF ToSet
    <2> QED
      BY <2>1, <2>2
  <1>2. /\ key[1] \in Since..Until /\ key[3] \in ModelNames
        /\ key = <<key[1], key[2], key[3]>>
    BY <1>1 DEF KeyOf, Entry
  <1>3. /\ DOMAIN es = 1..Len(es) /\ IsFiniteSet(DOMAIN es) /\ DOMAIN w = DOMAIN es
        /\ \A i \in DOMAIN es : w[i] = es[i].tokens /\ w[i] \in Nat /\ es[i] \in Entry
    <2>1. DOMAIN es = 1..Len(es) /\ Len(es) \in Nat /\ \A i \in DOMAIN es : es[i] \in Entry
      OBVIOUS
    <2>2. \A x \in Entry : x.tokens \in Nat
      BY DEF Entry
    <2>3. w = [i \in DOMAIN es |-> es[i].tokens]
      BY DEF TokensOf
    <2>4. IsFiniteSet(1..Len(es))
      BY <2>1, FS_Interval
    <2> HIDE DEF w
    <2> QED
      BY <2>1, <2>2, <2>3, <2>4
  <1>4. I \subseteq DOMAIN es /\ IsFiniteSet(I)
    BY <1>3, FS_Subset DEF Mine
  <1>5. Sigma(w, I) \in Nat /\ Sigma(w, I) <= MaxUint
    <2>1. Sigma(w, I) \in Nat /\ Sigma(w, I) <= Sigma(w, DOMAIN es)
      <3> HIDE DEF w, I
      <3> QED
        BY <1>3, <1>4, SigmaPart
    <2>2. Sigma(w, DOMAIN es) = Spent(es) /\ Spent(es) \in Nat
      <3>1. \A x \in Entry : x.tokens \in Nat
        BY DEF Entry
      <3> QED
        BY <3>1, SpentStep DEF Spent
    <2> HIDE DEF w, I
    <2> QED
      BY <2>1, <2>2, UintAssumption
  <1>6. Total(I, LAMBDA i : es[i].tokens) = Sigma(w, I)
    <2>1. \A i \in I : w[i] = es[i].tokens /\ es[i].tokens \in Nat
      BY <1>3, <1>4
    <2> HIDE DEF w, I
    <2> QED
      BY <1>4, <2>1, TotalEntries
  <1>7. I = {i \in DOMAIN es : <<es[i].date, es[i].source, es[i].model>> = key}
    BY DEF Mine, KeyOf
  <1>8. r = [date |-> key[1], source |-> key[2], model |-> key[3],
             leg |-> classifyLeg(key[3]),
             tokens |-> Wrapped(Total(I, LAMBDA i : es[i].tokens)),
             cost |-> IF \A i \in I : es[i].tokens = 0 \/ es[i].cost > 0
                      THEN Total(I, LAMBDA i : es[i].cost) ELSE None]
    BY <1>7, Zenon DEF addDailyModel
  <1> DEFINE cost == Total(I, LAMBDA i : es[i].cost)
             ok == \A i \in I : es[i].tokens = 0 \/ es[i].cost > 0
             n == Sigma(w, I)
  <1>9. Wrapped(Total(I, LAMBDA i : es[i].tokens)) = n
    BY <1>5, <1>6, WrappedFits
  <1> HIDE DEF r, cost, ok, n
  <1>10. r = [date |-> key[1], source |-> key[2], model |-> key[3],
              leg |-> classifyLeg(key[3]), tokens |-> n, cost |-> IF ok THEN cost ELSE None]
    BY <1>8, <1>9, Zenon DEF cost, ok
  <1>11. /\ r.date = key[1] /\ r.source = key[2] /\ r.model = key[3]
         /\ r.leg = classifyLeg(key[3]) /\ r.tokens = n /\ r.cost = IF ok THEN cost ELSE None
    BY <1>10
  <1>12. RowKnown(r)
    <2>1. classifyLeg(key[3]) \in Legs \cup {"unknown"}
      BY <1>2 DEF classifyLeg, ModelNames
    <2> QED
      BY <1>2, <1>5, <1>11, <2>1 DEF RowKnown, n
  <1>13. KeyOf(r) = key
    BY <1>2, <1>11 DEF KeyOf
  <1>14. ASSUME r.cost # None, NEW x \in ToSet(es), KeyOf(x) = key
         PROVE  x.tokens = 0 \/ x.cost > 0
    <2>1. ok
      BY <1>11, <1>14
    <2>2. PICK i \in DOMAIN es : es[i] = x
      BY DEF ToSet
    <2>3. i \in I
      BY <1>14, <2>2 DEF Mine
    <2> HIDE DEF I
    <2> QED
      BY <2>1, <2>2, <2>3 DEF ok
  <1> QED
    BY <1>11, <1>12, <1>13, <1>14 DEF r, n

RowsOf(es) == {addDailyModel(es, key) : key \in KeysOf(es)}

\* The rows have the tokens of all entries, and each entry has its row.
LEMMA RowsSpend ==
    ASSUME NEW es \in Seq(Entry), Spent(es) <= MaxUint, NEW v, \A r \in RowsOf(es) : v[r] = r.tokens
    PROVE  /\ IsFiniteSet(RowsOf(es)) /\ \A r \in RowsOf(es) : RowKnown(r)
           /\ Sigma(v, RowsOf(es)) = Spent(es)
           /\ \A e \in ToSet(es) : \E r \in RowsOf(es) :
                 /\ r.source = e.source /\ r.model = e.model
                 /\ r.cost # None => e.tokens = 0 \/ e.cost > 0
  <1> DEFINE w == TokensOf(es)
             D == DOMAIN es
             K == KeysOf(es)
             k == [i \in D |-> KeyOf(es[i])]
             u == [key \in K |-> Sigma(w, Mine(es, key))]
             h == [key \in K |-> addDailyModel(es, key)]
  <1>1. /\ IsFiniteSet(D) /\ (\A i \in D : w[i] \in Nat) /\ Spent(es) = Sigma(w, D)
    <2>1. \A x \in Entry : x.tokens \in Nat
      BY DEF Entry
    <2>2. w \in Seq(Nat) /\ DOMAIN w = D
      BY <2>1, SpentStep
    <2> HIDE DEF w, D
    <2> QED
      BY <2>2, SeqSigma DEF Spent, w, D
  <1>2. K = {k[i] : i \in D} /\ \A i \in D : k[i] \in K
    BY DEF KeysOf, ToSet
  <1>3. \A key \in K : Mine(es, key) = {i \in D : k[i] = key}
    BY DEF Mine
  <1>4. u = [key \in K |-> Sigma(w, {i \in D : k[i] = key})]
    BY <1>3
  <1>5. IsFiniteSet(K)
    <2> HIDE DEF D, k, K
    <2> QED
      BY <1>1, <1>2, ImageFinite
  <1>6. /\ \A key \in K : Sigma(w, {i \in D : k[i] = key}) \in Nat
        /\ Sigma([key \in K |-> Sigma(w, {i \in D : k[i] = key})], K) = Sigma(w, D)
    <2> HIDE DEF D, k, K, w
    <2> QED
      BY <1>1, <1>2, <1>5, SigmaByKey
  <1>7. Sigma(u, K) = Spent(es) /\ \A key \in K : u[key] \in Nat
    <2> HIDE DEF D, k, K, w
    <2> QED
      BY <1>1, <1>4, <1>6
  <1>8. ASSUME NEW key \in K
        PROVE  /\ h[key] \in RowsOf(es) /\ RowKnown(h[key]) /\ KeyOf(h[key]) = key
               /\ h[key].tokens = u[key]
               /\ h[key].cost # None =>
                    \A e \in ToSet(es) : KeyOf(e) = key => e.tokens = 0 \/ e.cost > 0
    <2> DEFINE r == addDailyModel(es, key)
    <2>1. /\ RowKnown(r) /\ KeyOf(r) = key /\ r.tokens = Sigma(w, Mine(es, key))
          /\ r.cost # None => \A e \in ToSet(es) : KeyOf(e) = key => e.tokens = 0 \/ e.cost > 0
      BY RowIs
    <2>2. h[key] = r /\ u[key] = Sigma(w, Mine(es, key)) /\ r \in RowsOf(es)
      BY DEF RowsOf
    <2> HIDE DEF r, h, u
    <2> QED
      BY <2>1, <2>2
  <1>9. RowsOf(es) = {h[key] : key \in K}
    BY DEF RowsOf
  <1>10. /\ IsFiniteSet(RowsOf(es)) /\ Sigma(v, RowsOf(es)) = Sigma(u, K)
    <2>1. \A key \in K : v[h[key]] = u[key]
      <3> HIDE DEF h, u, K
      <3> QED
        BY <1>8
    <2>2. \A x, y \in K : h[x] = h[y] => x = y
      <3> HIDE DEF h, u, K
      <3> SUFFICES ASSUME NEW x \in K, NEW y \in K, h[x] = h[y] PROVE x = y
        OBVIOUS
      <3>1. KeyOf(h[x]) = x /\ KeyOf(h[y]) = y
        BY <1>8
      <3> QED
        BY <3>1
    <2> HIDE DEF h, u, K
    <2>3. IsFiniteSet(ImageOf(h, K)) /\ Sigma(v, ImageOf(h, K)) = Sigma(u, K)
      BY <1>5, <1>7, <2>1, <2>2, SigmaIndex
    <2> QED
      BY <1>9, <2>3 DEF ImageOf
  <1>11. \A r \in RowsOf(es) : RowKnown(r)
    <2> HIDE DEF h, u, K
    <2> QED
      BY <1>8, <1>9
  <1>12. ASSUME NEW e \in ToSet(es)
         PROVE  \E r \in RowsOf(es) : /\ r.source = e.source /\ r.model = e.model
                                      /\ r.cost # None => e.tokens = 0 \/ e.cost > 0
    <2> DEFINE key == KeyOf(e)
    <2>1. key \in K
      BY DEF KeysOf
    <2>2. h[key].source = e.source /\ h[key].model = e.model
      <3> HIDE DEF h, u, K, key
      <3>1. KeyOf(h[key]) = key
        BY <1>8, <2>1
      <3> QED
        BY <3>1 DEF KeyOf, key
    <2> HIDE DEF h, u, K
    <2>3. h[key] \in RowsOf(es) /\ (h[key].cost # None => e.tokens = 0 \/ e.cost > 0)
      BY <1>8, <2>1
    <2> QED
      BY <2>2, <2>3
  <1> QED
    BY <1>7, <1>10, <1>11, <1>12

-----------------------------------------------------------------------------
(* Sections of the report.                                                  *)

\* The rows that show the same source and model, and the one made of them.
SameAs(R, key) == {r \in R : <<r.source, r.model>> = key}
Added(same, key) ==
    LET tokens == Wrapped(Total(same, LAMBDA r : r.tokens)) IN
    [source |-> key[1], model |-> key[2], tokens |-> tokens,
     cost |-> IF tokens > 0 /\ \A r \in same : r.cost # None
              THEN Total(same, LAMBDA r : r.cost) ELSE None]
Shown(R, id) == aggregateModels(R, id, Since, Until)

\* A section shows what its leg's rows say, source by source and model by model.
LEMMA ShownIs ==
    ASSUME NEW R, \A r \in R : RowKnown(r), NEW id
    PROVE  Shown(R, id) = {Added(SameAs(R, key), key) :
                             key \in {<<r.source, r.model>> : r \in {x \in R : x.leg = id}}}
  <1> DEFINE M == {r \in R : r.leg = id /\ r.date \in Since..Until}
             L == {x \in R : x.leg = id}
             KK == {<<r.source, r.model>> : r \in L}
  <1>1. Shown(R, id) = {Added(SameAs(M, key), key) : key \in {<<r.source, r.model>> : r \in M}}
    BY DEF Shown, aggregateModels, Added, SameAs
  <1>2. M = L
    BY DEF RowKnown
  <1>3. ASSUME NEW key \in KK PROVE SameAs(M, key) = SameAs(R, key)
    <2>1. PICK x \in L : <<x.source, x.model>> = key
      BY <1>3
    <2>2. x \in R /\ x.leg = id
      BY <2>1
    <2>3. \A r \in R : <<r.source, r.model>> = key => r \in L
      <3> SUFFICES ASSUME NEW r \in R, <<r.source, r.model>> = key PROVE r.leg = id
        OBVIOUS
      <3>1. r.model = x.model
        BY <2>1
      <3>2. r.leg = classifyLeg(r.model) /\ x.leg = classifyLeg(x.model)
        BY <2>2 DEF RowKnown
      <3> QED
        BY <2>2, <3>1, <3>2
    <2> QED
      BY <1>2, <2>3 DEF SameAs
  <1>4. Shown(R, id) = {Added(SameAs(M, key), key) : key \in KK}
    BY <1>1, <1>2
  <1> HIDE DEF M, L, KK
  <1>5. Shown(R, id) = {Added(SameAs(R, key), key) : key \in KK}
    BY <1>3, <1>4
  <1> QED
    BY <1>5 DEF KK, L

NamesOf(R) == {<<r.source, r.model>> : r \in R}
AllShown(R) == UNION {Shown(R, id) : id \in Legs \cup {"unknown"}}

\* All sections together show every row.
LEMMA AllShownIs ==
    ASSUME NEW R, \A r \in R : RowKnown(r)
    PROVE  AllShown(R) = {Added(SameAs(R, key), key) : key \in NamesOf(R)}
  <1> DEFINE Part(id) == {<<r.source, r.model>> : r \in {x \in R : x.leg = id}}
             A(key) == Added(SameAs(R, key), key)
  <1>1. \A id : Shown(R, id) = {A(key) : key \in Part(id)}
    BY ShownIs
  <1>2. \A id : Part(id) \subseteq NamesOf(R)
    BY DEF NamesOf
  <1>3. ASSUME NEW key \in NamesOf(R) PROVE \E id \in Legs \cup {"unknown"} : key \in Part(id)
    <2>1. PICK r \in R : key = <<r.source, r.model>>
      BY <1>3 DEF NamesOf
    <2>2. r.leg \in Legs \cup {"unknown"}
      BY DEF RowKnown
    <2>3. key \in Part(r.leg)
      BY <2>1
    <2> QED
      BY <2>2, <2>3
  <1> HIDE DEF A, Part
  <1>4. \A x : x \in AllShown(R) <=> \E id \in Legs \cup {"unknown"} : x \in Shown(R, id)
    BY DEF AllShown
  <1>5. AllShown(R) = {A(key) : key \in NamesOf(R)}
    BY <1>1, <1>2, <1>3, <1>4
  <1> QED
    BY <1>5 DEF A

\* What a row of the report says.
LEMMA AddedIs ==
    ASSUME NEW R, IsFiniteSet(R), \A r \in R : RowKnown(r),
           NEW v, \A r \in R : v[r] = r.tokens, Sigma(v, R) <= MaxUint, NEW key \in NamesOf(R)
    PROVE  LET a == Added(SameAs(R, key), key) IN
           /\ <<a.source, a.model>> = key
           /\ a.tokens = Sigma(v, SameAs(R, key))
           /\ a.cost # None => \A r \in SameAs(R, key) : r.cost # None
  <1> DEFINE same == SameAs(R, key)
             n == Sigma(v, same)
             tokens == Wrapped(Total(same, LAMBDA r : r.tokens))
             cost == Total(same, LAMBDA r : r.cost)
             ok == \A r \in same : r.cost # None
             a == Added(same, key)
  <1>1. same \subseteq R /\ IsFiniteSet(same)
    BY FS_Subset DEF SameAs
  <1>2. \A r \in R : v[r] \in Nat
    BY DEF RowKnown
  <1>3. n \in Nat /\ n <= MaxUint
    <2>1. n \in Nat /\ n <= Sigma(v, R) /\ Sigma(v, R) \in Nat
      <3> HIDE DEF same
      <3> QED
        BY <1>1, <1>2, SigmaPart, SigmaFacts
    <2> HIDE DEF n
    <2> QED
      BY <2>1, UintAssumption
  <1>4. Total(same, LAMBDA r : r.tokens) = n
    <2>1. \A r \in same : v[r] = r.tokens /\ r.tokens \in Nat
      BY <1>1 DEF RowKnown
    <2> HIDE DEF same
    <2> QED
      BY <1>1, <2>1, TotalTokens
  <1>5. tokens = n
    <2> HIDE DEF n, same
    <2> QED
      BY <1>3, <1>4, WrappedFits
  <1>6. a = [source |-> key[1], model |-> key[2], tokens |-> tokens,
             cost |-> IF tokens > 0 /\ ok THEN cost ELSE None]
    BY Zenon DEF Added
  <1> HIDE DEF a, tokens, cost, ok, n
  <1>7. /\ a.source = key[1] /\ a.model = key[2] /\ a.tokens = n
        /\ a.cost = IF n > 0 /\ ok THEN cost ELSE None
    BY <1>5, <1>6
  <1>8. key = <<key[1], key[2]>>
    BY DEF NamesOf
  <1>9. a.cost # None => ok
    BY <1>7
  <1> QED
    BY <1>7, <1>8, <1>9 DEF a, n, ok

\* The report's rows have the tokens of all rows.
LEMMA ShownSpend ==
    ASSUME NEW R, IsFiniteSet(R), \A r \in R : RowKnown(r),
           NEW v, \A r \in R : v[r] = r.tokens, Sigma(v, R) <= MaxUint
    PROVE  Total(AllShown(R), LAMBDA r : r.tokens) = Sigma(v, R)
  <1> DEFINE K == NamesOf(R)
             A == AllShown(R)
             k == [r \in R |-> <<r.source, r.model>>]
             h == [key \in K |-> Added(SameAs(R, key), key)]
             u == [key \in K |-> Sigma(v, {r \in R : k[r] = key})]
             z == [a \in A |-> a.tokens]
  <1>1. \A r \in R : v[r] \in Nat
    BY DEF RowKnown
  <1>2. K = {k[r] : r \in R} /\ \A r \in R : k[r] \in K
    BY DEF NamesOf
  <1>3. IsFiniteSet(K)
    <2> HIDE DEF K, k
    <2> QED
      BY <1>2, ImageFinite
  <1>4. /\ \A key \in K : Sigma(v, {r \in R : k[r] = key}) \in Nat
        /\ Sigma(u, K) = Sigma(v, R)
    <2> HIDE DEF K, k
    <2> QED
      BY <1>1, <1>2, <1>3, SigmaByKey
  <1>5. ASSUME NEW key \in K
        PROVE  /\ h[key] \in A /\ <<h[key].source, h[key].model>> = key
               /\ h[key].tokens = u[key] /\ u[key] \in Nat
    <2> DEFINE a == Added(SameAs(R, key), key)
    <2>1. <<a.source, a.model>> = key /\ a.tokens = Sigma(v, SameAs(R, key))
      BY AddedIs
    <2>2. SameAs(R, key) = {r \in R : k[r] = key}
      BY DEF SameAs
    <2>3. h[key] = a /\ u[key] = Sigma(v, {r \in R : k[r] = key})
      OBVIOUS
    <2>4. a \in A
      BY AllShownIs
    <2>5. u[key] \in Nat
      BY <1>4, <2>3
    <2> HIDE DEF a, h, u, k, A
    <2> QED
      BY <2>1, <2>2, <2>3, <2>4, <2>5
  <1>6. A = {h[key] : key \in K}
    BY AllShownIs
  <1>7. IsFiniteSet(A) /\ (\A a \in A : z[a] \in Nat) /\ Sigma(z, A) = Sigma(u, K)
    <2>1. \A key \in K : z[h[key]] = u[key]
      <3> HIDE DEF h, u, K, A
      <3> QED
        BY <1>5
    <2>2. \A x, y \in K : h[x] = h[y] => x = y
      <3> HIDE DEF h, u, K, A
      <3> QED
        BY <1>5
    <2>3. \A key \in K : u[key] \in Nat
      BY <1>5
    <2> HIDE DEF h, u, K, A, z
    <2>4. IsFiniteSet(ImageOf(h, K)) /\ Sigma(z, ImageOf(h, K)) = Sigma(u, K)
      BY <1>3, <2>1, <2>2, <2>3, SigmaIndex
    <2>5. \A a \in A : z[a] \in Nat
      BY <1>6, <2>1, <2>3
    <2> QED
      BY <1>6, <2>4, <2>5 DEF ImageOf
  <1>8. Total(A, LAMBDA r : r.tokens) = Sigma(z, A)
    <2>1. \A a \in A : z[a] = a.tokens /\ a.tokens \in Nat
      <3>1. \A a \in A : z[a] = a.tokens
        OBVIOUS
      <3> HIDE DEF A, z
      <3> QED
        BY <1>7, <3>1
    <2> HIDE DEF A, z
    <2> QED
      BY <1>7, <2>1, TotalTokens
  <1> QED
    BY <1>4, <1>7, <1>8

-----------------------------------------------------------------------------
(* The accounts.                                                            *)

\* What Collect returns, if it is rows, is what the tool printed and parseDaily took.
HistoryTold ==
    /\ history.daily # {} =>
         /\ history.printed \in DailyDocs
         /\ parseDaily(history.printed, Since, Until) # None
         /\ history.daily = parseDaily(history.printed, Since, Until)
    /\ \A b \in history.blocks : \E doc \in BlockDocs : \E block \in ToSet(doc) :
          b = normalizeBlock(block)

\* Nothing is returned at the start.
LEMMA HistoryToldInit == HistoryInit => HistoryTold
  BY DEF HistoryInit, HistoryTold, NoHistory

\* What Collect joins.
LEMMA HistoryToldJoin ==
    ASSUME Join
    PROVE  HistoryTold'
  <1>1. PICK days \in Printed("daily", DailyDocs), blocks \in Printed("blocks", BlockDocs) :
          history' = [version |-> history.version,
                      issues |-> section("daily", parseDaily(days, Since, Until)).issues
                                   \cup section("blocks", parseBlocks(blocks)).issues,
                      daily |-> section("daily", parseDaily(days, Since, Until)).rows,
                      blocks |-> section("blocks", parseBlocks(blocks)).rows,
                      printed |-> days]
    BY DEF Join, Returns
  <1> DEFINE d == section("daily", parseDaily(days, Since, Until))
             b == section("blocks", parseBlocks(blocks))
  <1>2. /\ history'.daily = d.rows /\ history'.blocks = b.rows /\ history'.printed = days
    <2> HIDE DEF d, b
    <2> QED
      BY <1>1 DEF d, b
  <1>3. d.rows # {} => /\ running["daily"].verdict = "ok"
                       /\ parseDaily(days, Since, Until) # None
                       /\ d.rows = parseDaily(days, Since, Until)
    BY DEF section
  <1>4. b.rows # {} => /\ running["blocks"].verdict = "ok"
                       /\ parseBlocks(blocks) # None
                       /\ b.rows = parseBlocks(blocks)
    BY DEF section
  <1>5. running["daily"].verdict = "ok" => days \in DailyDocs
    BY <1>1 DEF Printed
  <1>6. running["blocks"].verdict = "ok" => blocks \in BlockDocs
    BY <1>1 DEF Printed
  <1>7. parseBlocks(blocks) # None => parseBlocks(blocks) = {normalizeBlock(x) : x \in ToSet(blocks)}
    BY DEF parseBlocks
  <1> HIDE DEF d, b
  <1> QED
    BY <1>2, <1>3, <1>4, <1>5, <1>6, <1>7 DEF HistoryTold

\* Collect returns at three places, and nothing else touches what it returned.
LEMMA HistoryToldStep == HistoryTold /\ [HistoryNext]_historyVars => HistoryTold'
  <1> SUFFICES ASSUME HistoryTold, [HistoryNext]_historyVars PROVE HistoryTold'
    OBVIOUS
  <1>1. CASE UNCHANGED history
    BY <1>1 DEF HistoryTold
  <1>2. CASE Begin
    <2>1. UNCHANGED history \/ (history'.daily = {} /\ history'.blocks = {})
      BY <1>2 DEF Begin, Returns, NoHistory
    <2> QED
      BY <1>1, <2>1 DEF HistoryTold
  <1>3. CASE VersionKnown
    <2>1. \/ history'.daily = {} /\ history'.blocks = {}
          \/ history' = [history EXCEPT !.version = tool["version"].release]
      BY <1>3 DEF VersionKnown, Returns, NoHistory
    <2>2. CASE history' = [history EXCEPT !.version = tool["version"].release]
      <3>1. /\ history'.daily = history.daily /\ history'.blocks = history.blocks
            /\ history'.printed = history.printed
        BY <2>2
      <3> QED
        BY <3>1 DEF HistoryTold
    <2> QED
      BY <2>1, <2>2 DEF HistoryTold
  <1>4. CASE Join
    BY <1>4, HistoryToldJoin
  <1>5. Begin \/ VersionKnown \/ Join \/ UNCHANGED history
    BY DEF HistoryNext, historyVars, HistoryDeadline, Release, Start, SelectDone, SelectCanceled,
           SelectExceeded, AwaitDone, Kept, ToolWrites, ToolForks, ToolExits, HelperExits,
           ToolDies, ToolChanges
  <1> QED
    BY <1>1, <1>2, <1>3, <1>4, <1>5

\* Every entry behind a row that used tokens was priced.
PricedIn(es, source, model) ==
    \A e \in ToSet(es) : (e.source = source /\ e.model = model /\ e.tokens > 0) => e.cost > 0

\* Whatever section shows it: a row with a cost has none unpriced behind it.
LEMMA CostMeansPriced ==
    ASSUME NEW es \in Seq(Entry), Spent(es) <= MaxUint, NEW a \in AllShown(RowsOf(es)), a.cost # None
    PROVE  PricedIn(es, a.source, a.model)
  <1> DEFINE R == RowsOf(es)
             v == [r \in R |-> r.tokens]
  <1>1. \A r \in R : v[r] = r.tokens
    OBVIOUS
  <1> HIDE DEF v
  <1>2. /\ IsFiniteSet(R) /\ \A r \in R : RowKnown(r)
        /\ Sigma(v, R) = Spent(es)
        /\ \A e \in ToSet(es) : \E r \in R :
              /\ r.source = e.source /\ r.model = e.model
              /\ r.cost # None => e.tokens = 0 \/ e.cost > 0
    BY <1>1, RowsSpend
  <1> HIDE DEF R
  <1>3. PICK key \in NamesOf(R) : a = Added(SameAs(R, key), key)
    <2>1. a \in AllShown(R)
      BY DEF R
    <2> QED
      BY <1>2, <2>1, AllShownIs
  <1>4. Sigma(v, R) <= MaxUint
    BY <1>2
  <1>5. <<a.source, a.model>> = key /\ \A r \in SameAs(R, key) : r.cost # None
    BY <1>1, <1>2, <1>3, <1>4, AddedIs
  <1>6. ASSUME NEW e \in ToSet(es), e.source = a.source, e.model = a.model, e.tokens > 0
        PROVE  e.cost > 0
    <2>1. PICK r \in R : /\ r.source = e.source /\ r.model = e.model
                         /\ r.cost # None => e.tokens = 0 \/ e.cost > 0
      BY <1>2
    <2>2. r \in SameAs(R, key)
      BY <1>5, <1>6, <2>1 DEF SameAs
    <2>3. e.tokens = 0 \/ e.cost > 0
      BY <1>5, <2>1, <2>2
    <2>4. e.tokens \in Nat
      <3>1. e \in Entry
        BY DEF ToSet
      <3> QED
        BY <3>1 DEF Entry
    <2> QED
      BY <1>6, <2>3, <2>4
  <1> QED
    BY <1>6 DEF PricedIn

\* A model that has an estimate has a cost in each of its rows.
LEMMA EstimateMeansCost ==
    ASSUME NEW rows, NEW r \in rows, NEW e \in estimateDeepSeek(Balance, rows),
           e.model = r.model, e.left # None
    PROVE  r.cost # None
  <1> DEFINE Of(model) == {y \in rows : y.model = model}
             Cost(model) == Total(Of(model), LAMBDA y : y.cost)
             Rated(model) == (\A y \in Of(model) : y.cost # None) /\ Cost(model) > 0
             Left(model) == <<Balance.amount * Total(Of(model), LAMBDA y : y.tokens), Cost(model)>>
             Estimate(model) == [model |-> model,
                             left |-> IF Balance.currency = "USD" /\ Rated(model)
                                      THEN Left(model) ELSE None]
  <1>1. Balance.available
    BY DEF Balance
  <1>2. estimateDeepSeek(Balance, rows) = {Estimate(model) : model \in {y.model : y \in rows}}
    BY <1>1, Zenon DEF estimateDeepSeek
  <1> HIDE DEF Left, Rated
  <1>3. PICK model : e = Estimate(model)
    BY <1>2
  <1>4. e.model = model /\ e.left = IF Balance.currency = "USD" /\ Rated(model)
                                    THEN Left(model) ELSE None
    BY <1>3
  <1>5. Rated(model)
    BY <1>4
  <1>6. r \in Of(model)
    BY <1>4
  <1> HIDE DEF Of
  <1> QED
    BY <1>5, <1>6 DEF Rated

\* A block that two sections show is one of several legs.
LEMMA BlockMixed ==
    ASSUME NEW block, IsFiniteSet(block.models), NEW blocks, normalizeBlock(block) \in blocks,
           Cardinality({id \in Legs : normalizeBlock(block) \in filterBlocks(blocks, id)}) > 1
    PROVE  normalizeBlock(block).mixed
  <1> DEFINE b == normalizeBlock(block)
             leg == [m \in block.models |-> classifyLeg(m)]
             I == {id \in Legs : b \in filterBlocks(blocks, id)}
             J == {classifyLeg(m) : m \in block.models}
  <1>1. J = {leg[m] : m \in block.models}
    OBVIOUS
  <1>2. IsFiniteSet(J)
    <2> HIDE DEF leg, J
    <2> QED
      BY <1>1, ImageFinite
  <1>3. /\ b.models = {[model |-> m, leg |-> classifyLeg(m)] : m \in block.models}
        /\ b.mixed = (Cardinality(J) > 1)
    BY DEF normalizeBlock
  <1>4. I \subseteq J
    <2> SUFFICES ASSUME NEW id \in Legs, b \in filterBlocks(blocks, id) PROVE id \in J
      OBVIOUS
    <2>1. PICK x \in b.models : x.leg = id
      BY DEF filterBlocks
    <2> QED
      BY <1>3, <2>1
  <1> HIDE DEF J, b, leg
  <1>5. Cardinality(I) <= Cardinality(J) /\ Cardinality(J) \in Nat /\ Cardinality(I) \in Nat
    <2> HIDE DEF I
    <2> QED
      BY <1>2, <1>4, FS_Subset, FS_CardinalityType
  <1>6. Cardinality(I) > 1
    BY DEF b
  <1> HIDE DEF I
  <1>7. Cardinality(J) > 1
    BY <1>5, <1>6
  <1> QED
    BY <1>3, <1>7 DEF b

\* What was printed is accounted for.
LEMMA HistoryToldAccounts == HistoryTold => HistoryAccounts
  <1> SUFFICES ASSUME HistoryTold, history.daily # {} PROVE HistoryAccounts
    BY DEF HistoryAccounts
  <1> DEFINE doc == history.printed
             es == Entries(doc)
             R == history.daily
             v == [r \in R |-> r.tokens]
  <1>1. doc \in rawDailyReport /\ parseDaily(doc, Since, Until) # None
        /\ R = parseDaily(doc, Since, Until)
    BY DocsAssumption DEF HistoryTold
  <1>2. /\ es \in Seq(Entry) /\ Spent(es) = doc.total /\ doc.total <= MaxUint
        /\ R = {addDailyModel(es, key) :
                  key \in {<<e.date, e.source, e.model>> : e \in ToSet(es)}}
    <2> HIDE DEF doc, R
    <2> QED
      BY <1>1, DocSpent
  <1>3. R = RowsOf(es)
    BY <1>2, Zenon DEF RowsOf, KeysOf, KeyOf
  <1>4. \A r \in R : v[r] = r.tokens
    OBVIOUS
  <1>5. Spent(es) <= MaxUint
    BY <1>2
  <1> HIDE DEF es, R, v, doc
  <1>6. IsFiniteSet(R) /\ (\A r \in R : RowKnown(r)) /\ Sigma(v, R) = Spent(es)
    BY <1>2, <1>3, <1>4, <1>5, RowsSpend
  <1>7. Total(AllShown(R), LAMBDA r : r.tokens) = doc.total
    <2>1. Sigma(v, R) <= MaxUint
      BY <1>5, <1>6
    <2>2. Total(AllShown(R), LAMBDA r : r.tokens) = Sigma(v, R)
      BY <1>4, <1>6, <2>1, ShownSpend
    <2> QED
      BY <1>2, <1>6, <2>2
  <1>8. \A r \in AllShown(R) : r.cost # None => PricedIn(es, r.source, r.model)
    BY <1>2, <1>3, <1>5, CostMeansPriced
  <1>9. \A r \in Shown(R, "deepseek"), e \in estimateDeepSeek(Balance, Shown(R, "deepseek")) :
           (e.model = r.model /\ e.left # None) => PricedIn(es, r.source, r.model)
    <2> SUFFICES ASSUME NEW r \in Shown(R, "deepseek"),
                        NEW e \in estimateDeepSeek(Balance, Shown(R, "deepseek")),
                        e.model = r.model, e.left # None
                 PROVE  PricedIn(es, r.source, r.model)
      OBVIOUS
    <2>1. r.cost # None
      BY EstimateMeansCost
    <2>2. r \in AllShown(R)
      BY DEF AllShown, Legs
    <2> QED
      BY <1>8, <2>1, <2>2
  <1>10. \A b \in history.blocks :
           Cardinality({id \in Legs : b \in filterBlocks(history.blocks, id)}) > 1 => b.mixed
    <2> SUFFICES ASSUME NEW b \in history.blocks,
                        Cardinality({id \in Legs : b \in filterBlocks(history.blocks, id)}) > 1
                 PROVE  b.mixed
      OBVIOUS
    <2>1. PICK block : IsFiniteSet(block.models) /\ b = normalizeBlock(block)
      BY DocsAssumption DEF HistoryTold
    <2> QED
      BY <2>1, BlockMixed
  <1>11. HistoryAccounts <=>
           (collecting = "returned" =>
              /\ Total(AllShown(R), LAMBDA r : r.tokens) = doc.total
              /\ \A r \in AllShown(R) : r.cost # None => PricedIn(es, r.source, r.model)
              /\ \A r \in Shown(R, "deepseek"),
                    e \in estimateDeepSeek(Balance, Shown(R, "deepseek")) :
                   (e.model = r.model /\ e.left # None) => PricedIn(es, r.source, r.model)
              /\ \A b \in history.blocks :
                   Cardinality({id \in Legs : b \in filterBlocks(history.blocks, id)}) > 1
                     => b.mixed)
    BY Zenon DEF HistoryAccounts, AllShown, Shown, PricedIn, R, es, doc
  <1> QED
    BY <1>7, <1>8, <1>9, <1>10, <1>11

\* The report accounts for all that the tool printed: aggregateModels loses and doubles
\* no token of what parseDaily accepted, states no cost or estimate where an entry went
\* unpriced, and a block of several legs says so, for every document and every width.
THEOREM HistoryAccountsAlways == HistoryInit /\ [][HistoryNext]_historyVars => []HistoryAccounts
  <1>1. HistoryInit => HistoryTold
    BY HistoryToldInit
  <1>2. HistoryTold /\ [HistoryNext]_historyVars => HistoryTold'
    BY HistoryToldStep
  <1>3. HistoryTold => HistoryAccounts
    BY HistoryToldAccounts
  <1> QED
    BY <1>1, <1>2, <1>3, PTL
=============================================================================
