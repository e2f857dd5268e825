---------------------------- MODULE ExchangeProof ----------------------------
(***************************************************************************)
(* What a caller gets is honest, for any number of pieces and calls: the    *)
(* four invariants of Exchange as theorems.                                *)
(*                                                                         *)
(* None of them is inductive.  ExchangeInv adds, place by place of the     *)
(* handler: who may be there and who is still at work (Places), that a     *)
(* Read on HTTP/1 holds the body's mutex (Mutex), what has been written    *)
(* where, above all that an error still to be rendered means an untouched  *)
(* response (Commits), that a relayed body and the pieces in flight and in *)
(* hand add up to what was sent (Accounts), and that nil from a leg is     *)
(* returned over an honest body only (Truth).                              *)
(***************************************************************************)
EXTENDS Exchange, IdleDrain, FiniteSetTheorems, TLAPS

\* The handler before an answer is taken on, in the relays' copy loop, and from
\* the start of Translator.Run to its return.
Early == {"front", "leg", "roundtrip", "do", "retry"}
Copying == {"copy", "rearm", "write"}
Running == {"run", "handle", "close", "closing", "join", "ran"}
Settled == {"none", "ended", "quit"}

\* Statuses a failure is rendered with; pieces an upstream and a sink deliver.
Failures == {"400", "401", "404", "413", "429", "499", "500", "502", "503", "504"}
Frames == {"none", "bytes", "start", "delta", "stop", "error", "junk"}
SinkOps == {"MessageStart", "BlockStart", "BlockDelta", "BlockStop", "Ping",
            "MessageDelta", "MessageStop", "Error"}
Relayed == Frames \cup SinkOps
Statuses == Failures \cup {"none", "200", "upstream"}
Pieces == Relayed \cup {"envelope", "message"}
Causes == {"none", "eof", "broken"}
Returns == {"nil", "502", "504", "write", "ctx"}

Responses == [status : Statuses, body : Seq(Pieces), end : {"open", "cut", "clean"}]
Errors == [tags : SUBSET {"api", "started", "gone"}, status : Failures \cup {"none"}]
Upstreams == [state : {"closed", "open", "eof", "broken"}, inbox : Seq(Frames), sent : Nat]
Guards == [armed : BOOLEAN, tripped : BOOLEAN, cancelled : BOOLEAN]
Gots == [chunk : Frames, saw : SUBSET (Frames \cup {"verbatim"})]
Bodies == [mu : {"free", "reader"}, closed : BOOLEAN, cancelled : BOOLEAN]
Runs == [ending : Causes \cup {"no", "idle"}, cause : Causes, ret : Returns, calls : Nat,
         seeded : BOOLEAN, panicked : BOOLEAN]

Typed ==
    /\ client \in {"here", "gone"}
    /\ resp \in Responses
    /\ err \in Errors
    /\ up \in Upstreams
    /\ guard \in Guards
    /\ got \in Gots
    /\ body \in Bodies
    /\ run \in Runs

\* Who serves which route, and who is still at work.
Places ==
    /\ pc \in Copying => route \in Relays \cup DeepSeek
    /\ pc \in Running \cup {"roundtrip", "retry"} => route \in Codex
    /\ reader # "none" => route \in Codex /\ pc \notin Early
    /\ pc \in {"ran", "ret", "served", "aborting", "over"} /\ ~run.panicked
          => reader \in Settled
    /\ pc = "unwinding" => run.panicked
    /\ guard.armed => /\ route \in Relays \cup DeepSeek
                      /\ pc \in {"do", "ret"} \cup Copying

\* The mutex of an HTTP/1 body is held by whoever is in its Read.
Mutex ==
    /\ Http1 /\ reader \in {"locked", "reading"} => body.mu = "reader"
    /\ BodyClosedAlone

\* Nothing was written.
Untouched == resp.status = "none" /\ resp.body = <<>>

\* What has been written where.
Commits ==
    /\ pc \in Early => Untouched
    /\ pc \in Copying => IF route = "deepseek_json" /\ ~Verbatim
                         THEN Untouched ELSE resp.status # "none"
    /\ pc \in Running /\ route = "codex_json" => Untouched
    /\ resp.status = "none" => resp.body = <<>>
    /\ pc \notin {"ret", "served", "aborting", "over"} => resp.body \in Seq(Relayed)
    /\ pc = "ret" /\ err.tags = {"api"} => Untouched /\ err.status \in Failures
    /\ EnvelopeAlone

\* The piece the copy loop has read and not yet written.
InHand == IF pc \in {"rearm", "write"} THEN 1 ELSE 0

\* What was written of what came.
Accounts ==
    /\ up.state = "closed" => up.inbox = <<>> /\ up.sent = 0
    /\ pc \in Early => up.state = "closed" /\ got.saw = {}
    /\ pc \in Copying /\ Verbatim => Len(resp.body) + Len(up.inbox) + InHand = up.sent
    /\ pc \in Copying /\ route = "deepseek_stream"
          => \A c \in got.saw \ {"verbatim"} : Holds(c)
    /\ pc \in {"close", "closing", "join", "ran"} /\ route = "codex_stream"
          => run.ret # "nil" \/ Holds("MessageStop") \/ Holds("Error")

\* The four ways a response may tell the truth.
Honest ==
    \/ resp.body \in {<<"envelope">>, <<"message">>}
    \/ Verbatim /\ RelayedWhole
    \/ /\ route = "deepseek_stream"
       /\ Holds("error") \/ (Holds("start") /\ Holds("stop"))
    \/ route = "codex_stream" /\ (Holds("MessageStop") \/ Holds("Error"))

Truth ==
    /\ pc # "over" => resp.end = "open"
    /\ pc = "ret" => \/ err = NoErr
                     \/ err.tags = {"api"} \/ "started" \in err.tags
                     \/ err.tags = {"gone"} /\ Gone
    /\ client = "here" /\ ~run.panicked =>
         \/ Honest
         \/ pc \notin {"ret", "served", "over"}
         \/ pc = "ret" /\ err # NoErr
         \/ resp.end = "cut"

ExchangeInv == Typed /\ Places /\ Mutex /\ Commits /\ Accounts /\ Truth

-----------------------------------------------------------------------------
(* What the operations leave of the records they update.                   *)

\* Any update the code makes to the guard, the body, the run and what forward's
\* loop holds keeps its type.
LEMMA GuardUpdates ==
    \A g \in Guards : /\ \A b \in BOOLEAN : [g EXCEPT !.armed = b] \in Guards
                      /\ [g EXCEPT !.armed = FALSE, !.tripped = TRUE] \in Guards
                      /\ [g EXCEPT !.cancelled = TRUE] \in Guards
  BY Zenon DEF Guards

LEMMA BodyUpdates ==
    \A b \in Bodies : /\ \A m \in {"free", "reader"} : [b EXCEPT !.mu = m] \in Bodies
                      /\ \A c \in BOOLEAN : [b EXCEPT !.closed = c] \in Bodies
                      /\ \A c \in BOOLEAN : [b EXCEPT !.cancelled = c] \in Bodies
  BY Zenon DEF Bodies

LEMMA RunUpdates ==
    \A r \in Runs : /\ \A c \in Causes : [r EXCEPT !.cause = c] \in Runs
                    /\ \A c \in Causes \cup {"no", "idle"} : [r EXCEPT !.ending = c] \in Runs
                    /\ \A c \in Returns : [r EXCEPT !.ret = c] \in Runs
                    /\ \A n \in Nat : [r EXCEPT !.calls = n] \in Runs
                    /\ [r EXCEPT !.seeded = TRUE] \in Runs
                    /\ [r EXCEPT !.panicked = TRUE] \in Runs
  BY Zenon DEF Runs

LEMMA GotUpdates ==
    \A g \in Gots : /\ \A c \in Frames : [g EXCEPT !.chunk = c] \in Gots
                    /\ \A c \in Frames \cup {"verbatim"} : [g EXCEPT !.saw = @ \cup {c}] \in Gots
  BY DEF Gots

\* The upstream's body opens, ends, gives up a piece or gains one.
LEMMA UpUpdates ==
    ASSUME NEW u \in Upstreams
    PROVE  /\ \A s \in {"open", "eof", "broken"} : [u EXCEPT !.state = s] \in Upstreams
           /\ u.inbox # <<>> => [u EXCEPT !.inbox = Tail(@)] \in Upstreams
           /\ \A c \in Frames : [u EXCEPT !.inbox = <<c>>, !.sent = @ + 1] \in Upstreams
  <1>1. u.inbox \in Seq(Frames) /\ u.sent \in Nat
    BY DEF Upstreams
  <1>2. u.inbox # <<>> => Tail(u.inbox) \in Seq(Frames)
    BY <1>1
  <1>3. u.sent + 1 \in Nat
    BY <1>1
  <1>4. \A c \in Frames : <<c>> \in Seq(Frames)
    OBVIOUS
  <1>5. \A s \in {"open", "eof", "broken"} : [u EXCEPT !.state = s] \in Upstreams
    BY DEF Upstreams
  <1>6. u.inbox # <<>> => [u EXCEPT !.inbox = Tail(@)] \in Upstreams
    BY <1>2 DEF Upstreams
  <1>7. \A c \in Frames : [u EXCEPT !.inbox = <<c>>, !.sent = @ + 1] \in Upstreams
    BY <1>3, <1>4 DEF Upstreams
  <1> QED
    BY <1>5, <1>6, <1>7

\* A response takes a status, a piece, both, or an end.
LEMMA RespUpdates ==
    ASSUME NEW r \in Responses
    PROVE  /\ \A s \in Statuses : [r EXCEPT !.status = s] \in Responses
           /\ \A e \in {"open", "cut", "clean"} : [r EXCEPT !.end = e] \in Responses
           /\ \A p \in Pieces : [r EXCEPT !.body = Append(@, p)] \in Responses
           /\ \A s \in Statuses, p \in Pieces :
                 [r EXCEPT !.status = s, !.body = Append(@, p)] \in Responses
  <1>1. r.body \in Seq(Pieces) /\ \A p \in Pieces : Append(r.body, p) \in Seq(Pieces)
    BY DEF Responses
  <1>2. \A s \in Statuses : [r EXCEPT !.status = s] \in Responses
    BY DEF Responses
  <1>3. \A e \in {"open", "cut", "clean"} : [r EXCEPT !.end = e] \in Responses
    BY DEF Responses
  <1>4. \A p \in Pieces : [r EXCEPT !.body = Append(@, p)] \in Responses
    BY <1>1 DEF Responses
  <1>5. \A s \in Statuses, p \in Pieces :
           [r EXCEPT !.status = s, !.body = Append(@, p)] \in Responses
    BY <1>1 DEF Responses
  <1> QED
    BY <1>2, <1>3, <1>4, <1>5

\* Every class of failure has a status, and it is a failure's.
LEMMA StatusOfFailure ==
    \A class \in Classes \cup {"network", "canceled", "timeout"} : StatusOf(class) \in Failures
  BY Zenon DEF StatusOf, Classes, Failures

\* What the upstream sends is never mistaken for what this program writes.
LEMMA ChunksAreFrames == Chunks \subseteq Frames
  BY Zenon DEF Chunks, Frames

\* An envelope on an untouched response is all there is in it.
LEMMA EnvelopeFacts ==
    ASSUME Typed, Untouched, NEW s \in Failures, Envelope(s)
    PROVE  /\ resp' \in Responses /\ resp'.status = s /\ resp'.body = <<"envelope">>
           /\ resp'.end = resp.end
  <1>1. resp' = [resp EXCEPT !.status = s, !.body = Append(@, "envelope")]
    BY DEF Envelope, Untouched
  <1>2. resp' \in Responses
    BY <1>1, RespUpdates DEF Typed, Statuses, Pieces
  <1>3. Append(resp.body, "envelope") = <<"envelope">>
    BY DEF Untouched
  <1> QED
    BY <1>1, <1>2, <1>3 DEF Typed, Responses

\* So is a whole message.
LEMMA WholeFacts ==
    ASSUME Typed, Untouched, Whole("200")
    PROVE  /\ resp' \in Responses /\ resp'.status = "200" /\ resp'.body = <<"message">>
           /\ resp'.end = resp.end
  <1>1. resp' \in Responses
    BY RespUpdates DEF Whole, Typed, Statuses, Pieces
  <1>2. Append(resp.body, "message") = <<"message">>
    BY DEF Untouched
  <1> QED
    BY <1>1, <1>2 DEF Whole, Typed, Responses

\* What a sink call does to the response.
LEMMA DeliverFacts ==
    ASSUME Typed, Deliver, call'.op \in SinkOps
    PROVE  /\ resp' \in Responses /\ resp'.end = resp.end
           /\ route # "codex_stream" => resp' = resp
           /\ route = "codex_stream" => /\ resp'.status = "200"
                                        /\ resp'.body = Append(resp.body, call'.op)
  <1>1. CASE route = "codex_stream"
    <2>1. resp' = [resp EXCEPT !.status = "200", !.body = Append(@, call'.op)]
      BY <1>1 DEF Deliver
    <2>2. PICK op \in SinkOps : op = call'.op
      OBVIOUS
    <2>3. resp' \in Responses
      BY <2>1, <2>2, RespUpdates DEF Typed, Statuses, Pieces, Relayed
    <2> QED
      BY <1>1, <2>1, <2>3 DEF Typed, Responses
  <1>2. CASE route # "codex_stream"
    BY <1>2 DEF Deliver, Typed
  <1> QED
    BY <1>1, <1>2

\* The sink calls Run makes, by name.
LEMMA CallsAreOps ==
    ASSUME Sink!MessageStart \/ Sink!BlockStart \/ Sink!BlockDelta \/ Sink!BlockStop
              \/ Sink!Ping \/ Sink!MessageDelta \/ Sink!MessageStop \/ Sink!Error
    PROVE  call'.op \in SinkOps
  BY DEF Sink!MessageStart, Sink!BlockStart, Sink!BlockDelta, Sink!BlockStop, Sink!Ping,
     Sink!MessageDelta, Sink!MessageStop, Sink!Error, Sink!Said, SinkOps

-----------------------------------------------------------------------------
(* Who writes what.                                                        *)

\* Nobody else writes a variable: an action not named leaves it alone.
LEMMA Writers ==
    ASSUME Next
    PROVE  /\ UNCHANGED <<route, proto>>
           /\ HangUp \/ UNCHANGED client
           /\ \/ RelayDo \/ Rearm \/ Returned \/ Fail \/ IdleTrips \/ IdleCancels \/ Panic
              \/ UNCHANGED guard
           /\ RelayAnswered \/ CopyRead \/ CopyWrite \/ UNCHANGED got
           /\ \/ RelayAnswered \/ CopyRead \/ CodexOpened \/ ReadFrame \/ UpSends \/ UpEnds
              \/ UNCHANGED up
           /\ \/ CloseCancel \/ CloseBody \/ Panic \/ Recover \/ ReadLock \/ ReadStart
              \/ ReadFrame \/ ReadEnds \/ ReadReset \/ UNCHANGED body
           /\ \/ CodexOpened \/ RunFrame \/ ReadLock \/ ReadStart \/ ReadFrame \/ ReadEnds
              \/ ReadReset \/ ReadQuits \/ UNCHANGED reader
           /\ \/ Emit \/ HandleFails \/ EmitFails \/ Heartbeat \/ RunEnds \/ RunIdle
              \/ RunInterrupted \/ Panic \/ SeedCounted \/ ReadStart \/ ReadEnds \/ ReadReset
              \/ UNCHANGED run
           /\ \/ LegRefuses \/ CountTokens \/ RelayDoFails \/ RelayAnswered \/ CopyWriteFails
              \/ CopyEnds \/ StreamEnds \/ JsonEnds \/ CopyFails \/ CodexRefused
              \/ CodexRejected \/ CodexUnreached \/ StreamServed \/ AggregateServed
              \/ UNCHANGED err
           /\ \/ Refuse \/ Unroutable \/ CountTokens \/ RelayAnswered \/ CopyWrite \/ JsonEnds
              \/ CodexRefused \/ CodexRejected \/ CodexUnreached \/ Emit \/ EmitClose
              \/ Terminus \/ Heartbeat \/ EmitFails \/ StreamServed \/ AggregateServed
              \/ Fail \/ Recover \/ Observe \/ UNCHANGED resp
  <1> USE DEF vars, sinkVars, codexVars, relayVars, runOnly
  <1>1. CASE Handler
    <2> USE <1>1 DEF Handler, Refuse, Unroutable, Dispatch, LegRefuses, CountTokens, RelayDo,
         RelayDoFails, RelayAnswered, CopyRead, Rearm, CopyWrite, CopyWriteFails, CopyEnds,
         StreamEnds, JsonEnds, CopyFails, LogTransport, RoundTrip, CodexRefused,
         CodexRejected, CodexUnreached, CodexOpened, RunFrame, Emit, EmitClose, Terminus,
         Handled, HandleFails, EmitFails, Heartbeat, RunEnds, RunIdle, RunInterrupted,
         CloseCancel, CloseBody, Join, StreamServed, AggregateServed, Returned, Fail,
         Recover, Observe
    <2>1. UNCHANGED <<route, proto, client>>
      OBVIOUS
    <2>2. RelayDo \/ Rearm \/ Returned \/ Fail \/ UNCHANGED guard
      OBVIOUS
    <2>3. RelayAnswered \/ CopyRead \/ CopyWrite \/ UNCHANGED got
      OBVIOUS
    <2>4. RelayAnswered \/ CopyRead \/ CodexOpened \/ UNCHANGED up
      OBVIOUS
    <2>5. CloseCancel \/ CloseBody \/ Recover \/ UNCHANGED body
      OBVIOUS
    <2>6. CodexOpened \/ RunFrame \/ UNCHANGED reader
      OBVIOUS
    <2>7. \/ Emit \/ HandleFails \/ EmitFails \/ Heartbeat \/ RunEnds \/ RunIdle
             \/ RunInterrupted \/ UNCHANGED run
      OBVIOUS
    <2>8. \/ LegRefuses \/ CountTokens \/ RelayDoFails \/ RelayAnswered \/ CopyWriteFails
             \/ CopyEnds \/ StreamEnds \/ JsonEnds \/ CopyFails \/ CodexRefused
             \/ CodexRejected \/ CodexUnreached \/ StreamServed \/ AggregateServed
             \/ UNCHANGED err
      OBVIOUS
    <2>9. \/ Refuse \/ Unroutable \/ CountTokens \/ RelayAnswered \/ CopyWrite \/ JsonEnds
             \/ CodexRefused \/ CodexRejected \/ CodexUnreached \/ Emit \/ EmitClose
             \/ Terminus \/ Heartbeat \/ EmitFails \/ StreamServed \/ AggregateServed
             \/ Fail \/ Recover \/ Observe \/ UNCHANGED resp
      OBVIOUS
    <2> HIDE DEF Handler, Refuse, Unroutable, Dispatch, LegRefuses, CountTokens, RelayDo,
         RelayDoFails, RelayAnswered, CopyRead, Rearm, CopyWrite, CopyWriteFails, CopyEnds,
         StreamEnds, JsonEnds, CopyFails, LogTransport, RoundTrip, CodexRefused,
         CodexRejected, CodexUnreached, CodexOpened, RunFrame, Emit, EmitClose, Terminus,
         Handled, HandleFails, EmitFails, Heartbeat, RunEnds, RunIdle, RunInterrupted,
         CloseCancel, CloseBody, Join, StreamServed, AggregateServed, Returned, Fail,
         Recover, Observe
    <2> QED
      BY <2>1, <2>2, <2>3, <2>4, <2>5, <2>6, <2>7, <2>8, <2>9
  <1>2. CASE Reader
    BY <1>2 DEF Reader, ReadLock, ReadStart, ReadFrame, ReadEnds, ReadQuits
  <1>3. CASE IdleTrips \/ IdleCancels \/ SeedCounted \/ Environment \/ Over
    BY <1>3 DEF Environment, IdleTrips, IdleCancels, SeedCounted, OtherGate, HangUp, UpSends,
       UpEnds, Panic, ReadReset, Over
  <1> QED
    BY <1>1, <1>2, <1>3 DEF Next

\* The failures a leg may return are what dispatcher.fail tells apart.
LEMMA ErrorsTyped ==
    /\ NoErr \in Errors /\ \A s \in Failures : Api(s) \in Errors
    /\ \A t \in SUBSET {"started", "gone"} : Tagged(t) \in Errors
  BY DEF NoErr, Api, Tagged, Errors

LEMMA UpstreamErrorIsFailure ==
    \A t : \E s \in Failures : UpstreamError(t) = Api(s)
  BY DEF UpstreamError, Failures

\* Render on an untouched response: nothing for a caller that left, otherwise
\* the envelope, with nil returned.
LEMMA RenderFacts ==
    ASSUME Typed, Untouched, NEW s \in Failures, Render(s)
    PROVE  /\ resp' \in Responses /\ resp'.end = resp.end /\ pc' = "ret"
           /\ \/ Gone /\ resp' = resp /\ err' = Tagged({"gone"})
              \/ /\ err' = NoErr /\ resp'.body = <<"envelope">>
                 /\ resp'.status = s
  <1>1. CASE Gone
    BY <1>1 DEF Render, Return, Typed
  <1>2. CASE ~Gone
    BY <1>2, EnvelopeFacts DEF Render, Return
  <1> QED
    BY <1>1, <1>2

\* The response stays a response.
LEMMA RespTyped == ASSUME ExchangeInv, Next PROVE resp' \in Responses
  <1> USE DEF ExchangeInv
  <1>0. Typed /\ resp \in Responses
    BY DEF Typed
  <1>1. CASE Refuse \/ Unroutable
    <2>1. Untouched
      BY <1>1 DEF Refuse, Unroutable, Commits, Early
    <2>2. PICK s \in Failures : Envelope(s)
      BY <1>1 DEF Refuse, Unroutable, Failures
    <2> QED
      BY <2>1, <2>2, EnvelopeFacts
  <1>2. CASE CountTokens
    BY <1>2, WholeFacts DEF CountTokens, Commits, Early
  <1>3. CASE RelayAnswered
    <2>1. \/ resp' = resp \/ \E s \in {"200", "upstream"} : resp' = [resp EXCEPT !.status = s]
      BY <1>3 DEF RelayAnswered
    <2> QED
      BY <1>0, <2>1, RespUpdates DEF Statuses
  <1>4. CASE CopyWrite
    <2>1. \/ resp' = resp
          \/ resp' = [resp EXCEPT !.body = Append(@, got.chunk)]
      BY <1>4 DEF CopyWrite
    <2>2. got.chunk \in Pieces
      BY DEF Typed, Gots, Pieces, Relayed
    <2> QED
      BY <1>0, <2>1, <2>2, RespUpdates
  <1>5. CASE JsonEnds
    <2>1. Untouched
      BY <1>5 DEF JsonEnds, AtEnd, Commits, Copying
    <2> QED
      BY <1>0, <1>5, <2>1, WholeFacts DEF JsonEnds
  <1>6. CASE CodexRefused \/ CodexRejected \/ CodexUnreached
    <2>1. Untouched
      BY <1>6 DEF CodexRefused, CodexRejected, CodexUnreached, Commits, Early
    <2>2. resp' = resp \/ \E s \in Failures : Render(s)
      <3>1. CASE CodexRefused
        BY <3>1, StatusOfFailure DEF CodexRefused
      <3>2. CASE CodexRejected
        BY <3>2 DEF CodexRejected, Failures
      <3>3. CASE CodexUnreached
        <4>1. PICK class \in {"network", "gate", HeaderDeadline} : Render(StatusOf(class))
          BY <3>3 DEF CodexUnreached
        <4>2. class \in Classes \cup {"network", "canceled", "timeout"}
          BY DEF Classes, HeaderDeadline
        <4> QED
          BY <4>1, <4>2, StatusOfFailure
      <3> QED
        BY <1>6, <3>1, <3>2, <3>3
    <2> QED
      BY <1>0, <2>1, <2>2, RenderFacts
  <1>7. CASE Emit \/ EmitClose \/ Terminus \/ Heartbeat
    <2>1. Deliver
      BY <1>7 DEF Emit, EmitClose, Terminus, Heartbeat
    <2>2. call'.op \in SinkOps
      BY <1>7, CallsAreOps DEF Emit, EmitClose, Terminus, Heartbeat
    <2> QED
      BY <1>0, <2>1, <2>2, DeliverFacts
  <1>8. CASE EmitFails
    BY <1>0, <1>8, RespUpdates DEF EmitFails, Statuses
  <1>9. CASE StreamServed
    <2>1. resp' = resp \/ (~Wrote /\ Render(classifyStreamFailure))
      BY <1>9 DEF StreamServed
    <2>2. ~Wrote => Untouched
      BY DEF Wrote, Untouched, Commits
    <2>3. classifyStreamFailure \in Failures
      BY DEF classifyStreamFailure, Failures
    <2> QED
      BY <1>0, <2>1, <2>2, <2>3, RenderFacts
  <1>10. CASE AggregateServed
    <2>1. Untouched
      BY <1>10 DEF AggregateServed, Commits, Running
    <2>2. classifyStreamFailure \in Failures
      BY DEF classifyStreamFailure, Failures
    <2> QED
      BY <1>0, <1>10, <2>1, <2>2, RenderFacts, WholeFacts DEF AggregateServed
  <1>11. CASE Fail
    <2>1. resp' = resp \/ (pc = "ret" /\ err.tags = {"api"} /\ Envelope(err.status))
      BY <1>11 DEF Fail
    <2> QED
      BY <1>0, <2>1, EnvelopeFacts DEF Commits
  <1>12. CASE Recover
    <2>1. ~Wrote => Untouched
      BY DEF Wrote, Untouched, Commits
    <2> QED
      BY <1>0, <1>12, <2>1, EnvelopeFacts DEF Recover, Failures
  <1>13. CASE Observe
    <2>1. \E e \in {"cut", "clean"} : resp' = [resp EXCEPT !.end = e]
      BY <1>13 DEF Observe
    <2> QED
      BY <1>0, <2>1, RespUpdates
  <1> QED
    BY <1>0, <1>1, <1>2, <1>3, <1>4, <1>5, <1>6, <1>7, <1>8, <1>9, <1>10, <1>11, <1>12,
       <1>13, Writers

\* So do the errors, the upstream and the records of guard, loop, body and Run.
LEMMA ErrTyped == ASSUME ExchangeInv, Next PROVE err' \in Errors
  <1> USE DEF ExchangeInv, Return
  <1>0. Typed /\ err \in Errors
    BY DEF Typed
  <1>1. CASE LegRefuses \/ CountTokens \/ RelayDoFails \/ RelayAnswered \/ CopyWriteFails
             \/ CopyEnds \/ StreamEnds \/ JsonEnds \/ CopyFails
    <2>1. \/ err' \in {err, NoErr, Tagged({"gone"}), Tagged({"started"}), Tagged({"started", "gone"})}
          \/ \E s \in Failures : err' = Api(s)
          \/ \E t \in BOOLEAN : err' = UpstreamError(t)
      BY <1>1 DEF LegRefuses, CountTokens, RelayDoFails, RelayAnswered, CopyWriteFails, CopyEnds,
         StreamEnds, JsonEnds, CopyFails, Failures
    <2> QED
      BY <1>0, <2>1, ErrorsTyped, UpstreamErrorIsFailure
  <1>2. CASE CodexRefused \/ CodexRejected \/ CodexUnreached \/ StreamServed \/ AggregateServed
    <2>1. \/ err' \in {err, NoErr, Tagged({"gone"}), Tagged({"started"})}
          \/ \E s \in Failures : err' = Api(s)
      BY <1>2 DEF CodexRefused, CodexRejected, CodexUnreached, StreamServed, AggregateServed, Render,
         Failures
    <2> QED
      BY <1>0, <2>1, ErrorsTyped
  <1> QED
    BY <1>0, <1>1, <1>2, Writers

LEMMA UpTyped == ASSUME ExchangeInv, Next PROVE up' \in Upstreams
  <1>0. up \in Upstreams
    BY DEF ExchangeInv, Typed
  <1>1. CASE RelayAnswered \/ CodexOpened \/ UpEnds
    BY <1>0, <1>1, UpUpdates DEF RelayAnswered, CodexOpened, UpEnds
  <1>2. CASE CopyRead \/ ReadFrame
    BY <1>0, <1>2, UpUpdates DEF CopyRead, ReadFrame
  <1>3. CASE UpSends
    BY <1>0, <1>3, UpUpdates, ChunksAreFrames DEF UpSends
  <1> QED
    BY <1>0, <1>1, <1>2, <1>3, Writers

LEMMA GotTyped == ASSUME ExchangeInv, Next PROVE got' \in Gots
  <1>0. got \in Gots /\ got.chunk \in Frames
    BY DEF ExchangeInv, Typed, Gots
  <1>1. CASE RelayAnswered
    BY <1>0, <1>1, GotUpdates DEF RelayAnswered
  <1>2. CASE CopyRead
    <2>1. Head(up.inbox) \in Frames
      BY <1>2 DEF CopyRead, ExchangeInv, Typed, Upstreams
    <2> QED
      BY <1>0, <1>2, <2>1, GotUpdates DEF CopyRead
  <1>3. CASE CopyWrite
    <2>1. got' = got \/ got' = [got EXCEPT !.saw = @ \cup {got.chunk}]
      BY <1>3 DEF CopyWrite
    <2> QED
      BY <1>0, <2>1, GotUpdates
  <1> QED
    BY <1>0, <1>1, <1>2, <1>3, Writers

LEMMA GuardTyped == ASSUME ExchangeInv, Next PROVE guard' \in Guards
  <1>0. guard \in Guards
    BY DEF ExchangeInv, Typed
  <1>1. CASE RelayDo \/ Rearm \/ IdleTrips \/ IdleCancels
    BY Zenon, <1>0, <1>1, GuardUpdates DEF RelayDo, Rearm, IdleTrips, IdleCancels
  <1>2. CASE Returned \/ Fail \/ Panic
    <2>1. guard' = guard \/ guard' = [guard EXCEPT !.armed = FALSE]
      BY <1>2 DEF Returned, Fail, Panic, IdleStop
    <2> QED
      BY Zenon, <1>0, <2>1, GuardUpdates
  <1> QED
    BY <1>0, <1>1, <1>2, Writers

LEMMA BodyTyped == ASSUME ExchangeInv, Next PROVE body' \in Bodies
  <1>0. body \in Bodies
    BY DEF ExchangeInv, Typed
  <1>1. \/ body' = body
        \/ \E m \in {"free", "reader"} : body' = [body EXCEPT !.mu = m]
        \/ \E c \in BOOLEAN : body' = [body EXCEPT !.closed = c]
        \/ \E c \in BOOLEAN : body' = [body EXCEPT !.cancelled = c]
    <2>1. CASE CloseCancel \/ CloseBody
      BY <2>1 DEF CloseCancel, CloseBody
    <2>2. CASE ReadLock \/ ReadStart \/ ReadFrame \/ ReadEnds \/ ReadReset
      BY <2>2 DEF ReadLock, ReadStart, ReadFrame, ReadEnds, ReadReset, Unlocked
    <2>3. CASE Panic
      <3>1. (body.cancelled \/ reader # "none") \in BOOLEAN
        OBVIOUS
      <3>2. body' = [body EXCEPT !.cancelled = (body.cancelled \/ reader # "none")]
        BY <2>3 DEF Panic
      <3> QED
        BY Zenon, <3>1, <3>2
    <2>4. CASE Recover
      <3>1. (body.closed \/ reader # "none") \in BOOLEAN
        OBVIOUS
      <3>2. body' = [body EXCEPT !.closed = (body.closed \/ reader # "none")]
        BY <2>4 DEF Recover
      <3> QED
        BY Zenon, <3>1, <3>2
    <2> QED
      BY <2>1, <2>2, <2>3, <2>4, Writers
  <1> QED
    BY Zenon, <1>0, <1>1, BodyUpdates

LEMMA RunTyped == ASSUME ExchangeInv, Next PROVE run' \in Runs
  <1>0. run \in Runs /\ run.calls + 1 \in Nat /\ run.cause \in Causes
    BY DEF ExchangeInv, Typed, Runs
  <1>1. \/ run' = run
        \/ \E c \in Causes : run' = [run EXCEPT !.cause = c]
        \/ \E c \in Causes \cup {"no", "idle"} : run' = [run EXCEPT !.ending = c]
        \/ \E c \in Returns : run' = [run EXCEPT !.ret = c]
        \/ run' = [run EXCEPT !.calls = run.calls + 1]
        \/ run' = [run EXCEPT !.seeded = TRUE]
        \/ run' = [run EXCEPT !.panicked = TRUE]
    <2>1. CASE Emit \/ Heartbeat
      BY <2>1 DEF Emit, Heartbeat
    <2>2. CASE HandleFails \/ EmitFails \/ RunInterrupted
      BY <2>2 DEF HandleFails, EmitFails, RunInterrupted, GiveUp, Returns
    <2>3. CASE RunEnds \/ RunIdle
      BY <1>0, <2>3 DEF RunEnds, RunIdle, HandleEnd, GiveUp, Returns
    <2>4. CASE Panic \/ SeedCounted
      BY <2>4 DEF Panic, SeedCounted
    <2>5. CASE ReadStart \/ ReadEnds \/ ReadReset
      BY <2>5 DEF ReadStart, ReadEnds, ReadReset, Causes
    <2> QED
      BY <2>1, <2>2, <2>3, <2>4, <2>5, Writers
  <1> QED
    BY Zenon, <1>0, <1>1, RunUpdates

LEMMA TypedNext == ASSUME ExchangeInv, Next PROVE Typed'
  <1>1. client' \in {"here", "gone"}
    BY Writers DEF HangUp, ExchangeInv, Typed
  <1> QED
    BY <1>1, RespTyped, ErrTyped, UpTyped, GotTyped, GuardTyped, BodyTyped, RunTyped DEF Typed

-----------------------------------------------------------------------------
(* Who is where, and who holds the body's mutex.                           *)

\* A step keeps every goroutine to its place.
LEMMA PlacesNext == ASSUME ExchangeInv, Next PROVE Places'
  <1> USE DEF ExchangeInv, Typed, Guards, Runs, Places, Early, Copying, Running, Settled,
         Relays, DeepSeek, Codex, vars, sinkVars, codexVars, relayVars, runOnly
  <1>1. CASE Refuse \/ Unroutable \/ Dispatch \/ LegRefuses \/ CountTokens
    BY <1>1 DEF Refuse, Unroutable, Dispatch, LegRefuses, Return, CountTokens
  <1>2. CASE RelayDo \/ RelayDoFails \/ RelayAnswered \/ CopyRead \/ Rearm \/ CopyWrite
    BY <1>2 DEF RelayDo, RelayDoFails, Gone, Return, RelayAnswered, CopyRead, Rearm,
       CopyWrite
  <1>3. CASE CopyWriteFails \/ CopyEnds \/ StreamEnds \/ JsonEnds \/ CopyFails
    BY <1>3 DEF CopyWriteFails, Gone, Return, CopyEnds, AtEnd, StreamEnds, JsonEnds,
       CopyFails
  <1>4. CASE LogTransport \/ RoundTrip \/ CodexRefused \/ CodexRejected \/ CodexUnreached \/
     CodexOpened
    BY <1>4 DEF LogTransport, RoundTrip, CodexRefused, Render, Return, Gone, CodexRejected,
       CodexUnreached, CodexOpened
  <1>5. CASE RunFrame \/ Emit \/ EmitClose \/ Terminus \/ Handled \/ HandleFails \/
     EmitFails \/ Heartbeat
    BY <1>5 DEF RunFrame, Emit, EmitClose, Terminus, Handled, HandleFails, GiveUp,
       EmitFails, Gone, Heartbeat
  <1>6. CASE RunEnds \/ RunIdle \/ RunInterrupted \/ CloseCancel \/ CloseBody \/ Join
    BY <1>6 DEF RunEnds, HandleEnd, GiveUp, RunIdle, RunInterrupted, Gone, CloseCancel,
       CloseBody, Http1, Join
  <1>7. CASE StreamServed \/ AggregateServed \/ Returned \/ Fail \/ Recover \/ Observe
    BY <1>7 DEF StreamServed, Render, Return, Gone, AggregateServed, Returned, IdleStop,
       Fail, Recover, Http1, Observe
  <1>8. CASE Reader
    BY <1>8 DEF Reader, ReadQuits, Gone, ReadEnds, Unlocked, Http1, ReadFrame, ReadStart,
       ReadLock
  <1>9. CASE IdleTrips \/ IdleCancels \/ SeedCounted \/ Environment \/ Over
    BY <1>9 DEF IdleTrips, IdleCancels, SeedCounted, Environment, ReadReset, Unlocked, Gone,
       Http1, Panic, IdleStop, UpEnds, UpSends, HangUp, OtherGate, Over
  <1> QED
    BY <1>1, <1>2, <1>3, <1>4, <1>5, <1>6, <1>7, <1>8, <1>9 DEF Next, Handler

\* Close waits for the Read it would cut short, and a Read that finds the body
\* closed does not start.
LEMMA MutexNext == ASSUME ExchangeInv, Next PROVE Mutex'
  <1>0. UNCHANGED proto
    BY Writers
  <1> USE <1>0 DEF ExchangeInv, Typed, Bodies, Mutex, BodyClosedAlone, Http1
  <1>1. CASE UNCHANGED <<body, reader>>
    BY <1>1
  <1>2. CASE CodexOpened \/ RunFrame
    BY <1>2 DEF CodexOpened, RunFrame
  <1>3. CASE CloseCancel \/ CloseBody \/ Panic \/ Recover
    BY <1>3 DEF CloseCancel, CloseBody, Panic, Recover, runOnly
  <1>4. CASE ReadLock \/ ReadStart \/ ReadFrame \/ ReadEnds \/ ReadReset \/ ReadQuits
    BY <1>4 DEF ReadLock, ReadStart, ReadFrame, ReadEnds, ReadReset, ReadQuits, Unlocked
  <1> QED
    BY <1>1, <1>2, <1>3, <1>4, Writers

-----------------------------------------------------------------------------
(* What was written, of what came, and whether it is the truth.            *)

Written == Commits /\ Accounts /\ Truth

\* A piece that was written stays written.
LEMMA HoldsAppend ==
    ASSUME NEW S, NEW s \in Seq(S), NEW x \in S
    PROVE  /\ \A p : (\E k \in DOMAIN s : s[k] = p)
                        => \E k \in DOMAIN Append(s, x) : Append(s, x)[k] = p
           /\ \E k \in DOMAIN Append(s, x) : Append(s, x)[k] = x
  <1>1. Len(s) \in Nat /\ Len(Append(s, x)) = Len(s) + 1 /\ Append(s, x)[Len(s) + 1] = x
    OBVIOUS
  <1>2. DOMAIN s = 1..Len(s) /\ DOMAIN Append(s, x) = 1..(Len(s) + 1)
    OBVIOUS
  <1>3. \A k \in 1..Len(s) : Append(s, x)[k] = s[k]
    OBVIOUS
  <1>4. Len(s) + 1 \in DOMAIN Append(s, x)
    BY <1>1, <1>2
  <1>5. \A k \in DOMAIN s : k \in DOMAIN Append(s, x)
    BY <1>1, <1>2
  <1> QED
    BY <1>1, <1>2, <1>3, <1>4, <1>5

\* A step of the timers, of the reader, of another request, or of a caller who
\* hangs up, says nothing.
LEMMA WrittenStays ==
    ASSUME ExchangeInv, Typed', UNCHANGED <<route, pc, resp, err, got, up>>,
           client' = client \/ client' = "gone",
           run'.ret = run.ret, run'.panicked = run.panicked
    PROVE  Written'
  <1>1. Commits'
    BY DEF ExchangeInv, Commits, Untouched, Verbatim, EnvelopeAlone
  <1>2. Accounts'
    BY DEF ExchangeInv, Accounts, Verbatim, InHand, Holds
  <1>3. Truth'
    BY DEF ExchangeInv, Truth, Honest, Verbatim, RelayedWhole, Holds, Gone
  <1> QED
    BY <1>1, <1>2, <1>3 DEF Written

\* Pieces come, and the body ends, behind the handler's back; a response that
\* relayed a finished body is not touched by either.
LEMMA WrittenUpstream ==
    ASSUME ExchangeInv, Typed', UpSends \/ UpEnds \/ ReadFrame
    PROVE  Written'
  <1> USE DEF ExchangeInv
  <1>a. UNCHANGED <<route, pc, resp, err, got, client, run>>
    BY DEF UpSends, UpEnds, ReadFrame, codexVars, sinkVars, relayVars
  <1>b. up \in Upstreams /\ up.inbox \in Seq(Frames) /\ up.sent \in Nat
    BY DEF Typed, Upstreams
  <1>c. resp.body \in Seq(Pieces)
    BY DEF Typed, Responses
  <1>d. Len(resp.body) \in Nat /\ Len(up.inbox) \in Nat
    BY <1>b, <1>c
  <1>0. /\ UNCHANGED <<route, pc, resp, err, got, client, run>>
        /\ up \in Upstreams /\ up.inbox \in Seq(Frames) /\ up.sent \in Nat
        /\ Len(resp.body) \in Nat /\ Len(up.inbox) \in Nat
    BY <1>a, <1>b, <1>d
  <1>1. Commits'
    BY <1>0 DEF Commits, Untouched, Verbatim, EnvelopeAlone
  <1>2. CASE UpSends
    <2>1. PICK c \in Frames : up' = [up EXCEPT !.inbox = <<c>>, !.sent = @ + 1]
      BY <1>2, ChunksAreFrames DEF UpSends
    <2>2. /\ up'.state = "open" /\ up.state = "open" /\ up'.sent = up.sent + 1
          /\ up'.inbox = <<c>> /\ up.inbox = <<>>
      BY <1>0, <1>2, <2>1 DEF UpSends, Upstreams
    <2>3. Len(up'.inbox) = Len(up.inbox) + 1
      BY <2>2
    <2>4. Accounts'
      <3>1. (pc \in Copying /\ Verbatim => Len(resp.body) + Len(up.inbox) + InHand = up.sent)'
        <4>1. InHand' = InHand /\ InHand \in Nat
          BY <1>0 DEF InHand
        <4> QED
          BY <1>0, <2>2, <2>3, <4>1 DEF Accounts, Verbatim
      <3> QED
        BY <1>0, <2>2, <3>1 DEF Accounts, Verbatim, Holds
    <2>5. Truth'
      BY <1>0, <2>2 DEF Truth, Honest, Verbatim, RelayedWhole, Holds, Gone
    <2> QED
      BY <1>1, <2>4, <2>5 DEF Written
  <1>3. CASE UpEnds
    <2>1. /\ up'.state \in {"eof", "broken"} /\ up.state = "open" /\ up'.sent = up.sent
          /\ up'.inbox = up.inbox
      BY <1>0, <1>3 DEF UpEnds, Upstreams
    <2>2. Accounts'
      BY <1>0, <2>1 DEF Accounts, Verbatim, InHand, Holds
    <2>3. Truth'
      BY <1>0, <2>1 DEF Truth, Honest, Verbatim, RelayedWhole, Holds, Gone
    <2> QED
      BY <1>1, <2>2, <2>3 DEF Written
  <1>4. CASE ReadFrame
    <2>1. /\ up'.state = up.state /\ up'.sent = up.sent /\ up.inbox # <<>>
          /\ route \in Codex /\ pc \notin Early /\ up.state # "closed"
      BY <1>0, <1>4 DEF ReadFrame, Upstreams, Places, Accounts
    <2>2. Accounts'
      BY <1>0, <2>1 DEF Accounts, Holds, Places, Codex, Relays, DeepSeek, Copying
    <2>3. Truth'
      BY <1>0, <2>1 DEF Truth, Honest, Verbatim, RelayedWhole, Holds, Gone
    <2> QED
      BY <1>1, <2>2, <2>3 DEF Written
  <1> QED
    BY <1>2, <1>3, <1>4

\* On its way to the upstream the handler writes nothing.
LEMMA WrittenEarly ==
    ASSUME ExchangeInv, Typed', pc \in Early, pc' \in Early,
           UNCHANGED <<route, client, resp, up, got, run>>
    PROVE  Written'
  <1>1. Untouched' /\ resp'.body \in Seq(Relayed)
    BY DEF ExchangeInv, Commits, Untouched, Early
  <1>2. Commits'
    BY <1>1 DEF ExchangeInv, Commits, Early, Copying, Running, Untouched, EnvelopeAlone
  <1>3. Accounts'
    BY DEF ExchangeInv, Accounts, Early, Copying, Holds
  <1>4. Truth'
    BY DEF ExchangeInv, Truth, Early
  <1> QED
    BY <1>2, <1>3, <1>4 DEF Written

\* How a leg ends that had written nothing: an error to render, nothing for a
\* caller that left, its own envelope, or the whole message.
EndsUntouched ==
    /\ pc' = "ret" /\ resp' \in Responses /\ resp'.end = resp.end
    /\ \/ resp' = resp /\ \E s \in Failures : err' = Api(s)
       \/ resp' = resp /\ Gone /\ err' = Tagged({"gone"})
       \/ err' = NoErr /\ resp'.body = <<"envelope">> /\ resp'.status \in Failures
       \/ /\ err' \in {NoErr, Tagged({"started"})}
          /\ resp'.body = <<"message">> /\ resp'.status = "200"

LEMMA WrittenUntouched ==
    ASSUME ExchangeInv, Typed', Untouched, EndsUntouched, pc # "over",
           UNCHANGED <<route, client, run>>, up'.state = up.state \/ up'.state = "open",
           up'.inbox = up.inbox, up'.sent = up.sent
    PROVE  Written'
  <1>0. pc' = "ret" /\ resp'.end = "open"
    BY DEF EndsUntouched, ExchangeInv, Truth
  <1>1. /\ err'.tags = {"api"} => resp' = resp /\ err'.status \in Failures
        /\ \/ err' = NoErr /\ resp'.body \in {<<"envelope">>, <<"message">>}
           \/ err'.tags = {"api"} \/ "started" \in err'.tags
           \/ err'.tags = {"gone"} /\ Gone
        /\ (err' = NoErr \/ "started" \in err'.tags)
               => resp'.body \in {<<"envelope">>, <<"message">>} /\ resp'.status # "none"
    BY DEF EndsUntouched, Api, Tagged, NoErr, Failures
  <1>2. EnvelopeAlone'
    <2>1. CASE resp' = resp
      BY <2>1 DEF Untouched, EnvelopeAlone
    <2>2. CASE resp'.body = <<"envelope">> /\ resp'.status \in Failures
      BY <2>2 DEF EnvelopeAlone, Failures
    <2>3. CASE resp'.body = <<"message">>
      BY <2>3 DEF EnvelopeAlone
    <2> QED
      BY <2>1, <2>2, <2>3 DEF EndsUntouched
  <1>3. resp'.status = "none" => resp'.body = <<>>
    BY DEF EndsUntouched, Untouched, Failures
  <1>4. Commits'
    BY <1>0, <1>1, <1>2, <1>3 DEF Commits, Untouched, Early, Copying, Running
  <1>5. Accounts'
    BY <1>0 DEF ExchangeInv, Accounts, Early, Copying
  <1>6. Truth'
    BY <1>0, <1>1 DEF Truth, Honest, Gone, NoErr, Typed
  <1> QED
    BY <1>4, <1>5, <1>6 DEF Written

\* A leg that had relayed returns: an error that says so, or nil for a body
\* that is the truth.
LEMMA WrittenStarted ==
    ASSUME ExchangeInv, Typed', pc \notin {"ret", "served", "aborting", "over"}, pc' = "ret",
           UNCHANGED <<route, client, resp, up, got, run>>,
           "started" \in err'.tags \/ (err' = NoErr /\ (client = "here" /\ ~run.panicked => Honest))
    PROVE  Written'
  <1>1. err'.tags # {"api"}
    BY DEF NoErr
  <1>2. Commits'
    BY <1>1 DEF ExchangeInv, Commits, Untouched, EnvelopeAlone, Early, Copying, Running
  <1>3. Accounts'
    BY DEF ExchangeInv, Accounts, Early, Copying
  <1>4. Truth'
    BY DEF ExchangeInv, Truth, Honest, Verbatim, RelayedWhole, Holds, NoErr
  <1> QED
    BY <1>2, <1>3, <1>4 DEF Written

\* The upstream's answer: its status is committed, or the leg refuses it.
LEMMA WrittenAnswered == ASSUME ExchangeInv, Typed', RelayAnswered PROVE Written'
  <1> USE DEF ExchangeInv
  <1>1. /\ Untouched /\ pc = "do" /\ got.saw = {} /\ route \notin Codex
        /\ up.inbox = <<>> /\ up.sent = 0 /\ got \in Gots /\ resp \in Responses
        /\ resp.end = "open"
    BY DEF RelayAnswered, Commits, Accounts, Early, Relays, DeepSeek, Codex, Typed, Truth
  <1>2. up'.state = "open" /\ up'.inbox = <<>> /\ up'.sent = 0
    BY <1>1 DEF RelayAnswered, Typed, Upstreams
  <1>3. UNCHANGED <<route, client, run>>
    BY DEF RelayAnswered, codexVars
  <1>4. ASSUME resp'.body = <<>>, resp'.end = "open", pc' = "copy",
               \/ resp'.status # "none" /\ (route # "deepseek_json" \/ "verbatim" \in got'.saw)
               \/ resp' = resp /\ got'.saw = {} /\ route = "deepseek_json",
               got'.saw \subseteq {"verbatim"}
        PROVE  Written'
    <2>1. resp'.body \in Seq(Relayed) /\ EnvelopeAlone'
      BY <1>4 DEF EnvelopeAlone
    <2>2. Commits'
      BY <1>1, <1>3, <1>4, <2>1 DEF Commits, Untouched, Early, Copying, Running, Verbatim,
         Codex, Relays
    <2>3. Accounts'
      BY <1>2, <1>4 DEF Accounts, Early, Copying, InHand
    <2>4. Truth'
      BY <1>4 DEF Truth
    <2> QED
      BY <2>2, <2>3, <2>4 DEF Written
  <1>5. CASE route # "deepseek_json" /\ resp' = [resp EXCEPT !.status = "200"]
             /\ pc' = "copy" /\ got' = got
    BY <1>1, <1>4, <1>5 DEF Responses, Untouched
  <1>6. CASE resp' = [resp EXCEPT !.status = "upstream"] /\ pc' = "copy"
             /\ got' = [got EXCEPT !.saw = @ \cup {"verbatim"}]
    BY <1>1, <1>4, <1>6 DEF Responses, Untouched, Gots
  <1>7. CASE route = "deepseek_json" /\ pc' = "copy" /\ resp' = resp /\ got' = got
    BY <1>1, <1>4, <1>7 DEF Untouched
  <1>8. CASE Return(Api("502")) /\ resp' = resp
    <2>1. EndsUntouched
      BY <1>1, <1>8 DEF EndsUntouched, Return, Failures
    <2> QED
      BY <1>1, <1>2, <1>3, <2>1, WrittenUntouched
  <1> QED
    BY <1>5, <1>6, <1>7, <1>8 DEF RelayAnswered

\* A piece is taken off the connection and kept in hand.
LEMMA WrittenRead == ASSUME ExchangeInv, Typed', CopyRead \/ Rearm PROVE Written'
  <1> USE DEF ExchangeInv
  <1>0. /\ UNCHANGED <<route, client, run, resp, err>> /\ route \notin Codex
        /\ pc \in Copying /\ pc' \in {"rearm", "write"}
    BY DEF CopyRead, Rearm, codexVars, Copying, Places, Codex, Relays, DeepSeek
  <1>1. /\ got'.saw = got.saw /\ up'.state = up.state /\ up'.sent = up.sent
        /\ Len(up.inbox) + InHand = Len(up'.inbox) + 1
        /\ up.state = "closed" => up'.inbox = <<>>
    <2>1. CASE CopyRead
      <3>1. /\ got'.saw = got.saw /\ up'.state = up.state /\ up'.sent = up.sent
            /\ up'.inbox = Tail(up.inbox) /\ up.inbox # <<>> /\ InHand = 0
            /\ up.inbox \in Seq(Frames)
        BY <2>1 DEF CopyRead, Typed, Gots, Upstreams, InHand
      <3>2. Len(up.inbox) = Len(up'.inbox) + 1 /\ Len(up.inbox) \in Nat
        BY <3>1
      <3> QED
        BY <3>1, <3>2 DEF Accounts
    <2>2. CASE Rearm
      <3>1. UNCHANGED <<got, up>> /\ InHand = 1
        BY <2>2 DEF Rearm, InHand
      <3>2. up.inbox \in Seq(Frames)
        BY DEF Typed, Upstreams
      <3>3. Len(up.inbox) \in Nat
        BY <3>2
      <3> QED
        BY <3>1, <3>3 DEF Accounts
    <2> QED
      BY <2>1, <2>2
  <1>2. Commits'
    BY <1>0, <1>1 DEF Commits, Untouched, Verbatim, EnvelopeAlone, Early, Copying, Running
  <1>3. Accounts'
    <2>1. InHand' = 1 /\ Verbatim' = Verbatim
      BY <1>0, <1>1 DEF InHand, Verbatim
    <2>2. (pc \in Copying /\ Verbatim => Len(resp.body) + Len(up.inbox) + InHand = up.sent)'
      <3>1. Len(resp.body) \in Nat /\ Len(up.inbox) \in Nat /\ Len(up'.inbox) \in Nat
            /\ InHand \in Nat
        BY DEF Typed, Responses, Upstreams, InHand
      <3>2. Verbatim => Len(resp.body) + Len(up.inbox) + InHand = up.sent
        BY <1>0 DEF Accounts
      <3>3. Len(resp.body) + Len(up.inbox) + InHand = Len(resp.body) + Len(up'.inbox) + 1
        <4>2. Len(up.inbox) + InHand = Len(up'.inbox) + 1
          BY <1>1
        <4>3. PICK a, b, h, c \in Nat :
                 a = Len(resp.body) /\ b = Len(up.inbox) /\ h = InHand /\ c = Len(up'.inbox)
          BY <3>1
        <4>4. b + h = c + 1
          BY Zenon, <4>2, <4>3
        <4>5. a + b + h = a + c + 1
          BY <4>4
        <4> QED
          BY Zenon, <4>3, <4>5
      <3>4. Verbatim => Len(resp'.body) + Len(up'.inbox) + 1 = up'.sent
        BY <1>0, <1>1, <3>2, <3>3
      <3> QED
        BY <2>1, <3>4
    <2> QED
      BY <1>0, <1>1, <2>2 DEF Accounts, Early, Copying, Holds
  <1>4. Truth'
    BY <1>0 DEF Truth, Copying
  <1> QED
    BY <1>2, <1>3, <1>4 DEF Written

\* The piece in hand joins the response, or what jsonResponse collects.
LEMMA WrittenCopied == ASSUME ExchangeInv, Typed', CopyWrite PROVE Written'
  <1> USE DEF ExchangeInv
  <1>0. /\ UNCHANGED <<route, client, run, up, err>> /\ route \notin Codex
        /\ pc = "write" /\ pc' = "copy" /\ got.chunk \in Frames
    BY DEF CopyWrite, codexVars, Copying, Places, Codex, Relays, DeepSeek, Typed, Gots
  <1>1. /\ Verbatim => got' = got
        /\ ~Verbatim => got'.saw = got.saw \cup {got.chunk}
        /\ Verbatim' = Verbatim
    BY <1>0 DEF CopyWrite, Typed, Gots, Verbatim, Frames
  <1>2. resp.body \in Seq(Relayed) /\ resp.end = "open"
    BY <1>0 DEF Commits, Truth
  <1>3. CASE route = "deepseek_json" /\ ~Verbatim
    <2>1. resp' = resp
      BY <1>3 DEF CopyWrite
    <2>2. Commits'
      BY <1>0, <1>1, <2>1 DEF Commits, Untouched, EnvelopeAlone, Early, Copying, Running
    <2>3. Accounts'
      BY <1>0, <1>1, <1>3, <2>1 DEF Accounts, Early, Copying
    <2>4. Truth'
      BY <1>0, <2>1 DEF Truth
    <2> QED
      BY <2>2, <2>3, <2>4 DEF Written
  <1>4. CASE ~(route = "deepseek_json" /\ ~Verbatim)
    <2>1. /\ resp'.body = Append(resp.body, got.chunk) /\ resp'.status = resp.status
          /\ resp'.end = resp.end
      BY <1>4 DEF CopyWrite, Typed, Responses
    <2>2. resp'.body \in Seq(Relayed) /\ got.chunk \in Relayed
      BY <1>0, <1>2, <2>1 DEF Relayed
    <2>3. resp.status # "none"
      BY <1>0, <1>4 DEF Commits, Copying
    <2>4. Commits'
      <3>1. EnvelopeAlone'
        BY <2>2 DEF EnvelopeAlone, Relayed, Frames, SinkOps
      <3> QED
        BY <1>0, <1>1, <1>4, <2>1, <2>2, <2>3, <3>1 DEF Commits, Early, Copying, Running
    <2>5. /\ \A p : Holds(p) => \E k \in DOMAIN resp'.body : resp'.body[k] = p
          /\ \E k \in DOMAIN resp'.body : resp'.body[k] = got.chunk
      BY <1>2, <2>1, <2>2, HoldsAppend DEF Holds
    <2>6. Accounts'
      <3>1. (pc \in Copying /\ Verbatim => Len(resp.body) + Len(up.inbox) + InHand = up.sent)'
        <4>1. InHand = 1 /\ InHand' = 0 /\ Len(resp.body) \in Nat /\ Len(up.inbox) \in Nat
          BY <1>0 DEF InHand, Typed, Responses, Upstreams
        <4>2. Len(resp'.body) = Len(resp.body) + 1
          BY <1>2, <2>1, <2>2
        <4>3. Verbatim => Len(resp.body) + Len(up.inbox) + 1 = up.sent
          BY <1>0, <4>1 DEF Accounts, Copying
        <4>4. \A a, b \in Nat : a + b + 1 = (a + 1) + b + 0
          OBVIOUS
        <4>5. Verbatim => Len(resp'.body) + Len(up'.inbox) + 0 = up'.sent
          BY <1>0, <4>1, <4>2, <4>3, <4>4
        <4> QED
          BY <1>0, <1>1, <4>1, <4>5
      <3>2. (pc \in Copying /\ route = "deepseek_stream"
                => \A c \in got.saw \ {"verbatim"} : Holds(c))'
        BY <1>0, <1>1, <2>5 DEF Accounts, Copying, Holds
      <3> QED
        BY <1>0, <3>1, <3>2 DEF Accounts, Early
    <2>7. Truth'
      BY <1>0, <1>2, <2>1 DEF Truth
    <2> QED
      BY <2>4, <2>6, <2>7 DEF Written
  <1> QED
    BY <1>3, <1>4

\* The relays' loop returns: every way out of it.
LEMMA WrittenLoopEnds ==
    ASSUME ExchangeInv, Typed', CopyWriteFails \/ CopyEnds \/ StreamEnds \/ JsonEnds \/ CopyFails
    PROVE  Written'
  <1> USE DEF ExchangeInv
  <1>0. /\ UNCHANGED <<route, client, up, got, run>> /\ pc \in Copying /\ pc' = "ret"
        /\ pc \notin {"ret", "served", "aborting", "over"}
    BY DEF CopyWriteFails, CopyEnds, StreamEnds, JsonEnds, CopyFails, AtEnd, Copying, Return,
       relayVars, codexVars
  <1>1. CASE CopyWriteFails
    <2>1. "started" \in err'.tags /\ resp' = resp
      BY <1>1 DEF CopyWriteFails, Return, Tagged
    <2> QED
      BY <1>0, <2>1, WrittenStarted
  <1>2. CASE CopyEnds
    <2>1. /\ Verbatim /\ resp' = resp /\ err' = NoErr /\ up.state = "eof" /\ up.inbox = <<>>
          /\ pc = "copy"
      BY <1>2 DEF CopyEnds, AtEnd, Return
    <2>2. Len(resp.body) = up.sent
      <3>1. Len(resp.body) + 0 + 0 = up.sent
        BY <2>1 DEF Accounts, InHand, Copying
      <3>2. Len(resp.body) \in Nat
        BY DEF Typed, Responses
      <3> QED
        BY <3>1, <3>2
    <2>3. Honest
      BY <2>1, <2>2 DEF Honest, RelayedWhole
    <2> QED
      BY <1>0, <2>1, <2>3, WrittenStarted
  <1>3. CASE StreamEnds
    <2>1. /\ resp' = resp /\ route = "deepseek_stream"
          /\ err' = IF "error" \in got.saw \/ {"start", "stop"} \subseteq got.saw
                    THEN NoErr ELSE Tagged({"started"})
      BY <1>3 DEF StreamEnds, Return
    <2>2. \A c \in got.saw \ {"verbatim"} : Holds(c)
      BY <1>0, <2>1 DEF Accounts
    <2>3. "started" \in err'.tags \/ (err' = NoErr /\ Honest)
      BY <2>1, <2>2 DEF Honest, Tagged
    <2> QED
      BY <1>0, <2>1, <2>3, WrittenStarted
  <1>4. CASE JsonEnds
    <2>1. Untouched
      BY <1>0, <1>4 DEF JsonEnds, Commits
    <2>2. EndsUntouched
      <3>1. CASE Return(Api("502")) /\ resp' = resp
        BY <3>1 DEF EndsUntouched, Return, Failures, Typed
      <3>2. CASE Whole("200") /\ (Return(NoErr) \/ Return(Tagged({"started"})))
        BY <2>1, <3>2, WholeFacts DEF EndsUntouched, Return
      <3> QED
        BY <1>4, <3>1, <3>2 DEF JsonEnds
    <2> QED
      BY <1>0, <2>1, <2>2, WrittenUntouched
  <1>5. CASE CopyFails /\ ~(route = "deepseek_json" /\ ~Verbatim)
    <2>1. "started" \in err'.tags /\ resp' = resp
      BY <1>5 DEF CopyFails, Return, Tagged
    <2> QED
      BY <1>0, <2>1, WrittenStarted
  <1>6. CASE CopyFails /\ route = "deepseek_json" /\ ~Verbatim
    <2>1. Untouched
      BY <1>0, <1>6 DEF Commits
    <2>2. EndsUntouched
      BY <1>6, UpstreamErrorIsFailure DEF CopyFails, EndsUntouched, Return, Typed
    <2> QED
      BY <1>0, <2>1, <2>2, WrittenUntouched
  <1> QED
    BY <1>1, <1>2, <1>3, <1>4, <1>5, <1>6

\* A leg that fails before it has an answer, and count_tokens.
LEMMA WrittenRefused ==
    ASSUME ExchangeInv, Typed', Next, pc' = "ret",
           LegRefuses \/ CountTokens \/ RelayDoFails \/ CodexRefused \/ CodexRejected \/ CodexUnreached
    PROVE  Written'
  <1> USE DEF ExchangeInv
  <1>0. /\ UNCHANGED <<route, client, up, run>> /\ pc \in Early
    BY DEF LegRefuses, CountTokens, RelayDoFails, CodexRefused, CodexRejected, CodexUnreached,
       Early, codexVars
  <1>1. Untouched /\ Typed /\ pc # "over"
    BY <1>0 DEF Commits, Early
  <1>2. EndsUntouched
    <2>1. CASE LegRefuses
      <3>1. \E s \in Failures : Return(Api(s))
        BY <2>1 DEF LegRefuses, Failures
      <3> QED
        BY <2>1, <3>1 DEF LegRefuses, EndsUntouched, Return, Typed
    <2>2. CASE CountTokens
      BY <1>1, <2>2, WholeFacts DEF CountTokens, EndsUntouched, Return
    <2>3. CASE RelayDoFails
      BY <2>3, UpstreamErrorIsFailure DEF RelayDoFails, EndsUntouched, Return, Typed
    <2>4. ASSUME NEW s \in Failures, Render(s) PROVE EndsUntouched
      BY <1>1, <2>4, RenderFacts DEF EndsUntouched
    <2>5. CASE CodexRefused
      BY <2>4, <2>5, StatusOfFailure DEF CodexRefused
    <2>6. CASE CodexRejected
      <3>1. CASE Render("401")
        BY <2>4, <3>1 DEF Failures
      <3>2. CASE resp' = resp /\ \E status \in {"401", "503"} :
                    Return(IF Gone THEN Tagged({"gone"}) ELSE Api(status))
        <4>1. \E s \in Failures : Return(IF Gone THEN Tagged({"gone"}) ELSE Api(s))
          BY <3>2 DEF Failures
        <4> QED
          BY <3>2, <4>1 DEF EndsUntouched, Return, Typed
      <3> QED
        BY <2>6, <3>1, <3>2 DEF CodexRejected
    <2>7. CASE CodexUnreached
      <3>1. PICK class \in {"network", "gate", HeaderDeadline} : Render(StatusOf(class))
        BY <2>7 DEF CodexUnreached
      <3>2. class \in Classes \cup {"network", "canceled", "timeout"}
        BY DEF Classes, HeaderDeadline
      <3> QED
        BY <2>4, <3>1, <3>2, StatusOfFailure
    <2> QED
      BY <2>1, <2>2, <2>3, <2>5, <2>6, <2>7
  <1> QED
    BY <1>0, <1>1, <1>2, WrittenUntouched

\* Run goes about its business, or closes the body, without a word to the sink.
LEMMA WrittenRuns ==
    ASSUME ExchangeInv, Typed', UNCHANGED <<route, client, resp, err, got>>, run'.ret = run.ret,
           up' = up \/ (up.state = "closed" /\ up'.state = "open"),
           pc \in {"do"} \cup Running, pc' \in Running, route \in Codex,
           pc' \in {"close", "closing", "join", "ran"} => pc \in {"close", "closing", "join"}
    PROVE  Written'
  <1>1. Commits'
    BY DEF ExchangeInv, Commits, Untouched, EnvelopeAlone, Early, Copying, Running
  <1>2. Accounts'
    BY DEF ExchangeInv, Accounts, Holds, Early, Copying, Running
  <1>3. Truth'
    BY DEF ExchangeInv, Truth, Running
  <1> QED
    BY <1>1, <1>2, <1>3 DEF Written

\* A call to the sink: a streamed frame is written, a folded one is not.
LEMMA WrittenCalls ==
    ASSUME ExchangeInv, Typed', Emit \/ EmitClose \/ Heartbeat \/ Terminus
    PROVE  Written'
  <1> USE DEF ExchangeInv
  <1>0. /\ UNCHANGED <<route, client, err, got, up>> /\ run'.ret = run.ret
        /\ pc \in {"run", "handle"} /\ pc' \in {"run", "handle", "close"} /\ Deliver
        /\ pc' = "close" => Terminus
    BY DEF Emit, EmitClose, Heartbeat, Terminus, runOnly, relayVars, Typed, Runs
  <1>1. call'.op \in SinkOps
    BY CallsAreOps DEF Emit, EmitClose, Terminus, Heartbeat
  <1>2. /\ route \in Codex /\ resp.body \in Seq(Relayed) /\ resp.end = "open"
    BY <1>0 DEF Places, Commits, Truth, Running
  <1>3. PICK op \in SinkOps : op = call'.op
    BY <1>1
  <1>4. /\ resp'.end = resp.end /\ resp'.body \in Seq(Relayed)
        /\ route = "codex_json" => resp' = resp
        /\ route = "codex_stream" => resp'.status = "200" /\ resp'.body = Append(resp.body, op)
    BY <1>0, <1>1, <1>2, <1>3, DeliverFacts DEF Codex, Relayed
  <1>5. Commits'
    <2>1. EnvelopeAlone'
      BY <1>4 DEF EnvelopeAlone, Relayed, Frames, SinkOps
    <2> QED
      BY <1>0, <1>2, <1>4, <2>1 DEF Commits, Untouched, Early, Copying, Running, Codex
  <1>6. Accounts'
    <2>1. Terminus => op \in {"MessageStop", "Error"}
      BY <1>3 DEF Terminus, Sink!MessageStop, Sink!Error, Sink!Said
    <2>2. route = "codex_stream" => \E k \in DOMAIN resp'.body : resp'.body[k] = op
      BY <1>2, <1>4, HoldsAppend DEF Relayed
    <2> QED
      BY <1>0, <2>1, <2>2 DEF Accounts, Holds, Early, Copying
  <1>7. Truth'
    BY <1>0, <1>2, <1>4 DEF Truth
  <1> QED
    BY <1>5, <1>6, <1>7 DEF Written

\* Run gives up: the body stands, and what it returns is no nil.
LEMMA WrittenGivesUp ==
    ASSUME ExchangeInv, Typed', pc \in {"run", "handle"}, pc' = "close",
           UNCHANGED <<route, client, up, got>>, run'.ret # "nil", resp'.body = resp.body,
           resp'.end = resp.end,
           resp' = resp \/ (route = "codex_stream" /\ resp'.status = "200")
    PROVE  Written'
  <1> USE DEF ExchangeInv
  <1>1. route \in Codex /\ resp.body \in Seq(Relayed) /\ resp.end = "open"
    BY DEF Places, Commits, Truth, Running
  <1>2. Commits'
    <2>1. EnvelopeAlone'
      BY <1>1 DEF EnvelopeAlone, Relayed, Frames, SinkOps
    <2> QED
      BY <1>1, <2>1 DEF Commits, Untouched, Early, Copying, Running, Codex
  <1>3. Accounts'
    BY DEF Accounts, Early, Copying
  <1>4. Truth'
    BY <1>1 DEF Truth
  <1> QED
    BY <1>2, <1>3, <1>4 DEF Written

\* serveStream and serveAggregate once Run has returned.
LEMMA WrittenServed == ASSUME ExchangeInv, Typed', StreamServed \/ AggregateServed PROVE Written'
  <1> USE DEF ExchangeInv
  <1>0. /\ UNCHANGED <<route, client, up, got, run>> /\ pc = "ran" /\ pc' = "ret"
        /\ pc \notin {"ret", "served", "aborting", "over"}
    BY DEF StreamServed, AggregateServed, Render, Return, relayVars, codexVars
  <1>1. classifyStreamFailure \in Failures /\ Typed
    BY DEF classifyStreamFailure, Failures
  <1>2. CASE StreamServed
    <2>0. route = "codex_stream"
      BY <1>2 DEF StreamServed
    <2>1. CASE run.ret = "nil" /\ Return(NoErr) /\ resp' = resp
      <3>1. Honest
        BY <1>0, <2>0, <2>1 DEF Accounts, Honest
      <3> QED
        BY <1>0, <2>1, <3>1, WrittenStarted DEF Return
    <2>2. CASE Return(Tagged({"started"})) /\ resp' = resp
      BY <1>0, <2>2, WrittenStarted DEF Return, Tagged
    <2>3. CASE ~Wrote /\ Render(classifyStreamFailure)
      <3>1. Untouched
        BY <2>3 DEF Wrote, Untouched, Commits
      <3>2. EndsUntouched
        BY <1>1, <2>3, <3>1, RenderFacts DEF EndsUntouched
      <3> QED
        BY <1>0, <3>1, <3>2, WrittenUntouched
    <2> QED
      BY <1>2, <2>1, <2>2, <2>3 DEF StreamServed
  <1>3. CASE AggregateServed
    <2>1. Untouched
      BY <1>0, <1>3 DEF AggregateServed, Commits, Running
    <2>2. CASE Whole("200") /\ Return(NoErr)
      <3>1. EndsUntouched
        BY <2>1, <2>2, <1>1, WholeFacts DEF EndsUntouched, Return
      <3> QED
        BY <1>0, <2>1, <3>1, WrittenUntouched
    <2>3. CASE Render(classifyStreamFailure)
      <3>1. EndsUntouched
        BY <1>1, <2>1, <2>3, RenderFacts DEF EndsUntouched
      <3> QED
        BY <1>0, <2>1, <3>1, WrittenUntouched
    <2> QED
      BY <1>3, <2>2, <2>3 DEF AggregateServed
  <1> QED
    BY <1>2, <1>3

\* The front door's own envelopes, and the recover middleware's.
LEMMA WrittenEnvelope ==
    ASSUME ExchangeInv, Typed', Untouched, NEW s \in Failures, Envelope(s), pc # "over",
           pc' = "served", UNCHANGED <<route, client, up, got>>
    PROVE  Written'
  <1> USE DEF ExchangeInv
  <1>1. resp'.status = s /\ resp'.body = <<"envelope">> /\ resp'.end = "open"
    BY EnvelopeFacts DEF Truth
  <1>2. Commits'
    BY <1>1 DEF Commits, Untouched, EnvelopeAlone, Early, Copying, Running, Failures
  <1>3. Accounts'
    BY DEF Accounts, Early, Copying
  <1>4. Truth'
    BY <1>1 DEF Truth, Honest
  <1> QED
    BY <1>2, <1>3, <1>4 DEF Written

\* The way out leaves the body as the leg left it; nil is the leg's word that
\* it is the truth.
LEMMA WrittenOut ==
    ASSUME ExchangeInv, Typed', Returned \/ Fail \/ Panic \/ Recover \/ Observe
    PROVE  Written'
  <1> USE DEF ExchangeInv
  <1>0. UNCHANGED <<route, client, up, got>>
    BY DEF Returned, Fail, Panic, Recover, Observe, relayVars
  <1>1. CASE Returned
    <2>1. pc = "ret" /\ err = NoErr /\ pc' = "served" /\ UNCHANGED <<resp, err, run>>
      BY <1>1 DEF Returned, codexVars
    <2>2. Commits'
      BY <1>0, <2>1 DEF Commits, Untouched, EnvelopeAlone, Early, Copying, Running
    <2>3. Accounts'
      BY <1>0, <2>1 DEF Accounts, Early, Copying
    <2>4. Truth'
      BY <1>0, <2>1 DEF Truth, Honest, Verbatim, RelayedWhole, Holds, Gone
    <2> QED
      BY <2>2, <2>3, <2>4 DEF Written
  <1>2. CASE Fail
    <2>0. pc = "ret" /\ err # NoErr /\ UNCHANGED <<err, run>>
      BY <1>2 DEF Fail, codexVars
    <2>1. CASE err.tags = {"api"} /\ Envelope(err.status) /\ pc' = "served"
      <3>1. Untouched /\ err.status \in Failures
        BY <2>0, <2>1 DEF Commits
      <3> QED
        BY <1>0, <2>0, <2>1, <3>1, WrittenEnvelope
    <2>2. CASE pc' = "aborting" /\ resp' = resp
      <3>1. Commits'
        BY <1>0, <2>0, <2>2 DEF Commits, Untouched, EnvelopeAlone, Early, Copying, Running
      <3>2. Accounts'
        BY <1>0, <2>0, <2>2 DEF Accounts, Early, Copying
      <3>3. Truth'
        BY <1>0, <2>0, <2>2 DEF Truth
      <3> QED
        BY <3>1, <3>2, <3>3 DEF Written
    <2>3. CASE err.tags = {"gone"} /\ pc' = "served" /\ resp' = resp
      <3>0. Gone
        BY <2>0, <2>3 DEF Truth
      <3>1. Commits'
        BY <1>0, <2>0, <2>3 DEF Commits, Untouched, EnvelopeAlone, Early, Copying, Running
      <3>2. Accounts'
        BY <1>0, <2>0, <2>3 DEF Accounts, Early, Copying
      <3>3. Truth'
        BY <1>0, <2>0, <2>3, <3>0 DEF Truth, Gone
      <3> QED
        BY <3>1, <3>2, <3>3 DEF Written
    <2> QED
      BY <1>2, <2>1, <2>2, <2>3 DEF Fail
  <1>3. CASE Panic
    <2>1. /\ pc' = "unwinding" /\ UNCHANGED <<resp, err>>
          /\ pc \notin {"ret", "served", "aborting", "over"}
      BY <1>3 DEF Panic
    <2>2. Commits'
      BY <1>0, <2>1 DEF Commits, Untouched, EnvelopeAlone, Early, Copying, Running
    <2>3. Accounts'
      BY <1>0, <2>1 DEF Accounts, Early, Copying
    <2>4. Truth'
      BY <2>1 DEF Truth
    <2> QED
      BY <2>2, <2>3, <2>4 DEF Written
  <1>4. CASE Recover
    <2>0. pc = "unwinding" /\ pc' = "served" /\ UNCHANGED <<err, run>> /\ run.panicked
      BY <1>4 DEF Recover, Places
    <2>1. CASE Wrote
      <3>0. resp' = resp
        BY <1>4, <2>1 DEF Recover
      <3>1. Commits'
        BY <1>0, <2>0, <3>0 DEF Commits, Untouched, EnvelopeAlone, Early, Copying, Running
      <3>2. Accounts'
        BY <1>0, <2>0 DEF Accounts, Early, Copying
      <3>3. Truth'
        BY <2>0, <3>0 DEF Truth
      <3> QED
        BY <3>1, <3>2, <3>3 DEF Written
    <2>2. CASE ~Wrote
      <3>1. Untouched /\ Envelope("500") /\ "500" \in Failures
        BY <1>4, <2>2 DEF Recover, Wrote, Untouched, Commits, Failures
      <3> QED
        BY <1>0, <2>0, <3>1, WrittenEnvelope
    <2> QED
      BY <2>1, <2>2
  <1>5. CASE Observe
    <2>1. /\ pc \in {"served", "aborting"} /\ pc' = "over" /\ UNCHANGED <<err, run>>
          /\ resp'.status = resp.status /\ resp'.body = resp.body
          /\ resp'.end = IF pc = "aborting" THEN "cut" ELSE "clean"
      BY <1>5 DEF Observe, codexVars, Typed, Responses
    <2>2. resp.end = "open"
      BY <2>1 DEF Truth
    <2>3. Commits'
      BY <1>0, <2>1 DEF Commits, Untouched, EnvelopeAlone, Early, Copying, Running
    <2>4. Accounts'
      BY <1>0, <2>1 DEF Accounts, Early, Copying
    <2>5. Truth'
      BY <1>0, <2>1, <2>2 DEF Truth, Honest, Verbatim, RelayedWhole, Holds
    <2> QED
      BY <2>3, <2>4, <2>5 DEF Written
  <1> QED
    BY <1>1, <1>2, <1>3, <1>4, <1>5

\* Every step keeps what was written in order.
LEMMA WrittenNext == ASSUME ExchangeInv, Next PROVE Written'
  <1>0. Typed'
    BY TypedNext
  <1> USE <1>0 DEF vars, sinkVars, codexVars, relayVars, runOnly
  <1>1. CASE Refuse \/ Unroutable
    <2>1. PICK s \in Failures : Envelope(s)
      BY <1>1 DEF Refuse, Unroutable, Failures
    <2>2. Untouched
      BY <1>1 DEF Refuse, Unroutable, ExchangeInv, Commits, Early
    <2>3. pc = "front" /\ pc' = "served" /\ UNCHANGED <<route, client, up, got>>
      BY <1>1 DEF Refuse, Unroutable
    <2> QED
      BY <2>1, <2>2, <2>3, WrittenEnvelope
  <1>2. CASE Dispatch \/ RelayDo \/ LogTransport \/ RoundTrip \/ (CodexRejected /\ pc' = "retry")
    BY <1>2, WrittenEarly DEF Dispatch, RelayDo, LogTransport, RoundTrip, CodexRejected, Early, Render, Return
  <1>3. CASE LegRefuses \/ CountTokens \/ RelayDoFails \/ CodexRefused \/ CodexUnreached
             \/ (CodexRejected /\ pc' # "retry")
    <2>1. pc' = "ret"
      BY <1>3 DEF LegRefuses, CountTokens, RelayDoFails, CodexRefused, CodexUnreached, CodexRejected,
         Render, Return
    <2> QED
      BY <1>3, <2>1, WrittenRefused
  <1>4. CASE RelayAnswered \/ CopyRead \/ Rearm \/ CopyWrite \/ CopyWriteFails \/ CopyEnds
             \/ StreamEnds \/ JsonEnds \/ CopyFails
    BY <1>4, WrittenAnswered, WrittenRead, WrittenCopied, WrittenLoopEnds
  <1>5. CASE CodexOpened \/ RunFrame \/ Handled \/ CloseCancel \/ CloseBody \/ Join
    <2>1. UNCHANGED <<route, client, resp, err, got, run>>
      BY <1>5 DEF CodexOpened, RunFrame, Handled, CloseCancel, CloseBody, Join
    <2>2. /\ pc \in {"do"} \cup Running /\ pc' \in Running /\ route \in Codex
          /\ pc' \in {"close", "closing", "join", "ran"} => pc \in {"close", "closing", "join"}
      BY <1>5 DEF CodexOpened, RunFrame, Handled, CloseCancel, CloseBody, Join, ExchangeInv, Places,
         Running
    <2>3. up' = up \/ (up.state = "closed" /\ up'.state = "open")
      BY <1>5 DEF CodexOpened, RunFrame, Handled, CloseCancel, CloseBody, Join, ExchangeInv, Accounts,
         Early, Typed, Upstreams
    <2> QED
      BY <2>1, <2>2, <2>3, WrittenRuns
  <1>6. CASE Emit \/ EmitClose \/ Heartbeat \/ Terminus
    BY <1>6, WrittenCalls
  <1>7. CASE HandleFails \/ EmitFails \/ RunInterrupted \/ RunEnds \/ RunIdle
    <2>1. CASE EmitFails
      <3>1. /\ pc \in {"run", "handle"} /\ pc' = "close" /\ UNCHANGED <<route, client, up, got>>
            /\ run'.ret # "nil" /\ route = "codex_stream"
        BY <2>1 DEF EmitFails, GiveUp, ExchangeInv, Typed, Runs
      <3>2. resp'.body = resp.body /\ resp'.end = resp.end /\ resp'.status = "200"
        BY <2>1 DEF EmitFails, ExchangeInv, Typed, Responses
      <3> QED
        BY <3>1, <3>2, WrittenGivesUp
    <2>2. CASE HandleFails \/ RunInterrupted \/ ((RunEnds \/ RunIdle) /\ phase = "before")
      <3>1. /\ pc \in {"run", "handle"} /\ pc' = "close" /\ UNCHANGED <<route, client, up, got, resp>>
            /\ run'.ret # "nil"
        BY <2>2 DEF HandleFails, RunInterrupted, RunEnds, RunIdle, HandleEnd, GiveUp, ExchangeInv,
           Typed, Runs
      <3> QED
        BY <3>1, WrittenGivesUp
    <2>3. CASE (RunEnds \/ RunIdle) /\ phase # "before"
      <3>1. /\ pc = "run" /\ pc' = "handle" /\ UNCHANGED <<route, client, resp, err, got, up>>
            /\ run'.ret = run.ret /\ route \in Codex
        BY <2>3 DEF RunEnds, RunIdle, HandleEnd, ExchangeInv, Typed, Runs, Places, Running
      <3> QED
        BY <3>1, WrittenRuns DEF Running
    <2> QED
      BY <1>7, <2>1, <2>2, <2>3
  <1>8. CASE StreamServed \/ AggregateServed
    BY <1>8, WrittenServed
  <1>9. CASE Returned \/ Fail \/ Panic \/ Recover \/ Observe
    BY <1>9, WrittenOut
  <1>10. CASE UpSends \/ UpEnds \/ ReadFrame
    BY <1>10, WrittenUpstream DEF ExchangeInv
  <1>11. CASE ReadLock \/ ReadStart \/ ReadEnds \/ ReadQuits \/ ReadReset \/ IdleTrips
              \/ IdleCancels \/ SeedCounted \/ OtherGate \/ HangUp \/ Over
    <2>1. UNCHANGED <<route, pc, resp, err, got, up>> /\ (client' = client \/ client' = "gone")
      BY <1>11 DEF ReadLock, ReadStart, ReadEnds, ReadQuits, ReadReset, IdleTrips, IdleCancels,
         SeedCounted, OtherGate, HangUp, Over
    <2>2. run'.ret = run.ret /\ run'.panicked = run.panicked
      BY <1>11 DEF ReadLock, ReadStart, ReadEnds, ReadQuits, ReadReset, IdleTrips, IdleCancels,
         SeedCounted, OtherGate, HangUp, Over, ExchangeInv, Typed, Runs
    <2> QED
      BY <2>1, <2>2, WrittenStays
  <1> QED
    BY <1>1, <1>2, <1>3, <1>4, <1>5, <1>6, <1>7, <1>8, <1>9, <1>10, <1>11
       DEF Next, Handler, Reader, Environment

-----------------------------------------------------------------------------
(* The theorems.                                                           *)

LEMMA InvInit == Init => ExchangeInv
  <1> SUFFICES ASSUME Init PROVE ExchangeInv
    OBVIOUS
  <1>1. Typed
    BY DEF Init, Typed, Responses, Errors, Upstreams, Guards, Gots, Bodies, Runs, Statuses, NoErr,
       Frames, Causes, Returns
  <1>2. Places /\ Mutex
    BY DEF Init, Places, Mutex, BodyClosedAlone, Copying, Running
  <1>3. Commits
    BY DEF Init, Commits, Untouched, Copying, Running, EnvelopeAlone
  <1>4. Accounts /\ Truth
    BY DEF Init, Accounts, Truth, Copying
  <1> QED
    BY <1>1, <1>2, <1>3, <1>4 DEF ExchangeInv

LEMMA InvNext == ExchangeInv /\ [Next]_vars => ExchangeInv'
  <1>1. ASSUME ExchangeInv, Next PROVE ExchangeInv'
    BY <1>1, TypedNext, PlacesNext, MutexNext, WrittenNext DEF ExchangeInv, Written
  <1>2. ASSUME ExchangeInv, UNCHANGED vars PROVE ExchangeInv'
    <2>1. Typed' /\ Places' /\ Mutex'
      BY <1>2 DEF ExchangeInv, vars, Typed, Places, Mutex, BodyClosedAlone, Http1
    <2>2. Written'
      BY <1>2, <2>1, WrittenStays DEF vars
    <2> QED
      BY <2>1, <2>2 DEF ExchangeInv, Written
  <1> QED
    BY <1>1, <1>2

LEMMA InvAlways == Spec => []ExchangeInv
  BY InvInit, InvNext, PTL DEF Spec

\* An envelope is never rendered over bytes already committed, whatever the leg
\* had written when it failed, when the caller left or when it panicked.
THEOREM EnvelopeAlwaysAlone == Spec => []EnvelopeAlone
  <1>1. ExchangeInv => EnvelopeAlone
    BY DEF ExchangeInv, Commits
  <1> QED
    BY <1>1, InvAlways, PTL

\* On HTTP/1 the body is never closed under a Read, nor read once closed.
THEOREM BodyAlwaysClosedAlone == Spec => []BodyClosedAlone
  <1>1. ExchangeInv => BodyClosedAlone
    BY DEF ExchangeInv, Mutex
  <1> QED
    BY <1>1, InvAlways, PTL

\* When Run has returned its reader is gone, and no idle timer is left armed.
THEOREM NothingEverOutlives == Spec => []NothingOutlives
  <1>1. ExchangeInv => NothingOutlives
    BY DEF ExchangeInv, Places, NothingOutlives, Settled, Copying
  <1> QED
    BY <1>1, InvAlways, PTL

\* A response that ends cleanly for a caller still there says the truth.
THEOREM EndsHonestly == Spec => []HonestEnd
  <1>1. ExchangeInv => HonestEnd
    <2> SUFFICES ASSUME ExchangeInv, resp.end = "clean", client = "here", ~run.panicked
                 PROVE  HonestEnd
      BY DEF HonestEnd
    <2>1. pc = "over"
      BY DEF ExchangeInv, Truth
    <2>2. Honest
      BY <2>1 DEF ExchangeInv, Truth
    <2> QED
      BY <2>2 DEF Honest, HonestEnd
  <1> QED
    BY <1>1, InvAlways, PTL

-----------------------------------------------------------------------------
(***************************************************************************)
(* The idle exit cuts no answer, for every set of clients and pollers and  *)
(* every timeout (IdleDrain).  NoThirdCase is not inductive: that the      *)
(* timer fires only when nobody is served follows from inflight = 0 only   *)
(* while inflight counts the requests inside the middleware.               *)
(***************************************************************************)

\* After exit every connection of the process is closed, so the next daemon
\* starts with nobody inside its middleware.
GoneAfterExit == main = "exited" => \A r \in All : rq[r] \notin Live

IdleInv == IdleTypes /\ HoldsBalanced /\ GoneAfterExit /\ NoThirdCase

\* The set inflight counts is finite, and so its size is a number.
LEMMA MiddlewareFinite ==
    IsFiniteSet(InMiddleware) /\ Cardinality(InMiddleware) \in Nat
  BY FS_Subset, FS_CardinalityType, RequestsAssumption DEF InMiddleware

\* The inductive invariant holds when the process starts.
LEMMA InitIdleInv == IdleInit => IdleInv
  <1> SUFFICES ASSUME IdleInit PROVE IdleInv
    OBVIOUS
  <1>1. InMiddleware = {}
    BY DEF IdleInit, InMiddleware, Holding, All
  <1>2. Cardinality(InMiddleware) = 0
    BY <1>1, FS_EmptySet
  <1>3. IdleTypes
    <2>1. age \in 0..Timeout /\ due \in -1..Timeout /\ inflight \in Nat
      BY TimeoutAssumption DEF IdleInit, Off
    <2>2. rq \in [All -> Stages]
      BY DEF IdleInit, Stages
    <2> QED
      BY <2>1, <2>2, Zenon DEF IdleInit, IdleTypes
  <1>4. HoldsBalanced /\ GoneAfterExit
    BY <1>2 DEF IdleInit, HoldsBalanced, GoneAfterExit
  <1>5. NoThirdCase
    BY DEF IdleInit, NoThirdCase, All
  <1> QED
    BY <1>3, <1>4, <1>5 DEF IdleInv

\* A step that leaves every counted request in or out of the middleware as it
\* was leaves the count.
LEMMA SameMiddleware ==
    ASSUME \A r \in Requests : rq'[r] \in Holding <=> rq[r] \in Holding
    PROVE  InMiddleware' = InMiddleware
  BY DEF InMiddleware

\* Entering adds one to the count, leaving takes one away.
LEMMA EnterMiddleware ==
    ASSUME NEW r \in Requests, IdleTypes, rq[r] \notin Holding,
           NEW s \in Holding, rq' = [rq EXCEPT ![r] = s]
    PROVE  Cardinality(InMiddleware') = Cardinality(InMiddleware) + 1
  <1>1. InMiddleware' = InMiddleware \cup {r} /\ r \notin InMiddleware
    BY DEF InMiddleware, IdleTypes, All
  <1> QED
    BY <1>1, MiddlewareFinite, FS_AddElement

\* A request leaving withActivity takes exactly its own hold with it.
LEMMA LeaveMiddleware ==
    ASSUME NEW r \in Requests, IdleTypes, rq[r] \in Holding,
           NEW s \in Stages \ Holding, rq' = [rq EXCEPT ![r] = s]
    PROVE  /\ Cardinality(InMiddleware) > 0
           /\ Cardinality(InMiddleware') = Cardinality(InMiddleware) - 1
  <1>1. InMiddleware' = InMiddleware \ {r} /\ r \in InMiddleware
    BY DEF InMiddleware, IdleTypes, All
  <1>2. Cardinality(InMiddleware') = Cardinality(InMiddleware) - 1
    BY <1>1, MiddlewareFinite, FS_RemoveElement
  <1>3. Cardinality(InMiddleware) # 0
    BY <1>1, MiddlewareFinite, FS_EmptySet
  <1> QED
    BY <1>2, <1>3, MiddlewareFinite

\* Every step of the timer, the middleware and the drain preserves IdleInv.
LEMMA NextIdleInv == IdleInv /\ [IdleNext]_idleVars => IdleInv'
  <1> SUFFICES ASSUME IdleInv, [IdleNext]_idleVars PROVE IdleInv'
    OBVIOUS
  <1> USE TimeoutAssumption DEF IdleInv
  <1>1. CASE Start
    <2>1. InMiddleware' = InMiddleware
      BY <1>1 DEF Start, InMiddleware
    <2> QED
      BY <1>1, <2>1 DEF Start, IdleTypes, HoldsBalanced, GoneAfterExit, NoThirdCase
  <1>2. CASE Tick
    <2>1. InMiddleware' = InMiddleware
      BY <1>2 DEF Tick, InMiddleware
    <2> QED
      BY <1>2, <2>1 DEF Tick, IdleTypes, HoldsBalanced, GoneAfterExit, NoThirdCase
  <1>3. CASE Expire
    <2>1. InMiddleware' = InMiddleware
      BY <1>3 DEF Expire, InMiddleware
    <2>2. IdleTypes'
      <3>1. due' \in -1..Timeout
        BY <1>3 DEF Expire, IdleTypes, Off
      <3>2. fired' \in BOOLEAN /\ cbPending' \in BOOLEAN
        BY <1>3 DEF Expire, IdleTypes
      <3> QED
        BY <1>3, <3>1, <3>2 DEF Expire, IdleTypes
    <2>3. HoldsBalanced' /\ GoneAfterExit'
      BY <1>3, <2>1 DEF Expire, HoldsBalanced, GoneAfterExit
    <2>4. NoThirdCase'
      <3>1. CASE fired
        <4>1. rq' = rq
          BY <1>3 DEF Expire
        <4> QED
          BY <3>1, <4>1 DEF NoThirdCase
      <3>2. CASE ~fired /\ fired'
        <4>1. inflight = 0
          <5>1. ~(inflight > 0)
            BY <1>3, <3>2, Zenon DEF Expire
          <5> QED
            BY <5>1 DEF IdleTypes
        <4>2. InMiddleware = {}
          BY <1>3, <4>1, MiddlewareFinite, FS_EmptySet DEF Expire, HoldsBalanced
        <4> QED
          BY <1>3, <4>2 DEF Expire, NoThirdCase, InMiddleware, Holding
      <3>3. CASE ~fired'
        BY <3>3 DEF NoThirdCase
      <3> QED
        BY <3>1, <3>2, <3>3
    <2> QED
      BY <2>2, <2>3, <2>4
  <1>4. CASE OnIdle
    <2>1. InMiddleware' = InMiddleware
      BY <1>4 DEF OnIdle, InMiddleware
    <2> QED
      BY <1>4, <2>1 DEF OnIdle, IdleTypes, HoldsBalanced, GoneAfterExit, NoThirdCase
  <1>5. CASE Signal
    <2>1. InMiddleware' = InMiddleware
      BY <1>5 DEF Signal, InMiddleware
    <2> QED
      BY <1>5, <2>1 DEF Signal, timerVars, IdleTypes, HoldsBalanced, GoneAfterExit, NoThirdCase
  <1>6. CASE ContextDone \/ ListenerStops
    <2>1. InMiddleware' = InMiddleware
      BY <1>6 DEF ContextDone, ListenerStops, BeginDrain, InMiddleware
    <2> QED
      BY <1>6, <2>1 DEF ContextDone, ListenerStops, BeginDrain, timerVars, IdleTypes,
         HoldsBalanced, GoneAfterExit, NoThirdCase
  <1>7. CASE DrainDone \/ DrainForced
    <2>1. Exit
      BY <1>7 DEF DrainDone, DrainForced
    <2> QED
      <3>1. IdleTypes'
        BY <2>1 DEF Exit, Off, IdleTypes, Stages
      <3>2. HoldsBalanced' /\ GoneAfterExit'
        BY <2>1 DEF Exit, HoldsBalanced, GoneAfterExit, Live
      <3>3. NoThirdCase'
        BY <2>1 DEF Exit, NoThirdCase, Live, All
      <3> QED
        BY <3>1, <3>2, <3>3
  <1>8. CASE Activate
    <2>1. InMiddleware' = {}
      BY <1>8 DEF Activate, GoneAfterExit, InMiddleware, Holding, Live, All
    <2>2. Cardinality(InMiddleware') = 0
      BY <2>1, FS_EmptySet
    <2>3. IdleTypes'
      <3>1. age' \in 0..Timeout /\ due' \in -1..Timeout /\ inflight' \in Nat
        BY <1>8 DEF Activate, Off
      <3> QED
        BY <1>8, <3>1, Zenon DEF Activate, IdleTypes
    <2> QED
      BY <1>8, <2>2, <2>3 DEF Activate, HoldsBalanced, GoneAfterExit, NoThirdCase
  <1>9. ASSUME NEW r \in All, Connect(r) PROVE IdleInv'
    <2>1. InMiddleware' = InMiddleware
      BY <1>9, SameMiddleware DEF Connect, IdleTypes, Holding, All
    <2> QED
      BY <1>9, <2>1 DEF Connect, timerVars, IdleTypes, HoldsBalanced, GoneAfterExit, NoThirdCase,
         Stages, Live, All
  <1>10. ASSUME NEW r \in All, Accept(r) PROVE IdleInv'
    <2>1. InMiddleware' = InMiddleware
      BY <1>10, SameMiddleware DEF Accept, IdleTypes, Holding, All
    <2> QED
      BY <1>10, <2>1 DEF Accept, timerVars, IdleTypes, HoldsBalanced, GoneAfterExit, NoThirdCase,
         Stages, Live, All
  <1>11. ASSUME NEW r \in All, ActivityEnter(r) PROVE IdleInv'
    <2>1. IdleTypes' /\ GoneAfterExit' /\ NoThirdCase'
      BY <1>11, RequestsAssumption DEF ActivityEnter, Hold, IdleTypes, GoneAfterExit, NoThirdCase, Stages, Live, All
    <2>2. HoldsBalanced'
      <3>1. CASE r \in Polls
        <4>1. InMiddleware' = InMiddleware
          BY <1>11, <3>1, SameMiddleware, RequestsAssumption DEF ActivityEnter, IdleTypes, All
        <4> QED
          BY <1>11, <3>1, <4>1 DEF ActivityEnter, HoldsBalanced
      <3>2. CASE r \notin Polls
        <4>1. Cardinality(InMiddleware') = Cardinality(InMiddleware) + 1
          BY <1>11, <3>2, EnterMiddleware DEF ActivityEnter, Holding, All
        <4> QED
          BY <1>11, <3>2, <4>1 DEF ActivityEnter, Hold, HoldsBalanced
      <3> QED
        BY <3>1, <3>2
    <2> QED
      BY <2>1, <2>2
  <1>12. ASSUME NEW r \in All, ActivityCheck(r) PROVE IdleInv'
    <2>1. InMiddleware' = InMiddleware
      BY <1>12, SameMiddleware DEF ActivityCheck, IdleTypes, Holding, All
    <2> QED
      BY <1>12, <2>1 DEF ActivityCheck, timerVars, IdleTypes, HoldsBalanced, GoneAfterExit, NoThirdCase,
         Stages, Live, All
  <1>13. ASSUME NEW r \in All, Finish(r) PROVE IdleInv'
    <2>1. IdleTypes' /\ GoneAfterExit' /\ NoThirdCase'
      BY <1>13 DEF Finish, Release, IdleTypes, GoneAfterExit, NoThirdCase, Stages, Live, All
    <2>2. HoldsBalanced'
      <3>1. CASE r \in Polls
        <4>1. InMiddleware' = InMiddleware
          BY <1>13, <3>1, SameMiddleware, RequestsAssumption DEF Finish, IdleTypes, All
        <4> QED
          BY <1>13, <3>1, <4>1 DEF Finish, HoldsBalanced
      <3>2. CASE r \notin Polls
        <4>1. /\ Cardinality(InMiddleware) > 0
              /\ Cardinality(InMiddleware') = Cardinality(InMiddleware) - 1
          BY <1>13, <3>2, LeaveMiddleware DEF Finish, Holding, Stages, All
        <4> QED
          BY <1>13, <3>2, <4>1 DEF Finish, Release, HoldsBalanced
      <3> QED
        BY <3>1, <3>2
    <2> QED
      BY <2>1, <2>2
  <1>14. CASE UNCHANGED idleVars
    <2>1. InMiddleware' = InMiddleware
      BY <1>14 DEF idleVars, InMiddleware
    <2> QED
      BY <1>14, <2>1 DEF idleVars, timerVars, IdleTypes, HoldsBalanced, GoneAfterExit, NoThirdCase
  <1> QED
    BY <1>1, <1>2, <1>3, <1>4, <1>5, <1>6, <1>7, <1>8, <1>9, <1>10, <1>11, <1>12, <1>13, <1>14
       DEF IdleNext

\* The strengthened invariant holds in every state of every behaviour.
THEOREM IdleInvariant == IdleSpec => []IdleInv
  BY InitIdleInv, NextIdleInv, PTL DEF IdleSpec

\* The timer's and the middleware's variables keep their types: inflight never
\* goes below zero and the timer is never armed for longer than the timeout.
THEOREM IdleTypeOK == IdleSpec => []IdleTypes
  BY IdleInvariant, PTL DEF IdleInv

\* withActivity's "There is no third case": no counted request is ever inside
\* its handler once the timer has fired.
THEOREM IdleNoThirdCase == IdleSpec => []NoThirdCase
  BY IdleInvariant, PTL DEF IdleInv

\* Hold and release stay paired on every path of withActivity.
THEOREM IdleHoldsBalanced == IdleSpec => []HoldsBalanced
  BY IdleInvariant, PTL DEF IdleInv
=============================================================================
