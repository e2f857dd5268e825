------------------------------ MODULE Exchange ------------------------------
(***************************************************************************)
(* The life of one HTTP request: the middleware (server/middleware.go), the *)
(* dispatcher (cmd/utraque/main.go), the three legs (anthropic, codex/leg,  *)
(* deepseek), the relay's idle guard (relay/relay.go), the Codex responses  *)
(* client with its self-closing body (codex/responses) and the transport    *)
(* that switches stacks (transport/auto.go).                                *)
(*                                                                         *)
(* The handler goroutine, the scanner goroutine of Translator.Run, the     *)
(* timers, the caller and the upstream interleave.  What the translator    *)
(* says to its sink is SinkProtocol, which StreamTranslator implements; an *)
(* upstream's answer is a number of pieces, of which only what the code    *)
(* looks at is kept.                                                       *)
(***************************************************************************)
EXTENDS Integers, Sequences

CONSTANTS
    MaxChunks,   \* pieces the upstream's body may come in
    MaxCalls     \* calls the translator may make to open, fill or keep alive

ASSUME BoundsAssumption == MaxChunks \in Nat /\ MaxCalls \in Nat

VARIABLES
    route,    \* which handler serves the request
    proto,    \* resp.ProtoMajor of the upstream's answer
    client,   \* "here" until the caller hangs up, which cancels r.Context()
    pc,       \* where the handler goroutine is
    resp,     \* the response: status, pieces of its body, how it ended
    err,      \* what the leg returned: sentinels, and the status to render
    sum,      \* obs.Summary: was it interrupted, was it a failure
    up,       \* the upstream: how its body stands, pieces in flight and sent
    guard,    \* relay.UpstreamIdleGuard
    got,      \* what forward's loop holds and has seen
    body,     \* responses.streamBody
    reader,   \* Run's scanner goroutine
    auto,     \* autoTransport, and the stack this request logged and used
    run,      \* Translator.Run: how the body ended, what it returns; the seed
    agg,      \* stream.Aggregator
    call, phase, block, next   \* what the translator has told its sink

sinkVars == <<call, phase, block, next>>
codexVars == <<body, reader, run, agg, sinkVars>>
relayVars == <<guard, got>>
vars == <<route, proto, client, pc, resp, err, sum, up, guard, got, body,
          reader, auto, run, agg, sinkVars>>

Sink == INSTANCE SinkProtocol
            WITH call <- call, phase <- phase, block <- block, next <- next

Codex == {"codex_stream", "codex_json"}
DeepSeek == {"deepseek_stream", "deepseek_json"}
Relays == {"relay", "catchall"}
\* "count" is count_tokens of the Codex and DeepSeek legs, answered locally.
Routes == Codex \cup DeepSeek \cup Relays \cup {"count"}

\* What a piece of the upstream's body may be: DeepSeek's frames are looked at.
Chunks == CASE route = "deepseek_stream" -> {"start", "delta", "stop", "error", "junk"}
            [] OTHER -> {"bytes"}

NoErr == [tags |-> {}, status |-> "none"]
Api(status) == [tags |-> {"api"}, status |-> status]
Tagged(tags) == [tags |-> tags, status |-> "none"]

Gone == client = "gone"
Wrote == resp.status # "none"

Init ==
    /\ route \in Routes
    /\ proto \in IF route \in Codex THEN {1, 2} ELSE {1}
    /\ client = "here"
    /\ pc = "front"
    /\ resp = [status |-> "none", body |-> <<>>, end |-> "open"]
    /\ err = NoErr
    /\ sum = [interrupted |-> FALSE, err |-> FALSE]
    /\ up = [state |-> "closed", inbox |-> <<>>, sent |-> 0]
    /\ guard = [armed |-> FALSE, tripped |-> FALSE, cancelled |-> FALSE]
    /\ got = [chunk |-> "none", saw |-> {}]
    /\ body = [mu |-> "free", closed |-> FALSE, cancelled |-> FALSE]
    /\ reader = "none"
    /\ auto = [flipped |-> FALSE, logged |-> "none", carried |-> "none", attempts |-> 0]
    /\ run = [ending |-> "no", cause |-> "none", ret |-> "nil", calls |-> 0,
              seeded |-> FALSE, panicked |-> FALSE]
    /\ agg = [started |-> FALSE, open |-> FALSE, stopped |-> FALSE, failed |-> FALSE]
    /\ Sink!Init

-----------------------------------------------------------------------------
(* The response: apierr.Render, the recorder and net/http.                 *)

\* WriteHeader, then the envelope.  A second WriteHeader is ignored by
\* net/http; the bytes are appended all the same.
Envelope(status) ==
    resp' = [resp EXCEPT !.status = IF @ = "none" THEN status ELSE @,
                         !.body = Append(@, "envelope")]

\* A status and its whole JSON body in one go.
Whole(status) ==
    resp' = [resp EXCEPT !.status = status, !.body = Append(@, "message")]

\* The leg returned err; the dispatcher or ServeHTTP has it next.
Return(e) == err' = e /\ pc' = "ret"

-----------------------------------------------------------------------------
(* The front door: withBodyLimit, withAuth, ReadBody, the peek, Resolve.   *)

\* withBodyLimit and withAuth refuse with an envelope of their own.
Refuse ==
    /\ pc = "front"
    /\ \E status \in {"400", "401", "413"} : Envelope(status)
    /\ pc' = "served"
    /\ UNCHANGED <<route, proto, client, err, sum, up, auto, relayVars, codexVars>>

\* The body cannot be read, has no model, or names one that does not resolve, or
\* its leg is not configured.
Unroutable ==
    /\ pc = "front"
    /\ \E status \in {"400", "404", "413", "500", "503"} : Envelope(status)
    /\ pc' = "served"
    /\ UNCHANGED <<route, proto, client, err, sum, up, auto, relayVars, codexVars>>

Dispatch ==
    /\ pc = "front"
    /\ pc' = "leg"
    /\ UNCHANGED <<route, proto, client, resp, err, sum, up, auto, relayVars, codexVars>>

\* A body that does not parse, does not translate, has no credential, or
\* cannot be built into a request: the leg returns before it calls anyone.
LegRefuses ==
    /\ pc = "leg"
    /\ \E status \in {"400", "401", "413", "503"} : Return(Api(status))
    /\ UNCHANGED <<route, proto, client, resp, sum, up, auto, relayVars, codexVars>>

\* CountTokens: counted locally, written whole.
CountTokens ==
    /\ pc = "leg" /\ route = "count"
    /\ Whole("200") /\ Return(NoErr)
    /\ UNCHANGED <<route, proto, client, sum, up, auto, relayVars, codexVars>>

-----------------------------------------------------------------------------
(* The Anthropic and DeepSeek legs: forward, under relay's idle guard.     *)

\* WithUpstreamIdleDeadline, then Client.Do.
RelayDo ==
    /\ pc = "leg" /\ route \in Relays \cup DeepSeek
    /\ guard' = [guard EXCEPT !.armed = TRUE]
    /\ pc' = "do"
    /\ UNCHANGED <<route, proto, client, resp, err, sum, up, got, auto, codexVars>>

\* The timer's function: tripped is stored, then the context is cancelled.
IdleTrips ==
    /\ guard.armed
    /\ guard' = [guard EXCEPT !.armed = FALSE, !.tripped = TRUE]
    /\ UNCHANGED <<route, proto, client, pc, resp, err, sum, up, got, auto, codexVars>>

IdleCancels ==
    /\ guard.tripped /\ ~guard.cancelled
    /\ guard' = [guard EXCEPT !.cancelled = TRUE]
    /\ UNCHANGED <<route, proto, client, pc, resp, err, sum, up, got, auto, codexVars>>

\* relay.UpstreamError: an idle expiry, or any timeout, is a 504.
UpstreamError(timeout) == Api(IF guard.tripped \/ timeout THEN "504" ELSE "502")

\* Do fails: the caller left, the guard or the transport gave up, the network.
RelayDoFails ==
    /\ pc = "do" /\ route \in Relays \cup DeepSeek
    /\ \E timeout \in BOOLEAN :
          Return(IF Gone THEN Tagged({"gone"}) ELSE UpstreamError(timeout))
    /\ UNCHANGED <<route, proto, client, resp, sum, up, auto, relayVars, codexVars>>

\* The passthrough commits the upstream's status whatever it is.  DeepSeek
\* first refuses an encoding, a redirect or a non-stream; an error status it
\* relays like the passthrough; a JSON answer it holds back.
RelayAnswered ==
    /\ pc = "do" /\ route \in Relays \cup DeepSeek /\ ~guard.cancelled /\ ~Gone
    /\ up' = [up EXCEPT !.state = "open"]
    /\ \/ /\ route # "deepseek_json"
          /\ resp' = [resp EXCEPT !.status = "200"]
          /\ pc' = "copy" /\ UNCHANGED <<got, err>>
       \/ /\ route \in DeepSeek
          /\ resp' = [resp EXCEPT !.status = "upstream"]
          /\ got' = [got EXCEPT !.saw = @ \cup {"verbatim"}]
          /\ pc' = "copy" /\ UNCHANGED err
       \/ /\ route = "deepseek_json"
          /\ pc' = "copy" /\ UNCHANGED <<resp, got, err>>
       \/ /\ route \in DeepSeek
          /\ Return(Api("502")) /\ UNCHANGED <<resp, got>>
    /\ UNCHANGED <<route, proto, client, sum, guard, auto, codexVars>>

\* IdleResetReader.Read: bytes came; the countdown is re-armed unless it has
\* tripped, which is looked at first and acted on after.
CopyRead ==
    /\ pc = "copy" /\ up.inbox # <<>>
    /\ got' = [got EXCEPT !.chunk = Head(up.inbox)]
    /\ up' = [up EXCEPT !.inbox = Tail(@)]
    /\ pc' = IF guard.tripped THEN "write" ELSE "rearm"
    /\ UNCHANGED <<route, proto, client, resp, err, sum, guard, auto, codexVars>>

Rearm ==
    /\ pc = "rearm"
    /\ guard' = [guard EXCEPT !.armed = TRUE]
    /\ pc' = "write"
    /\ UNCHANGED <<route, proto, client, resp, err, sum, up, got, auto, codexVars>>

Verbatim == route \in Relays \/ "verbatim" \in got.saw

\* The piece goes to the client, or joins what jsonResponse collects.
CopyWrite ==
    /\ pc = "write" /\ (Verbatim \/ got.chunk # "junk")
    /\ resp' = IF route = "deepseek_json" /\ ~Verbatim THEN resp
               ELSE [resp EXCEPT !.body = Append(@, got.chunk)]
    /\ got' = IF Verbatim THEN got ELSE [got EXCEPT !.saw = @ \cup {got.chunk}]
    /\ pc' = "copy"
    /\ UNCHANGED <<route, proto, client, err, sum, up, guard, auto, codexVars>>

\* A write to a caller that left, or a frame that does not decode.
CopyWriteFails ==
    /\ pc = "write"
    /\ \/ Gone /\ (route # "deepseek_json" \/ Verbatim)
       \/ got.chunk = "junk" /\ ~Verbatim
    /\ Return(Tagged(IF Gone /\ Verbatim THEN {"started", "gone"} ELSE {"started"}))
    /\ UNCHANGED <<route, proto, client, resp, sum, up, auto, relayVars, codexVars>>

AtEnd == pc = "copy" /\ up.state = "eof" /\ up.inbox = <<>>

\* The upstream's body ended.
CopyEnds ==
    /\ AtEnd /\ Verbatim
    /\ Return(NoErr)
    /\ UNCHANGED <<route, proto, client, resp, sum, up, auto, relayVars, codexVars>>

\* A DeepSeek stream must have carried a terminal event, and a start unless
\* that event was an error.
StreamEnds ==
    /\ AtEnd /\ ~Verbatim /\ route = "deepseek_stream"
    /\ Return(IF "error" \in got.saw \/ {"start", "stop"} \subseteq got.saw
              THEN NoErr ELSE Tagged({"started"}))
    /\ UNCHANGED <<route, proto, client, resp, sum, up, auto, relayVars, codexVars>>

\* A DeepSeek answer must decode and is written whole.
JsonEnds ==
    /\ AtEnd /\ ~Verbatim /\ route = "deepseek_json"
    /\ \/ Return(Api("502")) /\ UNCHANGED resp
       \/ Whole("200") /\ Return(NoErr)
       \/ Gone /\ Whole("200") /\ Return(Tagged({"started"}))
    /\ UNCHANGED <<route, proto, client, sum, up, auto, relayVars, codexVars>>

\* A Read fails: the connection broke, or one of the contexts was cancelled.
CopyFails ==
    /\ pc = "copy"
    /\ (up.state = "broken" /\ up.inbox = <<>>) \/ guard.cancelled \/ Gone
    /\ Return(IF route = "deepseek_json" /\ ~Verbatim
              THEN IF Gone THEN Tagged({"gone"}) ELSE UpstreamError(FALSE)
              ELSE Tagged(IF Gone THEN {"started", "gone"} ELSE {"started"}))
    /\ UNCHANGED <<route, proto, client, resp, sum, up, auto, relayVars, codexVars>>

\* defer idle.Stop(), as forward returns.
IdleStop ==
    IF route \in Relays \cup DeepSeek
    THEN guard' = [guard EXCEPT !.armed = FALSE]
    ELSE UNCHANGED guard

-----------------------------------------------------------------------------
(* The Codex leg up to the stream: StreamResponse and its one retry.       *)

\* StreamResponse reads Kind for the request line (KindStd, KindUTLS).
Stack == IF auto.flipped THEN "utls" ELSE "std"

\* The credential is there, the catalog was asked, the request translated and
\* its tokens are being counted.
LogTransport ==
    /\ \/ pc = "leg" /\ route \in Codex
       \/ pc = "retry"
    /\ auto' = [auto EXCEPT !.logged = Stack, !.attempts = @ + 1]
    /\ pc' = "roundtrip"
    /\ UNCHANGED <<route, proto, client, resp, err, sum, up, relayVars, codexVars>>

\* autoTransport.RoundTrip dispatches to whichever stack is live by then.
RoundTrip ==
    /\ pc = "roundtrip"
    /\ auto' = [auto EXCEPT !.carried = Stack]
    /\ pc' = "do"
    /\ UNCHANGED <<route, proto, client, resp, err, sum, up, relayVars, codexVars>>

\* Another request meets the gate and reports it while this one is opened.
OtherGate ==
    /\ route \in Codex /\ ~auto.flipped /\ pc \in {"leg", "roundtrip", "do", "retry"}
    /\ auto' = [auto EXCEPT !.flipped = TRUE]
    /\ UNCHANGED <<route, proto, client, pc, resp, err, sum, up, relayVars, codexVars>>

\* noteGate: only a gate is reported, and ReportGate switches for good.
NoteGate(class) == auto' = [auto EXCEPT !.flipped = @ \/ class = "gate"]

\* What an answer that is no stream may be recognised as, by its status, its
\* headers and the challenge markers in its body.
Classes == {"auth", "rate_limit", "server_error", "terminal", "gate", "not_stream"}

\* classifyResponse and classifyTransport: the status a class is rendered with.
StatusOf(class) ==
    CASE class = "auth" -> "401" [] class = "rate_limit" -> "429"
      [] class = "server_error" -> "500" [] class = "terminal" -> "400"
      [] class = "canceled" -> "499" [] class = "timeout" -> "504"
      [] class \in {"gate", "network", "not_stream"} -> "502"

\* renderUpstreamFailure and renderStartFailure: a caller that left is an
\* interrupt and gets nothing; another gets the envelope, and nil is returned.
Render(status) ==
    IF Gone
    THEN /\ sum' = [sum EXCEPT !.interrupted = TRUE]
         /\ Return(Tagged({"gone"})) /\ UNCHANGED resp
    ELSE /\ sum' = [sum EXCEPT !.err = TRUE]
         /\ Envelope(status) /\ Return(NoErr)

\* The backend answered with something else than a stream.
CodexRefused ==
    /\ pc = "do" /\ route \in Codex
    /\ \E class \in Classes :
          /\ class = "auth" => auto.attempts = 2
          /\ NoteGate(class) /\ Render(StatusOf(class))
    /\ UNCHANGED <<route, proto, client, up, relayVars, codexVars>>

\* A first 401: the credential is invalidated and fetched again.  The refresh
\* fails (its error goes to the dispatcher), brings nothing new (the 401
\* stands), or the request is sent once more.
CodexRejected ==
    /\ pc = "do" /\ route \in Codex /\ auto.attempts = 1
    /\ \/ pc' = "retry" /\ UNCHANGED <<err, sum, resp>>
       \/ Render("401")
       \/ /\ sum' = [sum EXCEPT !.interrupted = @ \/ Gone, !.err = @ \/ ~Gone]
          /\ \E status \in {"401", "503"} :
                Return(IF Gone THEN Tagged({"gone"}) ELSE Api(status))
          /\ UNCHANGED resp
    /\ UNCHANGED <<route, proto, client, up, auto, relayVars, codexVars>>

\* Do failed.  A header deadline is a timeout on the standard stack; the uTLS
\* stack's HTTP/2 half enforces it by cancelling the request's context.
HeaderDeadline == IF auto.carried = "utls" /\ proto = 2 THEN "canceled" ELSE "timeout"

CodexUnreached ==
    /\ pc = "do" /\ route \in Codex
    /\ \E class \in {"network", "gate", HeaderDeadline} :
          NoteGate(IF Gone THEN "canceled" ELSE class) /\ Render(StatusOf(class))
    /\ UNCHANGED <<route, proto, client, up, relayVars, codexVars>>

\* Mutant: the 200 is committed as soon as the upstream's is seen.
CodexOpened_Commits ==
    /\ pc = "do" /\ route \in Codex /\ ~Gone
    /\ up' = [up EXCEPT !.state = "open"]
    /\ resp' = [resp EXCEPT !.status = "200"]
    /\ reader' = "next" /\ pc' = "run"
    /\ UNCHANGED <<route, proto, client, err, sum, auto, relayVars, body, run, agg, sinkVars>>

\* 200 and an event stream: the body is handed to Run, which starts its reader.
CodexOpened ==
    /\ pc = "do" /\ route \in Codex /\ ~Gone
    /\ up' = [up EXCEPT !.state = "open"]
    /\ reader' = "next" /\ pc' = "run"
    /\ UNCHANGED <<route, proto, client, resp, err, sum, auto, relayVars, body, run, agg, sinkVars>>

-----------------------------------------------------------------------------
(* The reader goroutine and responses.streamBody.                          *)

Http1 == proto = 1   \* streamBody.joinsRead

\* streamBody.Read takes the mutex on HTTP/1 and holds it through rc.Read.
ReadLock ==
    /\ reader = "next" /\ (Http1 => body.mu = "free")
    /\ body' = IF Http1 THEN [body EXCEPT !.mu = "reader"] ELSE body
    /\ reader' = "locked"
    /\ UNCHANGED <<route, proto, client, pc, resp, err, sum, up, auto, relayVars, run, agg, sinkVars>>

Unlocked == [body EXCEPT !.mu = "free"]

ReadStart ==
    /\ reader = "locked"
    /\ IF body.closed
       THEN reader' = "ended" /\ body' = Unlocked /\ run' = [run EXCEPT !.cause = "broken"]
       ELSE reader' = "reading" /\ UNCHANGED <<body, run>>
    /\ UNCHANGED <<route, proto, client, pc, resp, err, sum, up, auto, relayVars, agg, sinkVars>>

\* rc.Read returns a frame, or the end of the body.
ReadFrame ==
    /\ reader = "reading" /\ up.inbox # <<>>
    /\ up' = [up EXCEPT !.inbox = Tail(@)]
    /\ reader' = "sending" /\ body' = Unlocked
    /\ UNCHANGED <<route, proto, client, pc, resp, err, sum, auto, relayVars, run, agg, sinkVars>>

\* Whatever ends a Read on HTTP/1 once the request is cancelled, and on HTTP/2
\* once the body is closed.
ReadEnds ==
    /\ reader = "reading"
    /\ \/ up.state \in {"eof", "broken"} /\ up.inbox = <<>>
       \/ Http1 /\ (body.cancelled \/ Gone)
       \/ ~Http1 /\ body.closed
    /\ run' = [run EXCEPT !.cause = IF up.state = "eof" /\ up.inbox = <<>>
                                    THEN "eof" ELSE "broken"]
    /\ reader' = "ended" /\ body' = Unlocked
    /\ UNCHANGED <<route, proto, client, pc, resp, err, sum, up, auto, relayVars, agg, sinkVars>>

\* On HTTP/2 a cancelled Read returns once RST_STREAM is written, which a peer
\* that has stopped reading may never allow.
ReadReset ==
    /\ reader = "reading" /\ ~Http1 /\ (body.cancelled \/ Gone)
    /\ run' = [run EXCEPT !.cause = "broken"]
    /\ reader' = "ended" /\ body' = Unlocked
    /\ UNCHANGED <<route, proto, client, pc, resp, err, sum, up, auto, relayVars, agg, sinkVars>>

\* scanCtx is done: by finish, by the caller, or by net/http after a panic.
ReadQuits ==
    /\ reader = "sending" /\ (body.cancelled \/ Gone \/ pc = "over")
    /\ reader' = "quit"
    /\ UNCHANGED <<route, proto, client, pc, resp, err, sum, up, auto, relayVars, body, run, agg, sinkVars>>

-----------------------------------------------------------------------------
(* Translator.Run, its sink, and the leg around them.                      *)

\* startSeed's goroutine finishes the count; a panic in it counts as zero.
SeedCounted ==
    /\ route \in Codex /\ ~run.seeded /\ auto.attempts > 0
    /\ run' = [run EXCEPT !.seeded = TRUE]
    /\ UNCHANGED <<route, proto, client, pc, resp, err, sum, up, auto, relayVars,
                   body, reader, agg, sinkVars>>

\* seed.Value: the count, or nothing for a caller that has left.
SeedReady == run.seeded \/ Gone

\* The Aggregator's fold of one call.  What it refuses is what SinkProtocol
\* rules out.
Fold(op) ==
    [agg EXCEPT !.started = @ \/ op = "MessageStart",
                !.open = (@ \/ op = "BlockStart") /\ op # "BlockStop",
                !.stopped = @ \/ op = "MessageStop",
                !.failed = @ \/ op = "Error"]

\* Aggregator.finishedBlocks: failed, never started, never stopped and a block
\* left open are errors, never a partial message.
FoldedWhole == ~agg.failed /\ agg.started /\ agg.stopped /\ ~agg.open

\* One call reaches the sink: lazyWriter commits the 200 with the first frame.
Deliver ==
    IF route = "codex_stream"
    THEN /\ resp' = [resp EXCEPT !.status = "200", !.body = Append(@, call'.op)]
         /\ UNCHANGED agg
    ELSE agg' = Fold(call'.op) /\ UNCHANGED resp

runOnly == <<route, proto, client, err, sum, up, auto, relayVars>>

\* select took a frame from the reader.
RunFrame ==
    /\ pc = "run" /\ reader = "sending"
    /\ reader' = "next" /\ pc' = "handle"
    /\ UNCHANGED <<runOnly, resp, body, run, agg, sinkVars>>

\* A call that opens or fills: at most MaxCalls of them.
Emit ==
    /\ pc = "handle" /\ run.calls < MaxCalls
    /\ \/ Sink!MessageStart /\ SeedReady /\ run.ending = "no"
       \/ Sink!BlockStart
       \/ Sink!BlockDelta
    /\ run' = [run EXCEPT !.calls = @ + 1]
    /\ Deliver
    /\ UNCHANGED <<runOnly, pc, body, reader>>

\* A call that closes; a failed ending may not be dressed up as a clean one.
EmitClose ==
    /\ pc = "handle"
    /\ Sink!BlockStop \/ (Sink!MessageDelta /\ run.ending \in {"no", "eof"})
    /\ Deliver
    /\ UNCHANGED <<runOnly, pc, body, reader, run>>

Terminus ==
    /\ pc = "handle"
    /\ Sink!MessageStop \/ Sink!Error
    /\ Deliver
    /\ pc' = "close"
    /\ UNCHANGED <<runOnly, body, reader, run>>

\* handle returned and the stream goes on.
Handled ==
    /\ pc = "handle" /\ run.ending = "no" /\ phase \in {"before", "body"}
    /\ pc' = "run"
    /\ UNCHANGED <<runOnly, resp, body, reader, run, agg, sinkVars>>

\* Run gives up without a terminus and will return ret.
GiveUp(ret) ==
    /\ Sink!Abandon
    /\ run' = [run EXCEPT !.ret = ret]
    /\ pc' = "close"

\* fail before message_start: failure mode 1.
HandleFails ==
    /\ pc = "handle" /\ run.ending = "no" /\ phase = "before"
    /\ GiveUp("502")
    /\ UNCHANGED <<runOnly, resp, body, reader, agg>>

\* A frame written to a caller that left: lazyWriter.start has run by then.
EmitFails ==
    /\ route = "codex_stream" /\ Gone
    /\ \/ pc = "handle" /\ (phase = "before" => run.ending = "no")
       \/ pc = "run" /\ phase = "body"
    /\ resp' = [resp EXCEPT !.status = "200"]
    /\ GiveUp("write")
    /\ UNCHANGED <<runOnly, body, reader, agg>>

Heartbeat ==
    /\ pc = "run" /\ route = "codex_stream" /\ run.calls < MaxCalls
    /\ Sink!Ping
    /\ run' = [run EXCEPT !.calls = @ + 1]
    /\ Deliver
    /\ UNCHANGED <<runOnly, pc, body, reader>>

\* handleEnd: nothing said yet is an error for the caller; otherwise the stream
\* is closed with a terminus.
HandleEnd(cause) ==
    IF phase = "before"
    THEN GiveUp(IF cause = "idle" THEN "504" ELSE "502")
    ELSE /\ run' = [run EXCEPT !.ending = cause] /\ pc' = "handle"
         /\ UNCHANGED sinkVars

RunEnds ==
    /\ pc = "run" /\ reader = "ended"
    /\ HandleEnd(run.cause)
    /\ UNCHANGED <<runOnly, resp, body, reader, agg>>

\* The translator's own idle timer.
RunIdle ==
    /\ pc = "run"
    /\ HandleEnd("idle")
    /\ UNCHANGED <<runOnly, resp, body, reader, agg>>

\* The caller left: no terminus.
RunInterrupted ==
    /\ pc = "run" /\ Gone
    /\ GiveUp("ctx")
    /\ UNCHANGED <<runOnly, resp, body, reader, agg>>

\* Mutant: the mutex is waited for before anything is cancelled.
CloseCancel_Late ==
    /\ pc = "close"
    /\ pc' = "closing"
    /\ UNCHANGED <<runOnly, resp, body, reader, run, agg, sinkVars>>

\* finish: cancel, then streamBody.Close, whose first act is to cancel too.
CloseCancel ==
    /\ pc = "close"
    /\ body' = [body EXCEPT !.cancelled = TRUE]
    /\ pc' = "closing"
    /\ UNCHANGED <<runOnly, resp, reader, run, agg, sinkVars>>

\* Mutant: the body is closed under the Read on HTTP/1 as on HTTP/2.
CloseBody_Direct ==
    /\ pc = "closing"
    /\ body' = [body EXCEPT !.closed = TRUE]
    /\ pc' = "join"
    /\ UNCHANGED <<runOnly, resp, reader, run, agg, sinkVars>>

\* streamBody.Close: on HTTP/1 it waits for the Read in flight.
CloseBody ==
    /\ pc = "closing" /\ (Http1 => body.mu = "free")
    /\ body' = [body EXCEPT !.closed = TRUE]
    /\ pc' = "join"
    /\ UNCHANGED <<runOnly, resp, reader, run, agg, sinkVars>>

\* Mutant: Run returns without waiting for its reader.
Join_Skipped ==
    /\ pc = "join"
    /\ pc' = "ran"
    /\ UNCHANGED <<runOnly, resp, body, reader, run, agg, sinkVars>>

Join ==
    /\ pc = "join" /\ reader \in {"ended", "quit"}
    /\ pc' = "ran"
    /\ UNCHANGED <<runOnly, resp, body, reader, run, agg, sinkVars>>

\* A mid-stream failure is an interrupt when the caller has left.
markInterrupted == [sum EXCEPT !.interrupted = @ \/ Gone, !.err = @ \/ ~Gone]

\* The status of a failure before any output: a silent upstream, or a broken one.
classifyStreamFailure == IF run.ret = "504" THEN "504" ELSE "502"

\* serveStream after Run: started bytes are for the dispatcher to abort.
StreamServed ==
    /\ pc = "ran" /\ route = "codex_stream"
    /\ \/ run.ret = "nil" /\ Return(NoErr) /\ UNCHANGED <<sum, resp>>
       \/ /\ run.ret # "nil" /\ Wrote
          /\ sum' = markInterrupted
          /\ Return(Tagged({"started"})) /\ UNCHANGED resp
       \/ /\ run.ret # "nil" /\ ~Wrote
          /\ Render(classifyStreamFailure)
    /\ UNCHANGED <<route, proto, client, up, auto, relayVars, codexVars>>

\* serveAggregate after Run: the whole message, or an envelope.
AggregateServed ==
    /\ pc = "ran" /\ route = "codex_json"
    /\ IF run.ret = "nil" /\ FoldedWhole
       THEN Whole("200") /\ Return(NoErr) /\ UNCHANGED sum
       ELSE Render(classifyStreamFailure)
    /\ UNCHANGED <<route, proto, client, up, auto, relayVars, codexVars>>

-----------------------------------------------------------------------------
(* The way out: the dispatcher, the recover middleware, net/http.          *)

\* A leg that returned nil has written its own response.
Returned ==
    /\ pc = "ret" /\ err = NoErr
    /\ pc' = "served" /\ IdleStop
    /\ UNCHANGED <<route, proto, client, resp, err, sum, up, got, auto, codexVars>>

\* Mutant: a response that had started is left for net/http to finish.
Fail_Finishes ==
    /\ pc = "ret" /\ err # NoErr
    /\ IF err.tags = {"api"} THEN Envelope(err.status) ELSE UNCHANGED resp
    /\ pc' = "served"
    /\ UNCHANGED <<route, proto, client, err, sum, up, auto, relayVars, codexVars>>

\* dispatcher.fail, and ServeHTTP's copy of it, which keeps no summary: bytes
\* already committed abort the connection, a caller that left gets nothing.
Fail ==
    /\ pc = "ret" /\ err # NoErr
    /\ sum' = IF route = "catchall" THEN sum
              ELSE IF "gone" \in err.tags THEN [sum EXCEPT !.interrupted = TRUE]
              ELSE [sum EXCEPT !.err = TRUE]
    /\ \/ "started" \in err.tags /\ pc' = "aborting" /\ UNCHANGED resp
       \/ err.tags = {"gone"} /\ pc' = "served" /\ UNCHANGED resp
       \/ err.tags = {"api"} /\ Envelope(err.status) /\ pc' = "served"
    /\ IdleStop
    /\ UNCHANGED <<route, proto, client, err, up, got, auto, codexVars>>

\* A panic in a leg runs its deferred calls: idle.Stop, and upstream.Close,
\* which cancels and then waits as any Close does.
Panic ==
    /\ pc \in {"leg", "do", "write", "handle", "ran"} /\ ~run.panicked
    /\ run' = [run EXCEPT !.panicked = TRUE]
    /\ body' = [body EXCEPT !.cancelled = @ \/ reader # "none"]
    /\ pc' = "unwinding" /\ IdleStop
    /\ UNCHANGED <<route, proto, client, resp, err, sum, up, got, auto, reader, agg, sinkVars>>

\* withRecover: an envelope on an untouched response, otherwise a plain return.
Recover ==
    /\ pc = "unwinding" /\ (Http1 => body.mu = "free")
    /\ body' = [body EXCEPT !.closed = @ \/ reader # "none"]
    /\ IF Wrote THEN UNCHANGED resp ELSE Envelope("500")
    /\ pc' = "served"
    /\ UNCHANGED <<route, proto, client, err, sum, up, auto, relayVars, reader, run, agg, sinkVars>>

\* withObserve's deferred line, then net/http: an aborted handler's connection
\* is cut, a returned one's body is ended properly.
Observe ==
    /\ pc \in {"served", "aborting"}
    /\ sum' = [sum EXCEPT !.interrupted = @ \/ Gone]
    /\ resp' = [resp EXCEPT !.end = IF pc = "aborting" THEN "cut" ELSE "clean"]
    /\ pc' = "over"
    /\ UNCHANGED <<route, proto, client, err, up, auto, relayVars, codexVars>>

-----------------------------------------------------------------------------
(* The caller and the upstream.                                            *)

HangUp ==
    /\ client = "here" /\ pc # "over"
    /\ client' = "gone"
    /\ UNCHANGED <<route, proto, pc, resp, err, sum, up, auto, relayVars, codexVars>>

UpSends ==
    /\ up.state = "open" /\ up.sent < MaxChunks /\ up.inbox = <<>> /\ pc # "over"
    /\ \E c \in Chunks : up' = [up EXCEPT !.inbox = <<c>>, !.sent = @ + 1]
    /\ UNCHANGED <<route, proto, client, pc, resp, err, sum, auto, relayVars, codexVars>>

UpEnds ==
    /\ up.state = "open" /\ pc # "over"
    /\ \E end \in {"eof", "broken"} : up' = [up EXCEPT !.state = end]
    /\ UNCHANGED <<route, proto, client, pc, resp, err, sum, auto, relayVars, codexVars>>

\* Nothing is left to do.
Over ==
    /\ pc = "over" /\ reader \in {"none", "ended", "quit"}
    /\ UNCHANGED vars

Handler ==
    \/ Refuse \/ Unroutable \/ Dispatch \/ LegRefuses \/ CountTokens \/ RelayDo \/ RelayDoFails
    \/ RelayAnswered \/ CopyRead \/ Rearm \/ CopyWrite \/ CopyWriteFails \/ CopyEnds
    \/ StreamEnds \/ JsonEnds \/ CopyFails \/ LogTransport \/ RoundTrip \/ CodexRefused \/ CodexRejected
    \/ CodexUnreached \/ CodexOpened \/ RunFrame \/ Emit \/ EmitClose \/ Terminus
    \/ Handled \/ HandleFails \/ EmitFails \/ Heartbeat \/ RunEnds \/ RunIdle
    \/ RunInterrupted \/ CloseCancel \/ CloseBody \/ Join \/ StreamServed
    \/ AggregateServed \/ Returned \/ Fail \/ Recover \/ Observe

Reader == ReadLock \/ ReadStart \/ ReadFrame \/ ReadEnds \/ ReadQuits

Environment == OtherGate \/ HangUp \/ UpSends \/ UpEnds \/ Panic \/ ReadReset

Next == Handler \/ Reader \/ IdleTrips \/ IdleCancels \/ SeedCounted \/ Environment \/ Over

\* Goroutines that can run do, timers fire, and the token count finishes; the
\* caller, the upstream and the peer of a reset stream owe nothing.
Spec ==
    /\ Init /\ [][Next]_vars
    /\ WF_vars(Handler) /\ WF_vars(Reader)
    /\ WF_vars(IdleTrips) /\ WF_vars(IdleCancels) /\ WF_vars(SeedCounted)

-----------------------------------------------------------------------------
(* Properties.                                                             *)

Holds(piece) == \E k \in DOMAIN resp.body : resp.body[k] = piece

\* A body the upstream finished, relayed to its last piece.
RelayedWhole == up.state = "eof" /\ up.inbox = <<>> /\ Len(resp.body) = up.sent

\* A response that ends cleanly for a caller that is still there says the truth:
\* it is one envelope, one whole message, the upstream's own body to its end, or
\* a stream that ends in message_stop or an error event.  Ending a half-sent
\* body cleanly "would misreport it" (main.go, router/types.go); a panic apart.
HonestEnd ==
    resp.end = "clean" /\ client = "here" /\ ~run.panicked =>
        \/ resp.body \in {<<"envelope">>, <<"message">>}
        \/ Verbatim /\ RelayedWhole
        \/ /\ route = "deepseek_stream"
           /\ Holds("error") \/ (Holds("start") /\ Holds("stop"))
        \/ route = "codex_stream" /\ (Holds("MessageStop") \/ Holds("Error"))

\* "A caller must not try to render an error envelope on top of it, the bytes
\* are already committed" (router/types.go): an envelope is the only thing in
\* its body, whichever layer failed, and after a panic too.
EnvelopeAlone ==
    \A k \in 1..Len(resp.body) : resp.body[k] = "envelope" =>
        Len(resp.body) = 1 /\ resp.status \notin {"none", "200", "upstream"}

\* "HTTP/1: Close never touches the net/http body while a Read on it is in
\* flight" (responses.go), nor does a Read start on a body that was closed.
BodyClosedAlone == ~(Http1 /\ body.closed /\ reader = "reading")

\* "the join guarantees no goroutine outlives the call" (translator.go): when
\* the leg has its answer from Run, the reader is gone, and the idle guard no
\* longer counts once the exchange is over.
NothingOutlives ==
    /\ pc \in {"ran", "ret", "over"} /\ ~run.panicked => reader \in {"none", "ended", "quit"}
    /\ pc = "over" => ~guard.armed

\* Every exchange ends, whatever the upstream withholds: the header deadline,
\* the relay's guard, the translator's idle timer and a Close that ends the
\* Read it waits for see to it.
ExchangeEnds == <>(pc = "over" /\ reader \in {"none", "ended", "quit"})
=============================================================================
