-------------------------- MODULE StreamTranslator --------------------------
(***************************************************************************)
(* translate/stream: the Translator that turns a Codex Responses stream    *)
(* into an Anthropic one, call by call on its Sink.                        *)
(*                                                                         *)
(* Run's select loop receives one upstream frame at a time and handles it  *)
(* to the end.  Handling is kept as a stack of the functions still to run  *)
(* (`todo`), each step running the top one as far as its next Sink call,   *)
(* so that every call may fail, time may pass and the scanner may read on  *)
(* between two calls.  A delta is its serial number within its block; a    *)
(* tool call's arguments and a reasoning item's encrypted content are      *)
(* flags.                                                                  *)
(***************************************************************************)
EXTENDS Integers, Sequences, FiniteSets, SequencesExt

CONSTANTS
    OutIdx,            \* Codex output_index values
    KindOf,            \* the kind of item an orderly upstream has at each
    Orderly,           \* does the upstream keep each item's events in order?
    MaxPendingItems,   \* Options.MaxPendingItems
    MaxPendingBytes,   \* Options.MaxPendingBytes, one byte per delta
    MaxFrames,         \* bound: upstream frames
    Pipelined          \* bound: may the upstream act while Run handles a frame?

None == -1
Kinds == {"text", "thinking", "tool"}

\* New replaces a bound that is not positive by its default.
ASSUME TranslatorAssumption ==
    /\ None \notin OutIdx
    /\ KindOf \in [OutIdx -> Kinds]
    /\ Orderly \in BOOLEAN
    /\ MaxPendingItems \in Nat \ {0} /\ MaxPendingBytes \in Nat \ {0}
    /\ MaxFrames \in Nat /\ Pipelined \in BOOLEAN

VARIABLES
    opt,          \* Options: [finish, drop]
    started, terminus, nextIndex, active, blk, order,   \* Translator, same names
    sawToolUse, maxTokens, finalStop,
    todo,         \* functions still to run for the frame in hand
    ended,        \* why Run returned, "no" while it runs
    frame,        \* the frame the scanner goroutine offers, NoFrame if none
    eof,          \* what the scanner ended with: "no", "clean", "error"
    idleDue,      \* the idle timer has run out: "no", "silent", "waiting"
    frames,       \* frames read so far
    up,           \* how far an orderly upstream is with each item
    call, phase, block, next   \* what the sink has accepted

core == <<started, terminus, nextIndex, active, blk, order>>
final == <<sawToolUse, maxTokens, finalStop>>
loop == <<frame, eof, idleDue, frames, up>>
sink == <<call, phase, block, next>>
vars == <<opt, core, final, todo, ended, loop, sink>>

\* The abstract protocol, over the calls that the sink has accepted.
Protocol == INSTANCE SinkProtocol
              WITH call <- call, phase <- phase, block <- block, next <- next

NoFrame == [type |-> "none", i |-> None, has |-> {}]

\* An output_index not seen yet has kind "none".  `closing` is the delta that
\* stopBlock adds itself: a signature, plain or carrying the encrypted content,
\* or a tool call's arguments in full or empty.
Unseen == [kind |-> "none", ident |-> FALSE, index |-> None,
           started |-> FALSE, stopped |-> FALSE, dropped |-> FALSE, done |-> FALSE,
           argsSeen |-> FALSE, argsDone |-> FALSE, fullArgs |-> FALSE,
           enc |-> FALSE, closing |-> "no",
           pending |-> <<>>, got |-> 0, sent |-> 0]

Init ==
    /\ opt \in [finish : BOOLEAN, drop : BOOLEAN]
    /\ started = FALSE /\ terminus = "none" /\ nextIndex = 0 /\ active = None
    /\ blk = [i \in OutIdx |-> Unseen] /\ order = <<>>
    /\ sawToolUse = FALSE /\ maxTokens = FALSE /\ finalStop = "none"
    /\ todo = <<>> /\ ended = "no"
    /\ frame = NoFrame /\ eof = "no" /\ idleDue = "no" /\ frames = 0
    /\ up = [i \in OutIdx |-> "new"]
    /\ Protocol!Init

-----------------------------------------------------------------------------
(* The upstream: the scanner goroutine reads a frame, then offers it *)

ItemTypes == {"partAdded", "textDelta", "textDone", "reasoningPart", "reasoningDelta",
              "reasoningTextDone", "toolAdded", "argsDelta", "argsDone",
              "toolDone", "reasoningDone", "messageDone"}
StreamTypes == {"created", "completed", "incomplete", "failed", "ignored"}

\* The optional fields of a frame that the Translator looks at: the call id
\* and name, the full arguments, the encrypted content, the incomplete reason.
Optional(type) ==
    CASE type \in {"toolAdded", "toolDone"} -> {"ident", "args"}
      [] type = "argsDone"                  -> {"args"}
      [] type = "reasoningDone"             -> {"enc"}
      [] type = "incomplete"                -> {"maxTokens"}
      [] OTHER                              -> {}

\* The events of one item, in the order a Codex stream sends them: what an
\* item at stage `up[i]` may be followed by, and the stage that leads to.
Lifecycle ==
    [text     |-> {<<"new", "partAdded", "open">>, <<"open", "textDelta", "open">>,
                   <<"open", "textDone", "closed">>, <<"closed", "messageDone", "gone">>},
     thinking |-> {<<"new", "reasoningPart", "open">>, <<"open", "reasoningPart", "open">>,
                   <<"open", "reasoningDelta", "open">>,
                   <<"open", "reasoningTextDone", "open">>,
                   <<"new", "reasoningDone", "gone">>, <<"open", "reasoningDone", "gone">>},
     tool     |-> {<<"new", "toolAdded", "open">>, <<"open", "argsDelta", "open">>,
                   <<"open", "argsDone", "closed">>, <<"new", "toolDone", "gone">>,
                   <<"open", "toolDone", "gone">>, <<"closed", "toolDone", "gone">>}]

Selecting == ended = "no" /\ todo = <<>> /\ terminus = "none"

Live == ended = "no" /\ (Selecting \/ Pipelined)

ReadFrame(type, i) ==
    /\ Live /\ frame = NoFrame /\ eof = "no"
    /\ frames < MaxFrames
    /\ frames' = frames + 1
    /\ \E has \in SUBSET Optional(type) :
          /\ Orderly /\ type = "argsDone" => has = {"args"}
          /\ frame' = [type |-> type, i |-> i, has |-> has]
    /\ UNCHANGED <<opt, core, final, todo, ended, eof, idleDue, sink>>

ReadItemFrame ==
    \E type \in ItemTypes, i \in OutIdx :
        /\ ReadFrame(type, i)
        /\ IF Orderly
           THEN \E s \in {"open", "closed", "gone"} :
                   /\ <<up[i], type, s>> \in Lifecycle[KindOf[i]]
                   /\ up' = [up EXCEPT ![i] = s]
           ELSE UNCHANGED up

\* An orderly upstream completes a response only when every item is complete.
ReadStreamFrame ==
    \E type \in StreamTypes :
        /\ Orderly /\ type = "completed" => \A i \in OutIdx : up[i] \in {"new", "gone"}
        /\ ReadFrame(type, None)
        /\ UNCHANGED up

\* The body ends or breaks: sc.Err() goes to scanErrc after the last frame.
ReadEnd ==
    /\ Live /\ frame = NoFrame /\ eof = "no"
    /\ eof' \in {"clean", "error"}
    /\ UNCHANGED <<opt, core, final, todo, ended, frame, idleDue, frames, up, sink>>

\* upstreamIdle has passed since the last frame Run received.  Whether a frame
\* was already on offer, which only a Run busy with the sink can leave waiting,
\* is remembered for IdleMeansSilence.
IdleFires ==
    /\ Live /\ idleDue = "no"
    /\ frame # NoFrame => todo # <<>>
    /\ idleDue' = IF frame = NoFrame THEN "silent" ELSE "waiting"
    /\ UNCHANGED <<opt, core, final, todo, ended, frame, eof, frames, up, sink>>

-----------------------------------------------------------------------------
(* Run's select loop and handle: what each frame puts on the stack *)

Do(op, i) == [op |-> op, i |-> i]
Start == Do("start", None)

\* case fr := <-frames, with onUpstream's reset of the idle timer.
Take(type) ==
    /\ Selecting
    /\ frame.type = type
    /\ frame' = NoFrame /\ idleDue' = "no"
    /\ UNCHANGED <<opt, started, terminus, nextIndex, active, finalStop,
                   ended, eof, frames, up, sink>>

\* blockFor: the block of an output_index, made on first sight.
BlockFor(i, kind) ==
    IF blk[i].kind # "none" THEN blk[i]
    ELSE [Unseen EXCEPT !.kind = kind, !.dropped = (kind = "thinking" /\ opt.drop)]

\* t.blocks and t.order after blockFor(i, kind) and the handler's updates b of it.
Register(i, b) ==
    /\ blk' = [blk EXCEPT ![i] = b]
    /\ order' = IF blk[i].kind = "none" THEN Append(order, i) ELSE order

Buffering(b) == b.kind # "none" /\ ~b.started /\ ~b.stopped /\ ~b.dropped

\* The commands of a handler that opens block i when no block is open.
OpenIfFree(i) == IF active = None THEN <<Start, Do("open", i)>> ELSE <<Start>>

\* A frame that handle drops: in_progress, content_part.done, an unknown type,
\* a message item's output_item.added.
OnIgnored ==
    /\ Take("ignored")
    /\ UNCHANGED <<blk, order, sawToolUse, maxTokens, todo>>

\* Mutant: the end of a summary text closes its block, as the end of a text does.
OnReasoningTextDone_Closes ==
    /\ Take("reasoningTextDone")
    /\ Register(frame.i, BlockFor(frame.i, "thinking"))
    /\ todo' = <<Do("done", frame.i)>>
    /\ UNCHANGED <<sawToolUse, maxTokens>>

\* Not a close: the item's encrypted content has not come yet.
OnReasoningTextDone ==
    /\ Take("reasoningTextDone")
    /\ UNCHANGED <<blk, order, sawToolUse, maxTokens, todo>>

OnCreated ==
    /\ Take("created")
    /\ todo' = <<Start>>
    /\ UNCHANGED <<blk, order, sawToolUse, maxTokens>>

\* onContentPartAdded
OnPartAdded ==
    /\ Take("partAdded")
    /\ Register(frame.i, BlockFor(frame.i, "text"))
    /\ todo' = OpenIfFree(frame.i)
    /\ UNCHANGED <<sawToolUse, maxTokens>>

\* onReasoningPartAdded
OnReasoningPart ==
    /\ Take("reasoningPart")
    /\ LET b == BlockFor(frame.i, "thinking") IN
       /\ Register(frame.i, b)
       /\ todo' = IF b.dropped THEN <<Start>> ELSE OpenIfFree(frame.i)
    /\ UNCHANGED <<sawToolUse, maxTokens>>

\* A delta of any kind; only an argument delta marks the tool call.
OnDelta(type, kind) ==
    /\ Take(type)
    /\ LET b == BlockFor(frame.i, kind) IN
       Register(frame.i, [b EXCEPT !.got = @ + 1, !.argsSeen = @ \/ kind = "tool"])
    /\ todo' = <<Start, Do("push", frame.i)>>
    /\ sawToolUse' = (sawToolUse \/ kind = "tool")
    /\ UNCHANGED maxTokens

OnTextDone ==
    /\ Take("textDone")
    /\ Register(frame.i, BlockFor(frame.i, "text"))
    /\ todo' = <<Do("done", frame.i)>>
    /\ UNCHANGED <<sawToolUse, maxTokens>>

\* onItemAdded, a function call: opened at once when it is named.
OnToolAdded ==
    /\ Take("toolAdded")
    /\ LET b == BlockFor(frame.i, "tool")
           n == [b EXCEPT !.ident = @ \/ "ident" \in frame.has,
                          !.fullArgs = @ \/ "args" \in frame.has] IN
       /\ Register(frame.i, n)
       /\ todo' = IF n.ident THEN OpenIfFree(frame.i) ELSE <<Start>>
    /\ sawToolUse' = TRUE
    /\ UNCHANGED maxTokens

OnArgsDone ==
    /\ Take("argsDone")
    /\ LET b == BlockFor(frame.i, "tool") IN
       Register(frame.i, [b EXCEPT !.fullArgs = @ \/ "args" \in frame.has, !.argsDone = TRUE])
    /\ todo' = <<Do("done", frame.i)>>
    /\ UNCHANGED <<sawToolUse, maxTokens>>

\* onItemDone, a function call
OnToolDone ==
    /\ Take("toolDone")
    /\ LET b == BlockFor(frame.i, "tool") IN
       Register(frame.i, [b EXCEPT !.ident = @ \/ "ident" \in frame.has,
                                   !.fullArgs = @ \/ "args" \in frame.has,
                                   !.argsDone = TRUE])
    /\ todo' = <<Do("done", frame.i)>>
    /\ sawToolUse' = TRUE
    /\ UNCHANGED maxTokens

\* onItemDone, a reasoning item: its content is stashed before the block closes.
OnReasoningDone ==
    /\ Take("reasoningDone")
    /\ IF blk[frame.i].kind = "none" /\ "enc" \notin frame.has
       THEN UNCHANGED <<blk, order, todo>>
       ELSE /\ LET b == BlockFor(frame.i, "thinking") IN
               Register(frame.i, [b EXCEPT !.enc = @ \/ "enc" \in frame.has])
            /\ todo' = <<Do("done", frame.i)>>
    /\ UNCHANGED <<sawToolUse, maxTokens>>

\* onItemDone, any other item
OnMessageDone ==
    /\ Take("messageDone")
    /\ todo' = IF blk[frame.i].kind = "none" THEN <<>> ELSE <<Do("done", frame.i)>>
    /\ UNCHANGED <<blk, order, sawToolUse, maxTokens>>

OnCompleted ==
    /\ Take("completed") \/ Take("incomplete")
    /\ maxTokens' = (maxTokens \/ "maxTokens" \in frame.has)
    /\ todo' = <<Start, Do("clean", None)>>
    /\ UNCHANGED <<blk, order, sawToolUse>>

\* finish: the timers stop and the reader is cancelled, with the frame it offers.
Finish(why) ==
    /\ ended' = why
    /\ frame' = NoFrame /\ idleDue' = "no"
    /\ UNCHANGED <<opt, eof, frames, up>>

\* Run returns an error and nothing is on the wire (failure mode 1).
FailUnstarted ==
    /\ Finish("mode1") /\ phase' = "abandoned"
    /\ UNCHANGED <<core, final, todo, call, block, next>>

\* fail: response.failed or an error frame
OnFailed ==
    \/ /\ started /\ Take("failed")
       /\ todo' = <<Do("abort", None)>>
       /\ UNCHANGED <<blk, order, sawToolUse, maxTokens>>
    \/ Selecting /\ frame.type = "failed" /\ ~started /\ FailUnstarted

\* handleEnd: a clean end is finished or aborted by policy, any other aborts.
HandleEnd(clean) ==
    IF started
    THEN /\ todo' = IF clean /\ opt.finish THEN <<Do("clean", None)>> ELSE <<Do("abort", None)>>
         /\ UNCHANGED <<opt, core, final, ended, loop, sink>>
    ELSE FailUnstarted

OnEnd == Selecting /\ frame = NoFrame /\ eof # "no" /\ HandleEnd(eof = "clean")

OnIdle == Selecting /\ idleDue # "no" /\ HandleEnd(FALSE)

\* Only the heartbeat timer is reset: the idle bound keeps counting.
Heartbeat ==
    /\ Selecting /\ started
    /\ todo' = <<Do("ping", None)>>
    /\ UNCHANGED <<opt, core, final, ended, loop, sink>>

\* ctx.Done(): the sink is abandoned without a terminus (failure mode 3).
Interrupt ==
    /\ Selecting
    /\ Finish("interrupt") /\ phase' = "abandoned"
    /\ UNCHANGED <<core, final, todo, call, block, next>>

\* Mutant: an abort from deep inside handling, done = false, is not noticed.
Return_OnlyWhenClean ==
    /\ ended = "no" /\ todo = <<>> /\ terminus = "clean"
    /\ Finish("done")
    /\ UNCHANGED <<core, final, todo, sink>>

\* A frame or an end was handled and left a terminus.
Return ==
    /\ ended = "no" /\ todo = <<>> /\ terminus # "none"
    /\ Finish("done")
    /\ UNCHANGED <<core, final, todo, sink>>

Select ==
    \/ OnIgnored \/ OnReasoningTextDone \/ OnCreated \/ OnPartAdded \/ OnReasoningPart
    \/ OnDelta("textDelta", "text") \/ OnDelta("reasoningDelta", "thinking")
    \/ OnDelta("argsDelta", "tool")
    \/ OnTextDone \/ OnToolAdded \/ OnArgsDone \/ OnToolDone
    \/ OnReasoningDone \/ OnMessageDone \/ OnCompleted \/ OnFailed
    \/ OnEnd \/ OnIdle \/ Return

-----------------------------------------------------------------------------
(* The functions handlers call, and their Sink calls *)

\* The sink accepts a call: what is on the wire is the call's own arguments.
Say(op, index) ==
    /\ call' = [op |-> op, index |-> index]
    /\ phase' = IF op = "MessageStart" THEN "body"
                ELSE IF op = "MessageDelta" THEN "tail"
                ELSE IF op = "MessageStop" THEN "clean"
                ELSE IF op = "Error" THEN "errored" ELSE phase
    /\ block' = IF op = "BlockStart" THEN index ELSE IF op = "BlockStop" THEN None ELSE block
    /\ next' = IF op = "BlockStart" THEN index + 1 ELSE next

\* The function on top of the stack, its argument, and what replaces it.
At(op) == ended = "no" /\ todo # <<>> /\ Head(todo).op = op
Arg == Head(todo).i
Then(rest) ==
    /\ todo' = rest \o Tail(todo)
    /\ UNCHANGED <<opt, ended, loop, order, sawToolUse, maxTokens>>

EnsureStarted ==
    /\ At("start") /\ Then(<<>>)
    /\ started' = TRUE
    /\ IF started THEN UNCHANGED sink ELSE Say("MessageStart", None)
    /\ UNCHANGED <<terminus, nextIndex, active, blk, finalStop>>

\* openBlock, up to the flush of what was buffered
OpenBlock ==
    /\ At("open")
    /\ \/ /\ ~(Buffering(blk[Arg]) /\ started)
          /\ Then(IF Buffering(blk[Arg]) THEN <<Start, Head(todo)>> ELSE <<>>)
          /\ UNCHANGED <<started, terminus, nextIndex, active, blk, finalStop, sink>>
       \/ /\ Buffering(blk[Arg]) /\ started
          /\ Then(<<Do("flush", Arg)>>)
          /\ blk' = [blk EXCEPT ![Arg] = [@ EXCEPT !.index = nextIndex, !.started = TRUE]]
          /\ nextIndex' = nextIndex + 1
          /\ active' = Arg
          /\ Say("BlockStart", nextIndex)
          /\ UNCHANGED <<started, terminus, finalStop>>

\* Mutant: the buffer is flushed newest first.
FlushPending_NewestFirst ==
    LET b == blk[Arg] IN
    /\ At("flush")
    /\ IF b.pending = <<>>
       THEN Then(<<>>) /\ UNCHANGED <<blk, sink>>
       ELSE /\ Then(<<Head(todo)>>)
            /\ blk' = [blk EXCEPT ![Arg] = [@ EXCEPT !.pending = Front(b.pending), !.sent = Last(b.pending)]]
            /\ Say("BlockDelta", b.index)
    /\ UNCHANGED <<started, terminus, nextIndex, active, finalStop>>

FlushPending ==
    LET b == blk[Arg] IN
    /\ At("flush")
    /\ IF b.pending = <<>>
       THEN Then(<<>>) /\ UNCHANGED <<blk, sink>>
       ELSE /\ Then(<<Head(todo)>>)
            /\ blk' = [blk EXCEPT ![Arg] = [@ EXCEPT !.pending = Tail(b.pending), !.sent = Head(b.pending)]]
            /\ Say("BlockDelta", b.index)
    /\ UNCHANGED <<started, terminus, nextIndex, active, finalStop>>

\* enforceBounds, once the delta of block i has been buffered in blocks bs
OverBounds(bs) ==
    \/ Cardinality({i \in OutIdx : Buffering(bs[i])}) > MaxPendingItems
    \/ \E i \in OutIdx : Buffering(bs[i]) /\ Len(bs[i].pending) > MaxPendingBytes

PushDelta ==
    LET b == blk[Arg]
        buffered == [blk EXCEPT ![Arg] = [@ EXCEPT !.pending = Append(b.pending, b.got)]] IN
    /\ At("push")
    /\ \/ /\ b.dropped \/ b.stopped
          /\ Then(<<>>)
          /\ UNCHANGED blk
       \/ /\ ~b.dropped /\ ~b.stopped /\ active = Arg
          /\ Then(<<Do("emit", Arg)>>)
          /\ UNCHANGED blk
       \/ /\ ~b.dropped /\ ~b.stopped /\ active = None
          /\ Then(<<Do("open", Arg), Do("emit", Arg)>>)
          /\ UNCHANGED blk
       \/ /\ ~b.dropped /\ ~b.stopped /\ active \notin {None, Arg}
          /\ Then(IF OverBounds(buffered) THEN <<Do("abort", None)>> ELSE <<>>)
          /\ blk' = buffered
    /\ UNCHANGED <<started, terminus, nextIndex, active, finalStop, sink>>

EmitDelta ==
    /\ At("emit") /\ Then(<<>>)
    /\ blk' = [blk EXCEPT ![Arg] = [@ EXCEPT !.sent = blk[Arg].got]]
    /\ Say("BlockDelta", blk[Arg].index)
    /\ UNCHANGED <<started, terminus, nextIndex, active, finalStop>>

\* markDoneOrClose and closeActive
MarkDoneOrClose ==
    LET b == blk[Arg]
        gone == b.stopped \/ b.dropped IN
    /\ At("done")
    /\ \/ /\ gone
          /\ Then(<<>>) /\ UNCHANGED blk
       \/ /\ ~gone /\ active = Arg
          /\ Then(<<Do("stop", Arg), Do("drain", None)>>) /\ UNCHANGED blk
       \/ /\ ~gone /\ active # Arg
          /\ Then(IF active = None THEN <<Do("drain", None)>> ELSE <<>>)
          /\ blk' = [blk EXCEPT ![Arg] = [@ EXCEPT !.done = TRUE]]
    /\ UNCHANGED <<started, terminus, nextIndex, active, finalStop, sink>>

\* The delta that stopBlock adds before content_block_stop, "no" if none.
Closing(b) ==
    IF b.kind = "thinking" THEN (IF b.enc THEN "enc" ELSE "plain")
    ELSE IF b.kind = "tool" /\ ~b.argsSeen THEN (IF b.fullArgs THEN "full" ELSE "empty")
    ELSE "no"

Halt(i) == Do("halt", i)
CloseDelta(i) == Do("close", i)

StopBlock ==
    LET b == blk[Arg] IN
    /\ At("stop")
    /\ \/ /\ b.stopped \/ b.dropped
          /\ Then(<<>>)
       \/ /\ ~b.stopped /\ ~b.dropped /\ ~b.started
          /\ Then(<<Do("open", Arg), Head(todo)>>)
       \/ /\ ~b.stopped /\ ~b.dropped /\ b.started
          /\ Then(IF Closing(b) = "no" THEN <<Halt(Arg)>> ELSE <<CloseDelta(Arg), Halt(Arg)>>)
    /\ UNCHANGED <<started, terminus, nextIndex, active, blk, finalStop, sink>>

SayClosing ==
    /\ At("close") /\ Then(<<>>)
    /\ blk' = [blk EXCEPT ![Arg] = [@ EXCEPT !.closing = Closing(blk[Arg])]]
    /\ Say("BlockDelta", blk[Arg].index)
    /\ UNCHANGED <<started, terminus, nextIndex, active, finalStop>>

SayBlockStop ==
    /\ At("halt") /\ Then(<<>>)
    /\ blk' = [blk EXCEPT ![Arg] = [@ EXCEPT !.stopped = TRUE]]
    /\ active' = IF active = Arg THEN None ELSE active
    /\ Say("BlockStop", blk[Arg].index)
    /\ UNCHANGED <<started, terminus, nextIndex, finalStop>>

\* firstBuffering, None if there is none
FirstBuffering ==
    LET waiting == {k \in DOMAIN order : Buffering(blk[order[k]])} IN
    IF waiting = {} THEN None ELSE order[Min(waiting)]

DrainNext ==
    LET i == FirstBuffering
        stop == IF blk[i].done THEN <<Do("stop", i), Head(todo)>> ELSE <<>> IN
    /\ At("drain")
    /\ Then(IF active # None \/ i = None THEN <<>> ELSE <<Do("open", i)>> \o stop)
    /\ UNCHANGED <<started, terminus, nextIndex, active, blk, finalStop, sink>>

FinalizeAllBlocks ==
    LET i == IF active # None THEN active ELSE FirstBuffering IN
    /\ At("final")
    /\ Then(IF i = None THEN <<>> ELSE <<Do("stop", i), Head(todo)>>)
    /\ UNCHANGED <<started, terminus, nextIndex, active, blk, finalStop, sink>>

\* A tool call cut off inside its streamed arguments.
PartialTool(b) == b.kind = "tool" /\ b.argsSeen /\ ~b.argsDone

\* Mutant: a cut-off tool call is finished like any other block.
FinalizeClean_OverPartialTool ==
    /\ At("clean")
    /\ Then(<<Do("final", None), Do("mdelta", None), Do("mstop", None)>>)
    /\ UNCHANGED <<started, terminus, nextIndex, active, blk, finalStop, sink>>

FinalizeClean ==
    /\ At("clean")
    /\ Then(IF \E i \in OutIdx : PartialTool(blk[i]) THEN <<Do("abort", None)>>
            ELSE <<Do("final", None), Do("mdelta", None), Do("mstop", None)>>)
    /\ UNCHANGED <<started, terminus, nextIndex, active, blk, finalStop, sink>>

StopReason ==
    IF sawToolUse THEN "tool_use" ELSE IF maxTokens THEN "max_tokens" ELSE "end_turn"

SayMessageDelta ==
    /\ At("mdelta") /\ Then(<<>>)
    /\ Say("MessageDelta", None)
    /\ finalStop' = StopReason
    /\ UNCHANGED core

SayMessageStop ==
    /\ At("mstop") /\ Then(<<>>)
    /\ Say("MessageStop", None)
    /\ terminus' = "clean"
    /\ UNCHANGED <<started, nextIndex, active, blk, finalStop>>

\* Mutant: the error frame is written over the open block.
EmitMidStreamError_LeavesBlockOpen ==
    /\ At("abort")
    /\ Then(<<Do("error", None)>>)
    /\ UNCHANGED <<started, terminus, nextIndex, active, blk, finalStop, sink>>

\* emitMidStreamError: a thinking block is still signed, a tool call is not
\* given arguments.
EmitMidStreamError ==
    LET halt == IF active = None THEN <<>>
                ELSE IF blk[active].kind = "thinking" THEN <<CloseDelta(active), Halt(active)>>
                ELSE <<Halt(active)>> IN
    /\ At("abort")
    /\ Then(halt \o <<Do("error", None)>>)
    /\ UNCHANGED <<started, terminus, nextIndex, active, blk, finalStop, sink>>

SayError ==
    /\ At("error") /\ Then(<<>>)
    /\ terminus' = "errored"
    /\ Say("Error", None)
    /\ UNCHANGED <<started, nextIndex, active, blk, finalStop>>

SayPing ==
    /\ At("ping") /\ Then(<<>>)
    /\ Say("Ping", None)
    /\ UNCHANGED <<core, finalStop>>

Handle ==
    \/ EnsureStarted \/ OpenBlock \/ FlushPending \/ PushDelta \/ EmitDelta
    \/ MarkDoneOrClose \/ StopBlock \/ SayClosing \/ SayBlockStop
    \/ DrainNext \/ FinalizeAllBlocks \/ FinalizeClean
    \/ SayMessageDelta \/ SayMessageStop \/ EmitMidStreamError \/ SayError \/ SayPing

\* Is the top function at a Sink call?
Writing ==
    /\ todo # <<>>
    /\ \/ Head(todo).op \in {"emit", "close", "halt", "mdelta", "mstop", "error", "ping"}
       \/ Head(todo).op = "start" /\ ~started
       \/ Head(todo).op = "open" /\ started /\ Buffering(blk[Arg])
       \/ Head(todo).op = "flush" /\ blk[Arg].pending # <<>>

\* The write fails, for a client that has gone: Run returns its error.
SinkFails ==
    /\ ended = "no" /\ Writing
    /\ Finish("sink") /\ phase' = "abandoned" /\ todo' = <<>>
    /\ started' = (started \/ Head(todo).op = "start")
    /\ terminus' = IF Head(todo).op = "error" THEN "errored" ELSE terminus
    /\ UNCHANGED <<nextIndex, active, blk, order, final, call, block, next>>

Upstream == ReadItemFrame \/ ReadStreamFrame \/ ReadEnd
Next == Upstream \/ IdleFires \/ Heartbeat \/ Interrupt \/ Select \/ Handle \/ SinkFails

\* The idle timer fires, a handler's writes return, and select, which picks at
\* random among what is ready, takes its turn between pings however many there
\* are.  Neither the upstream, nor the client's interrupt, nor the heartbeat
\* owes anything.
Fairness ==
    /\ WF_vars(IdleFires)
    /\ SF_vars(Select)
    /\ WF_vars(Handle)

Spec == Init /\ [][Next]_vars /\ Fairness

-----------------------------------------------------------------------------
(* Properties *)

\* The Sink contract (sink.go): whatever the upstream sends, in whatever order,
\* whichever write fails and whenever Run is interrupted, the calls the sink
\* accepts are a prefix of a well-formed Anthropic stream.
SinkContract == Protocol!Spec

\* Interleaved items, through buffering, promotion and flush: what a block holds
\* back is always what came and has not gone out, in the order it came, so its
\* deltas reach the wire in order and none is skipped.  And a stream that ends
\* cleanly has told everything: each item's deltas all went out and its block is
\* closed, unless it is reasoning that is to be dropped.
NothingLost ==
    /\ \A i \in OutIdx : LET b == blk[i] IN
          blk[i].dropped \/ \E n \in {b.got - 1, b.got} :
              n >= b.sent /\ b.pending = [k \in 1..(n - b.sent) |-> b.sent + k]
    /\ Orderly /\ terminus = "clean" =>
          \A i \in OutIdx : \/ blk[i].kind = "none" \/ blk[i].dropped
                            \/ (blk[i].stopped /\ blk[i].sent = blk[i].got)

\* A stream that ends cleanly presents no tool call cut off inside its
\* arguments, and one whose arguments came only in full still carries them.
ArgumentsWhole ==
    Orderly /\ terminus = "clean" =>
        \A i \in OutIdx : blk[i].kind = "tool" =>
            IF blk[i].argsSeen THEN blk[i].argsDone
            ELSE blk[i].fullArgs => blk[i].closing = "full"

\* The encrypted content of a reasoning item reaches the client in the
\* signature of its thinking block: the block is never closed before it came.
SignatureCarriesContent ==
    Orderly => \A i \in OutIdx : blk[i].kind = "thinking" /\ blk[i].stopped /\ blk[i].enc
                                     => blk[i].closing = "enc"

\* Once the upstream falls silent or ends, Run returns: neither the keepalive
\* nor a delta buffered for a block that never opens keeps it.
RunEnds == <>(ended # "no")

=============================================================================
