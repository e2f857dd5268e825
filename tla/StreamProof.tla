----------------------------- MODULE StreamProof -----------------------------
(***************************************************************************)
(* The translator implements the Sink contract, for any output indices,    *)
(* any bounds and any upstream: each of its steps is one of SinkProtocol's *)
(* or says nothing.                                                        *)
(*                                                                         *)
(* The contract alone is not inductive.  Whether a call is legal depends   *)
(* on how the function that makes it came to be on the stack: a block is   *)
(* only opened with none open, a delta only emitted with its own block     *)
(* open, the closing sequence only entered when everything is closed.      *)
(* Fits says which continuations may stand below each function and what    *)
(* then holds; Wire ties the sink's view to the translator's own fields.   *)
(***************************************************************************)
EXTENDS StreamTranslator, SequenceTheorems, WellFoundedInduction, TLAPS

Ops == {"start", "open", "flush", "push", "emit", "done", "stop", "close", "halt", "drain", "final",
        "clean", "mdelta", "mstop", "abort", "error", "ping"}

Cmds == [op : Ops, i : OutIdx \cup {None}]

Blocks == [kind : Kinds \cup {"none"}, ident : BOOLEAN, index : Nat \cup {None},
           started : BOOLEAN, stopped : BOOLEAN, dropped : BOOLEAN, done : BOOLEAN,
           argsSeen : BOOLEAN, argsDone : BOOLEAN, fullArgs : BOOLEAN, enc : BOOLEAN,
           closing : {"no", "plain", "enc", "full", "empty"},
           pending : Seq(Nat), got : Nat, sent : Nat]

Typed ==
    /\ blk \in [OutIdx -> Blocks] /\ order \in Seq(OutIdx) /\ nextIndex \in Nat
    /\ active \in OutIdx \cup {None}
    /\ started \in BOOLEAN /\ terminus \in {"none", "clean", "errored"}
    /\ frame.type \in ItemTypes => frame.i \in OutIdx
    /\ todo \in Seq(Cmds)

\* A stack with x on top of r.
Push(x, r) == <<x>> \o r

Drain == Push(Do("drain", None), <<>>)
MessageEnd == Push(Do("mdelta", None), Push(Do("mstop", None), <<>>))
Final == Push(Do("final", None), MessageEnd)
Errors == Push(Do("error", None), <<>>)

\* Block i may be opened now, with r to follow.
CanOpen(i, r) ==
    /\ active = None
    /\ \/ r = <<>>
       \/ r = Push(Do("stop", i), Drain)
       \/ r = Push(Do("stop", i), Final) /\ started
       \/ r = Push(Do("emit", i), <<>>) /\ Buffering(blk[i])

\* What may stand below the flush of block i.
AfterFlush(i) == {<<>>, Push(Do("emit", i), <<>>), Push(Do("stop", i), Drain), Push(Do("stop", i), Final)}

FitsBlock(i, x, r) ==
    \/ x = Do("done", i) /\ r = <<>>
    \/ x = Do("push", i) /\ r = <<>> /\ started /\ blk[i].kind # "none"
    \/ x = Do("emit", i) /\ r = <<>> /\ started /\ active = i
    \/ x = Do("open", i) /\ CanOpen(i, r)
    \/ x = Do("flush", i) /\ started /\ active = i /\ r \in AfterFlush(i)
    \/ x = Do("stop", i) /\ active \in {None, i} /\ (r = Drain \/ (r = Final /\ started))
    \/ x = Do("halt", i) /\ started /\ active = i /\ r \in {Drain, Final, Errors}
    \/ /\ x = Do("close", i) /\ started /\ active = i
       /\ \E k \in {Drain, Final, Errors} : r = Push(Do("halt", i), k)

FitsStart(r) ==
    \/ r = <<>>
    \/ r = Push(Do("clean", None), <<>>)
    \/ \E i \in OutIdx : r = Push(Do("push", i), <<>>) /\ blk[i].kind # "none"
    \/ \E i \in OutIdx : r # <<>> /\ Head(r) = Do("open", i) /\ CanOpen(i, Tail(r))

\* Function x may be on top of r.
Fits(x, r) ==
    \/ x = Start /\ FitsStart(r)
    \/ started /\ r = <<>> /\ x \in {Do("ping", None), Do("clean", None), Do("abort", None)}
    \/ x = Do("drain", None) /\ r = <<>>
    \/ x = Do("final", None) /\ r = MessageEnd /\ started
    \/ x = Do("mdelta", None) /\ r = Push(Do("mstop", None), <<>>) /\ started /\ active = None
    \/ x \in {Do("mstop", None), Do("error", None)} /\ r = <<>> /\ started /\ active = None
    \/ \E i \in OutIdx : FitsBlock(i, x, r)

Stacked == todo # <<>> => terminus = "none" /\ Fits(Head(todo), Tail(todo))

\* The message's closing delta is written and its stop is not.
Ending == todo # <<>> /\ Head(todo) = Do("mstop", None)

Wire ==
    /\ block = IF active = None THEN None ELSE blk[active].index
    /\ next = nextIndex
    /\ active # None =>
          started /\ blk[active].started /\ ~blk[active].stopped /\ blk[active].index \in Nat
    /\ \A i \in OutIdx : blk[i].started /\ ~blk[i].stopped => active = i
    /\ \A i \in OutIdx : blk[i].kind = "none" => ~blk[i].started /\ ~blk[i].stopped
    /\ phase = IF terminus # "none" THEN terminus
               ELSE IF ~started THEN "before"
               ELSE IF Ending THEN "tail" ELSE "body"

Running == Typed /\ Stacked /\ Wire

\* Once Run has returned nothing is said any more.
TranslatorInv == ended = "no" => Running

-----------------------------------------------------------------------------
(* The stack *)

\* A set of naturals that is not empty has a least member.
LEMMA NatMin ==
    ASSUME NEW T, T \subseteq Nat, T # {}
    PROVE  \E m \in T : \A k \in T : m <= k
  <1>1. \E x \in T : \A y \in T : ~ (<<y, x>> \in OpToRel(<, Nat))
    BY WFMin, NatLessThanWellFounded
  <1>2. PICK x \in T : \A y \in T : ~ (<<y, x>> \in OpToRel(<, Nat))
    BY <1>1
  <1>3. \A y \in T : ~ (y < x)
    BY <1>2 DEF OpToRel
  <1> QED
    BY <1>3

\* A stack pushed onto is popped to what it was.
LEMMA PushFacts ==
    ASSUME NEW S, NEW x \in S, NEW r \in Seq(S)
    PROVE  /\ Push(x, r) \in Seq(S) /\ Push(x, r) # <<>>
           /\ Head(Push(x, r)) = x /\ Tail(Push(x, r)) = r
  <1>1. <<x>> \in Seq(S) /\ Len(<<x>>) = 1 /\ <<x>>[1] = x
    OBVIOUS
  <1>2. /\ Push(x, r) \in Seq(S) /\ Len(Push(x, r)) = 1 + Len(r) /\ Len(r) \in Nat
        /\ \A i \in 1 .. 1 + Len(r) : Push(x, r)[i] = IF i <= 1 THEN <<x>>[i] ELSE r[i - 1]
    BY <1>1, ConcatProperties, LenProperties DEF Push
  <1>3. Push(x, r) # <<>>
    BY <1>2, EmptySeq
  <1>4. Head(Push(x, r)) = x
    BY <1>1, <1>2, <1>3
  <1>5. Tail(Push(x, r)) \in Seq(S) /\ Len(Tail(Push(x, r))) = Len(r)
        /\ \A i \in 1 .. Len(r) : Tail(Push(x, r))[i] = Push(x, r)[i + 1]
    BY <1>2, <1>3, HeadTailProperties
  <1>6. \A i \in 1 .. Len(r) : Tail(Push(x, r))[i] = r[i]
    BY <1>2, <1>5
  <1>7. Tail(Push(x, r)) = r
    BY <1>5, <1>6, SeqEqual
  <1> QED
    BY <1>2, <1>3, <1>4, <1>7

\* Concatenations of short tuples.
LEMMA Tuples ==
    ASSUME NEW S, NEW a \in S, NEW b \in S, NEW c \in S
    PROVE  /\ <<a>> \o <<b>> = <<a, b>>
           /\ <<a>> \o <<b, c>> = <<a, b, c>>
           /\ <<a, b>> \o <<c>> = <<a, b, c>>
  <1>1. /\ <<a>> \in Seq(S) /\ <<b>> \in Seq(S) /\ <<c>> \in Seq(S)
        /\ <<a, b>> \in Seq(S) /\ <<b, c>> \in Seq(S) /\ <<a, b, c>> \in Seq(S)
    OBVIOUS
  <1>2. /\ Len(<<a>>) = 1 /\ Len(<<b>>) = 1 /\ Len(<<c>>) = 1 /\ Len(<<a, b>>) = 2
        /\ Len(<<b, c>>) = 2 /\ Len(<<a, b, c>>) = 3
    OBVIOUS
  <1>3. <<a>> \o <<b>> = <<a, b>>
    <2>1. /\ <<a>> \o <<b>> \in Seq(S) /\ Len(<<a>> \o <<b>>) = 2
          /\ \A i \in 1..2 : (<<a>> \o <<b>>)[i] = IF i <= 1 THEN <<a>>[i] ELSE <<b>>[i - 1]
      BY <1>1, <1>2, ConcatProperties
    <2>2. \A i \in 1..2 : (<<a>> \o <<b>>)[i] = <<a, b>>[i]
      BY <2>1
    <2> QED
      BY <1>1, <1>2, <2>1, <2>2, SeqEqual
  <1>4. <<a>> \o <<b, c>> = <<a, b, c>>
    <2>1. /\ <<a>> \o <<b, c>> \in Seq(S) /\ Len(<<a>> \o <<b, c>>) = 3
          /\ \A i \in 1..3 : (<<a>> \o <<b, c>>)[i] = IF i <= 1 THEN <<a>>[i] ELSE <<b, c>>[i - 1]
      BY <1>1, <1>2, ConcatProperties
    <2>2. \A i \in 1..3 : (<<a>> \o <<b, c>>)[i] = <<a, b, c>>[i]
      BY <2>1
    <2> QED
      BY <1>1, <1>2, <2>1, <2>2, SeqEqual
  <1>5. <<a, b>> \o <<c>> = <<a, b, c>>
    <2>1. /\ <<a, b>> \o <<c>> \in Seq(S) /\ Len(<<a, b>> \o <<c>>) = 3
          /\ \A i \in 1..3 : (<<a, b>> \o <<c>>)[i] = IF i <= 2 THEN <<a, b>>[i] ELSE <<c>>[i - 2]
      BY <1>1, <1>2, ConcatProperties
    <2>2. \A i \in 1..3 : (<<a, b>> \o <<c>>)[i] = <<a, b, c>>[i]
      BY <2>1
    <2> QED
      BY <1>1, <1>2, <2>1, <2>2, SeqEqual
  <1> QED
    BY <1>3, <1>4, <1>5

\* Then(rest) pushes the functions of rest, and handlers start from an empty stack.
LEMMA ThenFacts ==
    ASSUME NEW a \in Cmds, NEW b \in Cmds, NEW c \in Cmds, NEW r \in Seq(Cmds)
    PROVE  /\ <<>> \o r = r
           /\ <<a>> \o r = Push(a, r)
           /\ <<a, b>> \o r = Push(a, Push(b, r))
           /\ <<a, b, c>> \o r = Push(a, Push(b, Push(c, r)))
           /\ <<a>> \o <<>> = <<a>> /\ <<a>> \o <<b>> = <<a, b>> /\ <<a>> \o <<b, c>> = <<a, b, c>>
           /\ <<a, b>> \o <<c>> = <<a, b, c>>
           /\ <<>> \o <<a>> = <<a>>
           /\ <<a>> = Push(a, <<>>) /\ <<a, b>> = Push(a, Push(b, <<>>))
  <1>1. /\ <<a>> \in Seq(Cmds) /\ <<b>> \in Seq(Cmds) /\ <<c>> \in Seq(Cmds) /\ <<>> \in Seq(Cmds)
    OBVIOUS
  <1>2. <<a>> \o <<b>> = <<a, b>> /\ <<b>> \o <<c>> = <<b, c>> /\ <<a>> \o <<b, c>> = <<a, b, c>>
        /\ <<a, b>> \o <<c>> = <<a, b, c>>
    BY Tuples
  <1>3. <<a, b>> \o r = Push(a, Push(b, r))
    <2>1. (<<a>> \o <<b>>) \o r = <<a>> \o (<<b>> \o r)
      BY <1>1, ConcatAssociative
    <2> QED
      BY <1>2, <2>1, Zenon DEF Push
  <1>4. <<b, c>> \in Seq(Cmds) /\ <<b, c>> \o r = Push(b, Push(c, r))
    <2>1. (<<b>> \o <<c>>) \o r = <<b>> \o (<<c>> \o r)
      BY <1>1, ConcatAssociative
    <2>2. <<b, c>> \in Seq(Cmds)
      OBVIOUS
    <2> QED
      BY <1>2, <2>1, <2>2, Zenon DEF Push
  <1>5. <<a, b, c>> \o r = Push(a, Push(b, Push(c, r)))
    <2>1. (<<a>> \o <<b, c>>) \o r = <<a>> \o (<<b, c>> \o r)
      BY <1>1, <1>4, ConcatAssociative
    <2> QED
      BY <1>2, <1>4, <2>1, Zenon DEF Push
  <1>6. <<>> \o r = r /\ <<a>> \o <<>> = <<a>> /\ <<b>> \o <<>> = <<b>> /\ <<>> \o <<a>> = <<a>>
    BY <1>1, ConcatEmptySeq
  <1> QED
    BY <1>1, <1>2, <1>3, <1>5, <1>6 DEF Push

-----------------------------------------------------------------------------
(* The blocks *)

\* A block's place on the wire is what it was.
Same(b, c) ==
    /\ b.started = c.started /\ b.stopped = c.stopped
    /\ c.started => b.index = c.index
    /\ c.kind # "none" => b.kind = c.kind

\* One lemma for all updates of fields that are not a block's place.
LEMMA BlockFields ==
    ASSUME NEW c \in Blocks
    PROVE  /\ c.kind \in Kinds \cup {"none"} /\ c.index \in Nat \cup {None}
           /\ c.started \in BOOLEAN /\ c.stopped \in BOOLEAN /\ c.dropped \in BOOLEAN
           /\ c.done \in BOOLEAN /\ c.argsSeen \in BOOLEAN /\ c.argsDone \in BOOLEAN
           /\ c.fullArgs \in BOOLEAN /\ c.enc \in BOOLEAN /\ c.ident \in BOOLEAN
           /\ c.closing \in {"no", "plain", "enc", "full", "empty"}
           /\ c.pending \in Seq(Nat) /\ c.got \in Nat /\ c.sent \in Nat
  BY DEF Blocks

\* The first sight of an output_index makes a block that is not on the wire.
LEMMA BlockForFacts ==
    ASSUME Typed, Wire, NEW i \in OutIdx, NEW kind \in Kinds
    PROVE  /\ BlockFor(i, kind) \in Blocks /\ Same(BlockFor(i, kind), blk[i])
           /\ BlockFor(i, kind).kind # "none"
  <1>1. PICK c \in Blocks : c = blk[i]
    BY DEF Typed
  <1>2. CASE c.kind # "none"
    BY <1>1, <1>2 DEF BlockFor, Same
  <1>3. CASE c.kind = "none"
    <2>1. ~c.started /\ ~c.stopped /\ c.started \in BOOLEAN /\ c.stopped \in BOOLEAN
      BY <1>1, <1>3 DEF Wire, Blocks
    <2>2. PICK drop \in BOOLEAN : drop = (kind = "thinking" /\ opt.drop)
      OBVIOUS
    <2>3. BlockFor(i, kind) = [Unseen EXCEPT !.kind = kind, !.dropped = drop]
      BY <1>1, <1>3, <2>2 DEF BlockFor
    <2>4. Unseen \in Blocks /\ Unseen.started = FALSE /\ Unseen.stopped = FALSE
      BY DEF Unseen, Blocks, Kinds, None
    <2>5. PICK u \in Blocks : u = Unseen
      BY <2>4
    <2>6. [u EXCEPT !.kind = kind, !.dropped = drop] \in Blocks
      BY DEF Blocks
    <2>7. BlockFor(i, kind) \in Blocks
      BY <2>3, <2>5, <2>6
    <2>8. BlockFor(i, kind).started = FALSE /\ BlockFor(i, kind).stopped = FALSE
          /\ BlockFor(i, kind).kind = kind
      BY <2>3, <2>4, <2>5 DEF Blocks
    <2>9. Same(BlockFor(i, kind), blk[i])
      BY <1>1, <1>3, <2>1, <2>8 DEF Same
    <2> QED
      BY <2>7, <2>8, <2>9 DEF Kinds
  <1> QED
    BY <1>2, <1>3

\* The first buffering block is a block.
LEMMA FirstBufferingType ==
    ASSUME order \in Seq(OutIdx) PROVE FirstBuffering \in OutIdx \cup {None}
  <1> DEFINE waiting == {k \in DOMAIN order : Buffering(blk[order[k]])}
  <1>1. DOMAIN order = 1..Len(order) /\ Len(order) \in Nat /\ \A k \in DOMAIN order : order[k] \in OutIdx
    OBVIOUS
  <1>2. CASE waiting = {}
    BY <1>2 DEF FirstBuffering
  <1>3. CASE waiting # {}
    <2>1. waiting \subseteq Nat
      BY <1>1
    <2>2. PICK m \in waiting : \A k \in waiting : m <= k
      BY <1>3, <2>1, NatMin
    <2>3. Min(waiting) \in waiting
      BY <2>2 DEF Min
    <2> QED
      BY <1>1, <1>3, <2>3 DEF FirstBuffering
  <1> QED
    BY <1>2, <1>3

-----------------------------------------------------------------------------
(* The shapes of a step *)

\* What a step leaves on the stack, unless it is the end of the message.
Follows ==
    /\ todo \in Seq(Cmds)
    /\ todo # <<>> => Fits(Head(todo), Tail(todo)) /\ Head(todo) # Do("mstop", None)

\* A step of the translator is one of the contract, or says nothing.
Simulated == TranslatorInv' /\ [Protocol!Next]_(Protocol!vars)

\* What each function on top of the stack may rely on.
LEMMA FitsOp ==
    ASSUME NEW op, NEW a, NEW r, Fits(Do(op, a), r)
    PROVE  /\ op = "start" => FitsStart(r)
           /\ op \in {"ping", "clean", "abort"} => started /\ r = <<>>
           /\ op = "drain" => r = <<>>
           /\ op = "final" => r = MessageEnd /\ started
           /\ op = "mdelta" => r = Push(Do("mstop", None), <<>>) /\ started /\ active = None
           /\ op \in {"mstop", "error"} => r = <<>> /\ started /\ active = None
           /\ op \in {"done", "push", "emit", "open", "flush", "stop", "halt", "close"} =>
                 a \in OutIdx /\ FitsBlock(a, Do(op, a), r)
  BY DEF Fits, FitsBlock, Do, Start

\* The same, function by function.
LEMMA FitsBlockOp ==
    ASSUME NEW op, NEW a, NEW r, FitsBlock(a, Do(op, a), r)
    PROVE  /\ op = "done" => r = <<>>
           /\ op = "push" => r = <<>> /\ started /\ blk[a].kind # "none"
           /\ op = "emit" => r = <<>> /\ started /\ active = a
           /\ op = "open" => CanOpen(a, r)
           /\ op = "flush" => started /\ active = a /\ r \in AfterFlush(a)
           /\ op = "stop" => active \in {None, a} /\ (r = Drain \/ (r = Final /\ started))
           /\ op = "halt" => started /\ active = a /\ r \in {Drain, Final, Errors}
           /\ op = "close" => /\ started /\ active = a
                              /\ \E k \in {Drain, Final, Errors} : r = Push(Do("halt", a), k)
  BY DEF FitsBlock, Do

\* The function on top of the stack is there for a reason.
LEMMA Top ==
    ASSUME Running, NEW op, At(op)
    PROVE  /\ terminus = "none" /\ op \in Ops
           /\ Head(todo) \in Cmds /\ Tail(todo) \in Seq(Cmds)
           /\ Head(todo) = Do(op, Arg) /\ Arg \in OutIdx \cup {None}
           /\ Fits(Do(op, Arg), Tail(todo))
           /\ op # "mstop" => ~Ending
  <1>1. todo \in Seq(Cmds) /\ todo # <<>>
    BY DEF Running, Typed, At
  <1>2. Head(todo) \in Cmds /\ Tail(todo) \in Seq(Cmds)
    BY <1>1, HeadTailProperties
  <1>3. Head(todo) = Do(op, Arg) /\ op \in Ops /\ Arg \in OutIdx \cup {None}
    BY <1>2 DEF At, Arg, Do, Cmds
  <1>4. Fits(Head(todo), Tail(todo)) /\ terminus = "none"
    BY <1>1 DEF Running, Stacked
  <1>5. op # "mstop" => ~Ending
    BY <1>3 DEF Ending, Do
  <1> QED
    BY <1>2, <1>3, <1>4, <1>5

\* Every function may be put on the stack.
LEMMA DoTypes ==
    ASSUME NEW i \in OutIdx \cup {None}, NEW op \in Ops
    PROVE  Do(op, i) \in Cmds
  BY DEF Do, Cmds

\* A stack pushed together is as good as its top.
LEMMA FollowsPush ==
    ASSUME NEW x \in Cmds, NEW r \in Seq(Cmds), todo' = Push(x, r), Fits(x, r)',
           x # Do("mstop", None)
    PROVE  Follows'
  <1>1. todo' \in Seq(Cmds) /\ Head(todo') = x /\ Tail(todo') = r
    BY PushFacts
  <1> QED
    BY <1>1 DEF Follows

\* Nothing is said, and no block changes its place.
LEMMA Quiet ==
    ASSUME Running, terminus = "none", ~Ending,
           UNCHANGED <<started, terminus, nextIndex, active, sink>>,
           blk' \in [OutIdx -> Blocks], \A j \in OutIdx : Same(blk'[j], blk[j]),
           order' \in Seq(OutIdx), frame'.type \in ItemTypes => frame'.i \in OutIdx, Follows'
    PROVE  Simulated
  <1>1. Typed'
    BY DEF Running, Typed, Follows
  <1>2. Stacked'
    BY DEF Stacked, Follows
  <1>3. ~Ending'
    BY DEF Ending, Follows
  <1>4. \A j \in OutIdx : blk'[j].kind = "none" => blk[j].kind = "none"
    BY DEF Same
  <1>5. Wire'
    BY <1>3, <1>4 DEF Running, Wire, Typed, Same, sink
  <1> QED
    BY <1>1, <1>2, <1>5 DEF Simulated, TranslatorInv, Running, Protocol!vars, sink

\* A delta of the open block.
LEMMA Delta ==
    ASSUME Running, terminus = "none", ~Ending, started, NEW i \in OutIdx, active = i,
           Say("BlockDelta", blk[i].index),
           UNCHANGED <<started, terminus, nextIndex, active, order, frame>>,
           blk' \in [OutIdx -> Blocks], \A j \in OutIdx : Same(blk'[j], blk[j]), Follows'
    PROVE  Simulated
  <1>1. Typed'
    BY DEF Running, Typed, Follows
  <1>2. Stacked'
    BY DEF Stacked, Follows
  <1>3. ~Ending'
    BY DEF Ending, Follows
  <1>4. \A j \in OutIdx : blk'[j].kind = "none" => blk[j].kind = "none"
    BY DEF Same
  <1>5. block' = block /\ next' = next /\ phase' = phase
        /\ call' = [op |-> "BlockDelta", index |-> blk[i].index]
    BY DEF Say
  <1>6. active # None /\ phase = "body" /\ block = blk[i].index /\ blk[i].index \in Nat
    BY TranslatorAssumption DEF Running, Wire
  <1>7. Wire'
    BY <1>3, <1>4, <1>5, <1>6 DEF Running, Wire, Typed, Same
  <1>8. Protocol!BlockDelta
    BY <1>5, <1>6 DEF Protocol!BlockDelta, Protocol!Said, Protocol!NoBlock
  <1> QED
    BY <1>1, <1>2, <1>7, <1>8 DEF Simulated, TranslatorInv, Running, Protocol!Next

-----------------------------------------------------------------------------
(* The select loop *)

\* The stacks that a handler leaves.
LEMMA Begins ==
    ASSUME NEW i \in OutIdx,
           \/ todo' = <<>>
           \/ todo' = <<Start>>
           \/ todo' = <<Start, Do("open", i)>> /\ active' = None
           \/ todo' = <<Start, Do("push", i)>> /\ blk'[i].kind # "none"
           \/ todo' = <<Do("done", i)>>
    PROVE  Follows'
  <1>1. /\ Start \in Cmds /\ Do("open", i) \in Cmds /\ Do("push", i) \in Cmds
        /\ Do("done", i) \in Cmds /\ <<>> \in Seq(Cmds)
    BY DoTypes DEF Ops, Start
  <1>2. CASE todo' = <<>>
    BY <1>1, <1>2 DEF Follows
  <1>3. CASE todo' = <<Start>>
    <2>1. todo' = Push(Start, <<>>)
      BY <1>1, <1>3, ThenFacts
    <2>2. Fits(Start, <<>>)'
      BY DEF Fits, FitsStart
    <2> QED
      BY <1>1, <2>1, <2>2, FollowsPush DEF Start, Do
  <1>4. CASE todo' = <<Start, Do("open", i)>> /\ active' = None
    <2> DEFINE r == Push(Do("open", i), <<>>)
    <2>1. todo' = Push(Start, r)
      BY <1>1, <1>4, ThenFacts
    <2>2. r \in Seq(Cmds) /\ r # <<>> /\ Head(r) = Do("open", i) /\ Tail(r) = <<>>
      BY <1>1, PushFacts
    <2> HIDE DEF r
    <2>3. Fits(Start, r)'
      BY <1>4, <2>2 DEF Fits, FitsStart, CanOpen
    <2> QED
      BY <1>1, <2>1, <2>2, <2>3, FollowsPush DEF Start, Do
  <1>5. CASE todo' = <<Start, Do("push", i)>> /\ blk'[i].kind # "none"
    <2>1. todo' = Push(Start, Push(Do("push", i), <<>>))
      BY <1>1, <1>5, ThenFacts
    <2>2. Push(Do("push", i), <<>>) \in Seq(Cmds)
      BY <1>1, PushFacts
    <2>3. Fits(Start, Push(Do("push", i), <<>>))'
      BY <1>5 DEF Fits, FitsStart
    <2> QED
      BY <1>1, <2>1, <2>2, <2>3, FollowsPush DEF Start, Do
  <1>6. CASE todo' = <<Do("done", i)>>
    <2>1. todo' = Push(Do("done", i), <<>>)
      BY <1>1, <1>6, ThenFacts
    <2>2. Fits(Do("done", i), <<>>)'
      BY DEF Fits, FitsBlock
    <2> QED
      BY <1>1, <2>1, <2>2, FollowsPush DEF Do
  <1> QED
    BY <1>2, <1>3, <1>4, <1>5, <1>6

\* The stacks of what is about no block.
LEMMA BeginsAlone ==
    ASSUME NEW op \in {"ping", "clean", "abort"},
           \/ todo' = <<Start>>
           \/ todo' = <<Start, Do("clean", None)>>
           \/ todo' = <<Do(op, None)>> /\ started'
    PROVE  Follows'
  <1>1. Start \in Cmds /\ Do("clean", None) \in Cmds /\ Do(op, None) \in Cmds /\ <<>> \in Seq(Cmds)
    BY DoTypes DEF Ops, Start
  <1>2. CASE todo' = <<Start>>
    <2>1. todo' = Push(Start, <<>>)
      BY <1>1, <1>2, ThenFacts
    <2>2. Fits(Start, <<>>)'
      BY DEF Fits, FitsStart
    <2> QED
      BY <1>1, <2>1, <2>2, FollowsPush DEF Start, Do
  <1>3. CASE todo' = <<Start, Do("clean", None)>>
    <2>1. todo' = Push(Start, Push(Do("clean", None), <<>>))
      BY <1>1, <1>3, ThenFacts
    <2>2. Push(Do("clean", None), <<>>) \in Seq(Cmds)
      BY <1>1, PushFacts
    <2>3. Fits(Start, Push(Do("clean", None), <<>>))'
      BY DEF Fits, FitsStart
    <2> QED
      BY <1>1, <2>1, <2>2, <2>3, FollowsPush DEF Start, Do
  <1>4. CASE todo' = <<Do(op, None)>> /\ started'
    <2>1. todo' = Push(Do(op, None), <<>>)
      BY <1>1, <1>4, ThenFacts
    <2>2. Fits(Do(op, None), <<>>)'
      BY <1>4 DEF Fits
    <2> QED
      BY <1>1, <2>1, <2>2, FollowsPush DEF Do
  <1> QED
    BY <1>2, <1>3, <1>4

\* What a handler starts from.
LEMMA Taken ==
    ASSUME Running, NEW type, Take(type)
    PROVE  /\ terminus = "none" /\ todo = <<>> /\ ~Ending
           /\ UNCHANGED <<started, terminus, nextIndex, active, sink>>
           /\ frame'.type \notin ItemTypes /\ frame.type = type
           /\ type \in ItemTypes => frame.i \in OutIdx
  BY DEF Take, Selecting, Ending, NoFrame, ItemTypes, Running, Typed

\* A handler's update of a block it looked up.
LEMMA Registered ==
    ASSUME Typed, NEW i \in OutIdx, NEW b \in Blocks, Same(b, blk[i]), Register(i, b)
    PROVE  /\ blk' \in [OutIdx -> Blocks] /\ blk'[i] = b
           /\ \A j \in OutIdx : Same(blk'[j], blk[j])
           /\ order' \in Seq(OutIdx)
  BY DEF Typed, Register, Same

\* Nothing of a block changes.
LEMMA Untouched ==
    ASSUME Typed, UNCHANGED <<blk, order>>
    PROVE  /\ blk' \in [OutIdx -> Blocks] /\ \A j \in OutIdx : Same(blk'[j], blk[j])
           /\ order' \in Seq(OutIdx)
  BY DEF Typed, Same

\* Whether a field came with the frame is one or the other.
LEMMA Truth ==
    ASSUME NEW x, NEW s
    PROVE  \E t \in BOOLEAN : t = (x \in s)
  <1>1. (x \in s) \in BOOLEAN
    OBVIOUS
  <1> QED
    BY <1>1

\* The fields that handlers set leave a block where it is.
LEMMA Updates ==
    ASSUME NEW b \in Blocks, NEW t \in BOOLEAN, NEW u \in BOOLEAN
    PROVE  /\ LET n == [b EXCEPT !.got = @ + 1, !.argsSeen = @ \/ t] IN n \in Blocks /\ Same(n, b)
           /\ LET n == [b EXCEPT !.ident = @ \/ t, !.fullArgs = @ \/ u] IN n \in Blocks /\ Same(n, b)
           /\ LET n == [b EXCEPT !.fullArgs = @ \/ u, !.argsDone = TRUE] IN n \in Blocks /\ Same(n, b)
           /\ LET n == [b EXCEPT !.ident = @ \/ t, !.fullArgs = @ \/ u, !.argsDone = TRUE]
              IN n \in Blocks /\ Same(n, b)
           /\ LET n == [b EXCEPT !.enc = @ \/ t] IN n \in Blocks /\ Same(n, b)
  <1>1. PICK at \in BOOLEAN, iu \in BOOLEAN, fu \in BOOLEAN, et \in BOOLEAN :
            at = (b.argsSeen \/ t) /\ iu = (b.ident \/ t) /\ fu = (b.fullArgs \/ u)
            /\ et = (b.enc \/ t)
    OBVIOUS
  <1>2. /\ [b EXCEPT !.got = @ + 1, !.argsSeen = @ \/ t] = [b EXCEPT !.got = @ + 1, !.argsSeen = at]
        /\ [b EXCEPT !.ident = @ \/ t, !.fullArgs = @ \/ u] = [b EXCEPT !.ident = iu, !.fullArgs = fu]
        /\ [b EXCEPT !.fullArgs = @ \/ u, !.argsDone = TRUE] = [b EXCEPT !.fullArgs = fu, !.argsDone = TRUE]
        /\ [b EXCEPT !.ident = @ \/ t, !.fullArgs = @ \/ u, !.argsDone = TRUE]
             = [b EXCEPT !.ident = iu, !.fullArgs = fu, !.argsDone = TRUE]
        /\ [b EXCEPT !.enc = @ \/ t] = [b EXCEPT !.enc = et]
    BY <1>1
  <1>3. LET n == [b EXCEPT !.got = @ + 1, !.argsSeen = at] IN n \in Blocks /\ Same(n, b)
    <2>1. PICK m \in Nat : m = b.got + 1
      BY BlockFields
    <2>2. LET n == [b EXCEPT !.got = m, !.argsSeen = at] IN n \in Blocks /\ Same(n, b)
      BY DEF Blocks, Same
    <2> QED
      BY <2>1, <2>2
  <1>4. LET n == [b EXCEPT !.ident = iu, !.fullArgs = fu] IN n \in Blocks /\ Same(n, b)
    BY DEF Blocks, Same
  <1>5. LET n == [b EXCEPT !.fullArgs = fu, !.argsDone = TRUE] IN n \in Blocks /\ Same(n, b)
    BY DEF Blocks, Same
  <1>6. LET n == [b EXCEPT !.ident = iu, !.fullArgs = fu, !.argsDone = TRUE] IN n \in Blocks /\ Same(n, b)
    BY DEF Blocks, Same
  <1>7. LET n == [b EXCEPT !.enc = et] IN n \in Blocks /\ Same(n, b)
    BY DEF Blocks, Same
  <1> QED
    BY <1>2, <1>3, <1>4, <1>5, <1>6, <1>7, Zenon

\* A handler that looks a block up and updates it.
LEMMA HandlerOfBlock ==
    ASSUME Running, NEW type \in ItemTypes, Take(type), NEW kind \in Kinds,
           NEW n \in Blocks, Same(n, BlockFor(frame.i, kind)), Register(frame.i, n),
           \/ todo' = <<>>
           \/ todo' = <<Start>>
           \/ todo' = OpenIfFree(frame.i)
           \/ todo' = <<Start, Do("push", frame.i)>>
           \/ todo' = <<Do("done", frame.i)>>
    PROVE  Simulated
  <1>1. PICK i \in OutIdx : i = frame.i
    BY Taken
  <1>2. /\ BlockFor(i, kind) \in Blocks /\ Same(BlockFor(i, kind), blk[i])
        /\ BlockFor(i, kind).kind # "none"
    BY BlockForFacts DEF Running
  <1>3. Same(n, blk[i]) /\ n.kind # "none"
    BY <1>1, <1>2 DEF Same
  <1>4. /\ blk' \in [OutIdx -> Blocks] /\ blk'[i] = n
        /\ \A j \in OutIdx : Same(blk'[j], blk[j]) /\ order' \in Seq(OutIdx)
    BY <1>1, <1>3, Registered DEF Running
  <1>5. /\ terminus = "none" /\ ~Ending /\ frame'.type \notin ItemTypes
        /\ UNCHANGED <<started, terminus, nextIndex, active, sink>>
    BY Taken
  <1>6. Follows'
    BY <1>1, <1>3, <1>4, <1>5, Begins DEF OpenIfFree
  <1> QED
    BY <1>4, <1>5, <1>6, Quiet

\* A handler that touches no block.
LEMMA HandlerOfNone ==
    ASSUME Running, NEW type, Take(type), UNCHANGED <<blk, order>>, Follows'
    PROVE  Simulated
  <1>1. /\ terminus = "none" /\ ~Ending /\ frame'.type \notin ItemTypes
        /\ UNCHANGED <<started, terminus, nextIndex, active, sink>>
    BY Taken
  <1> QED
    BY <1>1, Untouched, Quiet DEF Running

\* Every frame's handler says nothing itself.
LEMMA HandlersQuiet ==
    ASSUME Running,
           \/ OnIgnored \/ OnReasoningTextDone \/ OnCreated \/ OnPartAdded \/ OnReasoningPart
           \/ OnDelta("textDelta", "text") \/ OnDelta("reasoningDelta", "thinking")
           \/ OnDelta("argsDelta", "tool")
           \/ OnTextDone \/ OnToolAdded \/ OnArgsDone \/ OnToolDone
           \/ OnReasoningDone \/ OnMessageDone \/ OnCompleted
    PROVE  Simulated
  <1> USE DEF ItemTypes, Kinds
  <1>0. /\ \A k \in Kinds : frame.i \in OutIdx => BlockFor(frame.i, k) \in Blocks
        /\ \A b \in Blocks : Same(b, b)
    BY BlockForFacts DEF Running, Same
  <1>1. CASE OnIgnored \/ OnReasoningTextDone
    <2>1. PICK type \in {"ignored", "reasoningTextDone"} : Take(type)
      BY <1>1 DEF OnIgnored, OnReasoningTextDone
    <2>2. UNCHANGED <<blk, order, todo>> /\ todo = <<>>
      BY <1>1, <2>1, Taken DEF OnIgnored, OnReasoningTextDone
    <2>3. Follows'
      BY <2>2 DEF Follows, Running, Typed
    <2> QED
      BY <2>1, <2>2, <2>3, HandlerOfNone
  <1>2. CASE OnCreated
    <2>1. Take("created") /\ UNCHANGED <<blk, order>> /\ todo' = <<Start>>
      BY <1>2 DEF OnCreated
    <2>2. Follows'
      BY <2>1, BeginsAlone
    <2> QED
      BY <2>1, <2>2, HandlerOfNone
  <1>3. CASE OnPartAdded
    <2>1. Take("partAdded") /\ Register(frame.i, BlockFor(frame.i, "text"))
          /\ todo' = OpenIfFree(frame.i)
      BY <1>3 DEF OnPartAdded
    <2>2. PICK n \in Blocks : n = BlockFor(frame.i, "text")
      BY <1>0, <2>1, Taken
    <2> QED
      BY <1>0, <2>1, <2>2, HandlerOfBlock
  <1>4. CASE OnReasoningPart
    <2>1. Take("reasoningPart") /\ Register(frame.i, BlockFor(frame.i, "thinking"))
          /\ (todo' = <<Start>> \/ todo' = OpenIfFree(frame.i))
      BY <1>4 DEF OnReasoningPart
    <2>2. PICK n \in Blocks : n = BlockFor(frame.i, "thinking")
      BY <1>0, <2>1, Taken
    <2> QED
      BY <1>0, <2>1, <2>2, HandlerOfBlock
  <1>5. ASSUME NEW type \in ItemTypes, NEW kind \in Kinds, OnDelta(type, kind) PROVE Simulated
    <2>1. Take(type) /\ todo' = <<Start, Do("push", frame.i)>>
          /\ LET b == BlockFor(frame.i, kind) IN
             Register(frame.i, [b EXCEPT !.got = @ + 1, !.argsSeen = @ \/ kind = "tool"])
      BY <1>5 DEF OnDelta
    <2>2. PICK b \in Blocks : b = BlockFor(frame.i, kind)
      BY <1>0, <2>1, Taken
    <2>3. PICK t \in BOOLEAN : t = (kind = "tool")
      OBVIOUS
    <2>4. PICK n \in Blocks : n = [b EXCEPT !.got = @ + 1, !.argsSeen = @ \/ t] /\ Same(n, b)
      BY Updates
    <2>5. Register(frame.i, n)
      BY <2>1, <2>2, <2>3, <2>4
    <2> QED
      BY <2>1, <2>2, <2>4, <2>5, HandlerOfBlock
  <1>6. CASE OnTextDone
    <2>1. Take("textDone") /\ Register(frame.i, BlockFor(frame.i, "text"))
          /\ todo' = <<Do("done", frame.i)>>
      BY <1>6 DEF OnTextDone
    <2>2. PICK n \in Blocks : n = BlockFor(frame.i, "text")
      BY <1>0, <2>1, Taken
    <2> QED
      BY <1>0, <2>1, <2>2, HandlerOfBlock
  <1>a. PICK t \in BOOLEAN : t = ("ident" \in frame.has)
    BY Truth
  <1>b. PICK u \in BOOLEAN : u = ("args" \in frame.has)
    BY Truth
  <1>c. PICK e \in BOOLEAN : e = ("enc" \in frame.has)
    BY Truth
  <1>7. t = ("ident" \in frame.has) /\ u = ("args" \in frame.has) /\ e = ("enc" \in frame.has)
    BY <1>a, <1>b, <1>c
  <1>8. CASE OnToolAdded
    <2>1. Take("toolAdded") /\ (todo' = OpenIfFree(frame.i) \/ todo' = <<Start>>)
          /\ LET b == BlockFor(frame.i, "tool") IN
             Register(frame.i, [b EXCEPT !.ident = @ \/ "ident" \in frame.has,
                                         !.fullArgs = @ \/ "args" \in frame.has])
      BY <1>8 DEF OnToolAdded
    <2>2. PICK b \in Blocks : b = BlockFor(frame.i, "tool")
      BY <1>0, <2>1, Taken
    <2>4. PICK n \in Blocks : n = [b EXCEPT !.ident = @ \/ t, !.fullArgs = @ \/ u] /\ Same(n, b)
      BY Updates
    <2>5. Register(frame.i, n)
      BY <2>1, <2>2, <1>7, <2>4
    <2> QED
      BY <2>1, <2>2, <2>4, <2>5, HandlerOfBlock
  <1>9. CASE OnArgsDone
    <2>1. Take("argsDone") /\ todo' = <<Do("done", frame.i)>>
          /\ LET b == BlockFor(frame.i, "tool") IN
             Register(frame.i, [b EXCEPT !.fullArgs = @ \/ "args" \in frame.has, !.argsDone = TRUE])
      BY <1>9 DEF OnArgsDone
    <2>2. PICK b \in Blocks : b = BlockFor(frame.i, "tool")
      BY <1>0, <2>1, Taken
    <2>4. PICK n \in Blocks : n = [b EXCEPT !.fullArgs = @ \/ u, !.argsDone = TRUE] /\ Same(n, b)
      BY Updates
    <2>5. Register(frame.i, n)
      BY <2>1, <2>2, <1>7, <2>4
    <2> QED
      BY <2>1, <2>2, <2>4, <2>5, HandlerOfBlock
  <1>10. CASE OnToolDone
    <2>1. Take("toolDone") /\ todo' = <<Do("done", frame.i)>>
          /\ LET b == BlockFor(frame.i, "tool") IN
             Register(frame.i, [b EXCEPT !.ident = @ \/ "ident" \in frame.has,
                                         !.fullArgs = @ \/ "args" \in frame.has,
                                         !.argsDone = TRUE])
      BY <1>10 DEF OnToolDone
    <2>2. PICK b \in Blocks : b = BlockFor(frame.i, "tool")
      BY <1>0, <2>1, Taken
    <2>4. PICK n \in Blocks :
              n = [b EXCEPT !.ident = @ \/ t, !.fullArgs = @ \/ u, !.argsDone = TRUE] /\ Same(n, b)
      BY Updates
    <2>5. Register(frame.i, n)
      BY <2>1, <2>2, <1>7, <2>4
    <2> QED
      BY <2>1, <2>2, <2>4, <2>5, HandlerOfBlock
  <1>11. CASE OnReasoningDone
    <2>0. Take("reasoningDone") /\ todo = <<>>
      BY <1>11, Taken DEF OnReasoningDone
    <2>1. CASE UNCHANGED <<blk, order, todo>>
      <3>1. Follows'
        BY <2>0, <2>1 DEF Follows, Running, Typed
      <3> QED
        BY <2>0, <2>1, <3>1, HandlerOfNone
    <2>2. CASE /\ todo' = <<Do("done", frame.i)>>
               /\ LET b == BlockFor(frame.i, "thinking") IN
                  Register(frame.i, [b EXCEPT !.enc = @ \/ "enc" \in frame.has])
      <3>2. PICK b \in Blocks : b = BlockFor(frame.i, "thinking")
        BY <1>0, <2>0, Taken
      <3>4. PICK n \in Blocks : n = [b EXCEPT !.enc = @ \/ e] /\ Same(n, b)
        BY Updates
      <3>5. Register(frame.i, n)
        BY <2>2, <3>2, <1>7, <3>4
      <3> QED
        BY <2>0, <2>2, <3>2, <3>4, <3>5, HandlerOfBlock
    <2> QED
      BY <1>11, <2>1, <2>2 DEF OnReasoningDone
  <1>12. CASE OnMessageDone
    <2>1. Take("messageDone") /\ UNCHANGED <<blk, order>> /\ frame.i \in OutIdx
          /\ todo' \in {<<>>, <<Do("done", frame.i)>>}
      BY <1>12, Taken DEF OnMessageDone
    <2>2. PICK i \in OutIdx : i = frame.i
      BY <2>1
    <2>3. Follows'
      BY <2>1, <2>2, Begins
    <2> QED
      BY <2>1, <2>3, HandlerOfNone
  <1>13. CASE OnCompleted
    <2>1. PICK type \in {"completed", "incomplete"} : Take(type)
      BY <1>13 DEF OnCompleted
    <2>2. UNCHANGED <<blk, order>> /\ todo' = <<Start, Do("clean", None)>>
      BY <1>13 DEF OnCompleted
    <2>3. Follows'
      BY <2>2, BeginsAlone
    <2> QED
      BY <2>1, <2>2, <2>3, HandlerOfNone
  <1> QED
    BY <1>1, <1>2, <1>3, <1>4, <1>5, <1>6, <1>8, <1>9, <1>10, <1>11, <1>12, <1>13

\* The scanner and the idle timer touch neither the stack nor the wire.
LEMMA UpstreamQuiet ==
    ASSUME TranslatorInv, Upstream \/ IdleFires
    PROVE  Simulated
  <1>1. ended = "no" /\ UNCHANGED <<core, todo, ended, sink>>
    BY DEF Upstream, IdleFires, ReadItemFrame, ReadStreamFrame, ReadEnd, ReadFrame, Live
  <1>2. Typed /\ Stacked /\ Wire
    BY <1>1 DEF TranslatorInv, Running
  <1>3. frame'.type \in ItemTypes => frame'.i \in OutIdx
    <2>1. CASE ReadItemFrame
      BY <2>1 DEF ReadItemFrame, ReadFrame
    <2>2. CASE ReadStreamFrame
      <3>1. frame'.type \in StreamTypes
        BY <2>2 DEF ReadStreamFrame, ReadFrame
      <3> QED
        BY <3>1 DEF StreamTypes, ItemTypes
    <2>3. CASE ReadEnd \/ IdleFires
      BY <1>2, <2>3 DEF ReadEnd, IdleFires, Typed
    <2> QED
      BY <2>1, <2>2, <2>3 DEF Upstream
  <1>4. Typed'
    BY <1>1, <1>2, <1>3 DEF Typed, core
  <1>5. Stacked'
    BY <1>1, <1>2 DEF Stacked, Fits, FitsStart, FitsBlock, CanOpen, AfterFlush, Buffering, core
  <1>6. Wire'
    BY <1>1, <1>2 DEF Wire, Ending, core, sink
  <1>7. UNCHANGED Protocol!vars
    BY <1>1 DEF Protocol!vars, sink
  <1> QED
    BY <1>4, <1>5, <1>6, <1>7 DEF Simulated, TranslatorInv, Running

\* Run returns in the middle of the stream, and the sink is abandoned.
LEMMA Abandons ==
    ASSUME Running, terminus = "none", ended' # "no", phase' = "abandoned",
           UNCHANGED <<call, block, next>>
    PROVE  Simulated
  <1>1. phase \in {"before", "body", "tail"}
    BY DEF Running, Wire
  <1>2. Protocol!Abandon
    BY <1>1 DEF Protocol!Abandon
  <1> QED
    BY <1>2 DEF Simulated, TranslatorInv, Protocol!Next

\* What the select loop does besides handling frames.
LEMMA LoopSimulated ==
    ASSUME Running,
           \/ Heartbeat \/ OnFailed \/ OnEnd \/ OnIdle \/ Interrupt \/ Return \/ SinkFails
    PROVE  Simulated
  <1>1. ASSUME Selecting, started, NEW op \in {"ping", "clean", "abort"}, todo' = <<Do(op, None)>>,
               UNCHANGED <<core, sink, frame>>
        PROVE  Simulated
    <2>1. Follows'
      BY <1>1, BeginsAlone DEF core
    <2>2. terminus = "none" /\ ~Ending
      BY <1>1 DEF Selecting, Ending
    <2>3. UNCHANGED <<blk, order>>
      BY <1>1 DEF core
    <2>4. frame'.type \in ItemTypes => frame'.i \in OutIdx
      BY <1>1 DEF Running, Typed
    <2> QED
      BY <1>1, <2>1, <2>2, <2>3, <2>4, Untouched, Quiet DEF Running, core
  <1>2. ASSUME Selecting, FailUnstarted PROVE Simulated
    BY <1>2, Abandons DEF Selecting, FailUnstarted, Finish
  <1>3. ASSUME Selecting, NEW clean, HandleEnd(clean) PROVE Simulated
    <2>1. CASE started
      <3>1. PICK op \in {"ping", "clean", "abort"} : todo' = <<Do(op, None)>>
        BY <1>3, <2>1 DEF HandleEnd
      <3>2. UNCHANGED <<core, sink, frame>>
        BY <1>3, <2>1 DEF HandleEnd, loop
      <3> QED
        BY <1>1, <1>3, <2>1, <3>1, <3>2
    <2>2. CASE ~started
      BY <1>2, <1>3, <2>2 DEF HandleEnd
    <2> QED
      BY <2>1, <2>2
  <1>4. CASE Heartbeat
    <2>1. Selecting /\ started /\ todo' = <<Do("ping", None)>> /\ UNCHANGED <<core, sink, frame>>
      BY <1>4 DEF Heartbeat, loop
    <2> QED
      BY <1>1, <2>1
  <1>5. CASE OnFailed
    <2>1. CASE started /\ Take("failed") /\ todo' = <<Do("abort", None)>> /\ UNCHANGED <<blk, order>>
      <3>1. Follows'
        BY <2>1, Taken, BeginsAlone
      <3> QED
        BY <2>1, <3>1, HandlerOfNone
    <2>2. CASE Selecting /\ FailUnstarted
      BY <1>2, <2>2
    <2> QED
      BY <1>5, <2>1, <2>2 DEF OnFailed
  <1>6. CASE OnEnd
    BY <1>3, <1>6 DEF OnEnd
  <1>7. CASE OnIdle
    BY <1>3, <1>7 DEF OnIdle
  <1>8. CASE Interrupt
    BY <1>8, Abandons DEF Interrupt, Selecting, Finish
  <1>9. CASE Return
    <2>1. ended' # "no" /\ UNCHANGED Protocol!vars
      BY <1>9 DEF Return, Finish, Protocol!vars, sink
    <2> QED
      BY <2>1 DEF Simulated, TranslatorInv
  <1>10. CASE SinkFails
    <2>1. todo # <<>> /\ ended' # "no" /\ phase' = "abandoned" /\ UNCHANGED <<call, block, next>>
      BY <1>10 DEF SinkFails, Finish, Writing
    <2>2. terminus = "none"
      BY <2>1 DEF Running, Stacked
    <2> QED
      BY <2>1, <2>2, Abandons
  <1> QED
    BY <1>4, <1>5, <1>6, <1>7, <1>8, <1>9, <1>10

-----------------------------------------------------------------------------
(* The functions *)

\* The stacks that stand for what is still to come.
LEMMA Stacks ==
    /\ <<>> \in Seq(Cmds) /\ Drain \in Seq(Cmds) /\ Final \in Seq(Cmds) /\ Errors \in Seq(Cmds)
    /\ MessageEnd \in Seq(Cmds) /\ Push(Do("mstop", None), <<>>) \in Seq(Cmds)
  <1>1. /\ <<>> \in Seq(Cmds) /\ Do("drain", None) \in Cmds /\ Do("final", None) \in Cmds
        /\ Do("error", None) \in Cmds /\ Do("mdelta", None) \in Cmds /\ Do("mstop", None) \in Cmds
    BY DoTypes DEF Ops
  <1>2. Push(Do("mstop", None), <<>>) \in Seq(Cmds)
    BY <1>1, PushFacts
  <1>3. MessageEnd \in Seq(Cmds)
    BY <1>1, <1>2, PushFacts DEF MessageEnd
  <1>4. Drain \in Seq(Cmds) /\ Errors \in Seq(Cmds)
    BY <1>1, PushFacts DEF Drain, Errors
  <1>5. Final \in Seq(Cmds)
    BY <1>1, <1>3, PushFacts DEF Final
  <1> QED
    BY <1>1, <1>2, <1>3, <1>4, <1>5

\* What is left once a block is stopped.
LEMMA FollowsStop ==
    ASSUME NEW r, todo' = r,
           \/ r = <<>> \/ r = Drain \/ (r = Final /\ started') \/ (r = Errors /\ started' /\ active' = None)
    PROVE  Follows'
  <1>1. CASE r = <<>>
    BY <1>1, Stacks DEF Follows
  <1>2. CASE r = Drain
    <2>1. Do("drain", None) \in Cmds /\ Do("drain", None) # Do("mstop", None)
      BY DoTypes DEF Ops, Do
    <2>2. Fits(Do("drain", None), <<>>)'
      BY DEF Fits
    <2> QED
      BY <1>2, <2>1, <2>2, Stacks, FollowsPush DEF Drain
  <1>3. CASE r = Final /\ started'
    <2>1. Do("final", None) \in Cmds /\ Do("final", None) # Do("mstop", None)
      BY DoTypes DEF Ops, Do
    <2>2. Fits(Do("final", None), MessageEnd)'
      BY <1>3 DEF Fits
    <2> QED
      BY <1>3, <2>1, <2>2, Stacks, FollowsPush DEF Final
  <1>4. CASE r = Errors /\ started' /\ active' = None
    <2>1. Do("error", None) \in Cmds /\ Do("error", None) # Do("mstop", None)
      BY DoTypes DEF Ops, Do
    <2>2. Fits(Do("error", None), <<>>)'
      BY <1>4 DEF Fits
    <2> QED
      BY <1>4, <2>1, <2>2, Stacks, FollowsPush DEF Errors
  <1> QED
    BY <1>1, <1>2, <1>3, <1>4

\* A function that says nothing.
LEMMA QuietFunction ==
    ASSUME Running, NEW op, At(op), op # "mstop", NEW rest, Then(rest),
           UNCHANGED <<started, terminus, nextIndex, active, sink>>,
           blk' \in [OutIdx -> Blocks], \A j \in OutIdx : Same(blk'[j], blk[j]), Follows'
    PROVE  Simulated
  <1>1. terminus = "none" /\ ~Ending
    BY Top
  <1>2. order' \in Seq(OutIdx) /\ (frame'.type \in ItemTypes => frame'.i \in OutIdx)
    BY DEF Running, Typed, Then, loop
  <1> QED
    BY <1>1, <1>2, Quiet

\* Wherever message_start is awaited, what follows may run once it is written.
LEMMA EnsureStartedFollows ==
    ASSUME Running, EnsureStarted
    PROVE  Follows'
  <1>1. PICK r \in Seq(Cmds) : r = Tail(todo)
    BY Top DEF EnsureStarted
  <1>2. todo' = r
    BY <1>1, ConcatEmptySeq DEF EnsureStarted, Then
  <1>3. PICK a : a = Arg
    OBVIOUS
  <1>4. FitsStart(r)
    BY <1>1, <1>3, Top, FitsOp DEF EnsureStarted
  <1>5. started' /\ UNCHANGED <<active, blk>>
    BY DEF EnsureStarted
  <1>6. CASE r = <<>>
    BY <1>2, <1>6, FollowsStop
  <1>7. CASE r = Push(Do("clean", None), <<>>)
    <2>1. Fits(Do("clean", None), <<>>)'
      BY <1>5 DEF Fits
    <2>2. Do("clean", None) \in Cmds /\ Do("clean", None) # Do("mstop", None)
      BY DoTypes DEF Ops, Do
    <2> QED
      BY <1>2, <1>7, <2>1, <2>2, Stacks, FollowsPush
  <1>8. ASSUME NEW i \in OutIdx, r = Push(Do("push", i), <<>>), blk[i].kind # "none"
        PROVE  Follows'
    <2>1. Fits(Do("push", i), <<>>)'
      BY <1>5, <1>8 DEF Fits, FitsBlock
    <2>2. Do("push", i) \in Cmds /\ Do("push", i) # Do("mstop", None)
      BY DoTypes DEF Ops, Do
    <2> QED
      BY <1>2, <1>8, <2>1, <2>2, Stacks, FollowsPush
  <1>9. ASSUME NEW i \in OutIdx, r # <<>>, Head(r) = Do("open", i), CanOpen(i, Tail(r))
        PROVE  Follows'
    <2>1. CanOpen(i, Tail(r))'
      BY <1>1, <1>5, <1>9 DEF CanOpen, Buffering
    <2>2. Fits(Do("open", i), Tail(r))'
      BY <2>1 DEF Fits, FitsBlock
    <2>3. Do("open", i) # Do("mstop", None)
      BY DEF Do
    <2> QED
      BY <1>2, <1>9, <2>2, <2>3 DEF Follows
  <1> QED
    BY <1>4, <1>6, <1>7, <1>8, <1>9 DEF FitsStart

\* ensureStarted writes message_start once.
LEMMA EnsureStartedSimulated ==
    ASSUME Running, EnsureStarted
    PROVE  Simulated
  <1>1. Follows' /\ At("start") /\ Then(<<>>)
    BY EnsureStartedFollows DEF EnsureStarted
  <1>2. CASE started
    <2>1. UNCHANGED <<started, terminus, nextIndex, active, sink>>
      BY <1>2 DEF EnsureStarted, Running, Typed
    <2>2. blk' \in [OutIdx -> Blocks] /\ \A j \in OutIdx : Same(blk'[j], blk[j])
      BY DEF EnsureStarted, Running, Typed, Same
    <2> QED
      BY <1>1, <2>1, <2>2, QuietFunction
  <1>3. CASE ~started
    <2>1. UNCHANGED <<terminus, nextIndex, active, blk, order, frame>> /\ started' = TRUE
      BY DEF EnsureStarted, Then, loop
    <2>2. /\ call' = [op |-> "MessageStart", index |-> None]
          /\ phase' = "body" /\ block' = block /\ next' = next
      BY <1>3 DEF EnsureStarted, Say
    <2>3. terminus = "none" /\ phase = "before"
      BY <1>1, <1>3, Top DEF Running, Wire
    <2>4. Typed' /\ Stacked'
      BY <1>1, <2>1, <2>3 DEF Running, Typed, Stacked, Follows
    <2>5. ~Ending'
      BY <1>1 DEF Ending, Follows
    <2>6. Wire'
      BY <2>1, <2>2, <2>3, <2>5 DEF Running, Wire
    <2>7. Protocol!MessageStart
      BY <2>2, <2>3 DEF Protocol!MessageStart, Protocol!Said, Protocol!NoBlock, None
    <2> QED
      BY <2>4, <2>6, <2>7 DEF Simulated, TranslatorInv, Running, Protocol!Next
  <1> QED
    BY <1>2, <1>3

\* Then(rest) pushes the functions of rest.
LEMMA Pushes ==
    ASSUME NEW r \in Seq(Cmds)
    PROVE  /\ <<>> \o r = r
           /\ \A x \in Cmds : <<x>> \o r = Push(x, r)
           /\ \A x, y \in Cmds : <<x, y>> \o r = Push(x, Push(y, r))
           /\ \A x, y, z \in Cmds : <<x, y, z>> \o r = Push(x, Push(y, Push(z, r)))
           /\ \A x \in Cmds : Push(x, r) \in Seq(Cmds)
  <1>1. <<>> \o r = r
    BY ConcatEmptySeq
  <1>2. ASSUME NEW x \in Cmds, NEW y \in Cmds, NEW z \in Cmds
        PROVE  /\ <<x>> \o r = Push(x, r)
               /\ <<x, y>> \o r = Push(x, Push(y, r))
               /\ <<x, y, z>> \o r = Push(x, Push(y, Push(z, r)))
    <2>1. <<x>> \o r = Push(x, r)
      BY DEF Push
    <2>2. <<x, y>> \o r = Push(x, Push(y, r))
      BY ThenFacts
    <2>3. <<x, y, z>> \o r = Push(x, Push(y, Push(z, r)))
      BY ThenFacts
    <2> QED
      BY <2>1, <2>2, <2>3
  <1>3. \A x \in Cmds : Push(x, r) \in Seq(Cmds)
    BY PushFacts
  <1> QED
    BY <1>1, <1>2, <1>3

\* A block about to be stopped, on the way through the queue or at the end.
LEMMA FollowsStopBlock ==
    ASSUME NEW i \in OutIdx, NEW k, todo' = Push(Do("stop", i), k), active' \in {None, i},
           k = Drain \/ (k = Final /\ started')
    PROVE  Follows'
  <1>1. k \in Seq(Cmds)
    BY Stacks
  <1>2. Do("stop", i) \in Cmds /\ Do("stop", i) # Do("mstop", None)
    BY DoTypes DEF Ops, Do
  <1>3. Fits(Do("stop", i), k)'
    BY DEF Fits, FitsBlock
  <1> QED
    BY <1>1, <1>2, <1>3, FollowsPush

\* A block about to be opened.
LEMMA FollowsOpen ==
    ASSUME NEW i \in OutIdx, NEW r \in Seq(Cmds), todo' = Push(Do("open", i), r), CanOpen(i, r)'
    PROVE  Follows'
  <1>1. Do("open", i) \in Cmds /\ Do("open", i) # Do("mstop", None)
    BY DoTypes DEF Ops, Do
  <1>2. Fits(Do("open", i), r)'
    BY DEF Fits, FitsBlock
  <1> QED
    BY <1>1, <1>2, FollowsPush

\* A block about to take a delta.
LEMMA FollowsEmit ==
    ASSUME NEW i \in OutIdx, todo' = Push(Do("emit", i), <<>>), started', active' = i
    PROVE  Follows'
  <1>1. Do("emit", i) \in Cmds /\ Do("emit", i) # Do("mstop", None)
    BY DoTypes DEF Ops, Do
  <1>2. Fits(Do("emit", i), <<>>)'
    BY DEF Fits, FitsBlock
  <1> QED
    BY <1>1, <1>2, Stacks, FollowsPush

\* What stands below a flush runs once the block is open and flushed.
LEMMA FollowsFlush ==
    ASSUME NEW i \in OutIdx, NEW r, r \in AfterFlush(i), started', active' = i,
           todo' = r \/ todo' = Push(Do("flush", i), r)
    PROVE  Follows' /\ r \in Seq(Cmds)
  <1>0. Do("emit", i) \in Cmds /\ Do("stop", i) \in Cmds
    BY DoTypes DEF Ops
  <1>1. r \in Seq(Cmds)
    <2>1. \A x \in Cmds, k \in Seq(Cmds) : Push(x, k) \in Seq(Cmds)
      BY PushFacts
    <2> QED
      BY <1>0, <2>1, Stacks DEF AfterFlush
  <1>2. ASSUME todo' = r PROVE Follows'
    <2>1. CASE r = <<>>
      BY <1>2, <2>1, FollowsStop
    <2>2. CASE r = Push(Do("emit", i), <<>>)
      BY <1>2, <2>2, FollowsEmit
    <2>3. ASSUME NEW k, r = Push(Do("stop", i), k), k = Drain \/ k = Final PROVE Follows'
      BY <1>2, <2>3, FollowsStopBlock
    <2> QED
      BY <2>1, <2>2, <2>3 DEF AfterFlush
  <1>3. ASSUME todo' = Push(Do("flush", i), r) PROVE Follows'
    <2>1. Do("flush", i) \in Cmds /\ Do("flush", i) # Do("mstop", None)
      BY DoTypes DEF Ops, Do
    <2>2. Fits(Do("flush", i), r)'
      BY DEF Fits, FitsBlock, AfterFlush
    <2> QED
      BY <1>1, <1>3, <2>1, <2>2, FollowsPush
  <1> QED
    BY <1>1, <1>2, <1>3

\* openBlock opens a block only when none is open.
LEMMA OpenBlockSimulated ==
    ASSUME Running, OpenBlock
    PROVE  Simulated
  <1>1. At("open")
    BY DEF OpenBlock
  <1>2. PICK r \in Seq(Cmds) : r = Tail(todo)
    BY <1>1, Top
  <1>3. PICK a \in OutIdx : a = Arg
    BY <1>1, Top, FitsOp
  <1>4. CanOpen(a, r) /\ Head(todo) = Do("open", a) /\ terminus = "none" /\ ~Ending
    BY <1>1, <1>2, <1>3, Top, FitsOp, FitsBlockOp
  <1>5. /\ Start \in Cmds /\ Do("open", a) \in Cmds /\ Do("flush", a) \in Cmds
        /\ Start # Do("mstop", None)
    BY DoTypes DEF Ops, Start, Do
  <1>6. CASE /\ ~(Buffering(blk[a]) /\ started)
             /\ Then(IF Buffering(blk[a]) THEN <<Start, Head(todo)>> ELSE <<>>)
             /\ UNCHANGED <<started, terminus, nextIndex, active, blk, finalStop, sink>>
    <2>1. CASE Buffering(blk[a])
      <3>0. todo' = <<Start, Do("open", a)>> \o r
        BY <1>2, <1>4, <1>6, <2>1 DEF Then
      <3>1. todo' = Push(Start, Push(Do("open", a), r))
        BY <1>5, <3>0, Pushes
      <3>2. /\ Push(Do("open", a), r) \in Seq(Cmds) /\ Push(Do("open", a), r) # <<>>
            /\ Head(Push(Do("open", a), r)) = Do("open", a) /\ Tail(Push(Do("open", a), r)) = r
        BY <1>5, PushFacts
      <3>3. CanOpen(a, r)'
        BY <1>4, <1>6 DEF CanOpen, Buffering
      <3> DEFINE s == Push(Do("open", a), r)
      <3>4. s # <<>> /\ Head(s) = Do("open", a) /\ CanOpen(a, Tail(s))'
        BY <3>2, <3>3
      <3> HIDE DEF s
      <3>5. Fits(Start, s)'
        BY <3>4 DEF Fits, FitsStart
      <3>6. Follows'
        BY <1>5, <3>1, <3>2, <3>5, FollowsPush DEF s
      <3>7. blk' \in [OutIdx -> Blocks] /\ \A j \in OutIdx : Same(blk'[j], blk[j])
        BY <1>6 DEF Running, Typed, Same
      <3> QED
        BY <1>1, <1>6, <3>6, <3>7, QuietFunction
    <2>2. CASE ~Buffering(blk[a])
      <3>1. todo' = r
        BY <1>2, <1>6, <2>2, ConcatEmptySeq DEF Then
      <3>2. active' = None /\ started' = started
        BY <1>4, <1>6 DEF CanOpen
      <3>3. ASSUME r = <<>> PROVE Follows'
        BY <3>1, <3>3, FollowsStop
      <3>4. ASSUME NEW k, r = Push(Do("stop", a), k), k = Drain \/ (k = Final /\ started)
            PROVE  Follows'
        BY <3>1, <3>2, <3>4, FollowsStopBlock
      <3>5. Follows'
        BY <1>4, <2>2, <3>3, <3>4 DEF CanOpen
      <3>7. blk' \in [OutIdx -> Blocks] /\ \A j \in OutIdx : Same(blk'[j], blk[j])
        BY <1>6 DEF Running, Typed, Same
      <3> QED
        BY <1>1, <1>6, <3>5, <3>7, QuietFunction
    <2> QED
      BY <2>1, <2>2
  <1>7. CASE /\ Buffering(blk[a]) /\ started
             /\ Then(<<Do("flush", a)>>)
             /\ blk' = [blk EXCEPT ![a] = [@ EXCEPT !.index = nextIndex, !.started = TRUE]]
             /\ nextIndex' = nextIndex + 1
             /\ active' = a
             /\ Say("BlockStart", nextIndex)
             /\ UNCHANGED <<started, terminus, finalStop>>
    <2>1. todo' = Push(Do("flush", a), r)
      BY <1>2, <1>5, <1>7, Pushes DEF Then
    <2>2. r \in AfterFlush(a)
      BY <1>4 DEF CanOpen, AfterFlush
    <2>3. Follows'
      BY <1>7, <2>1, <2>2, FollowsFlush
    <2>4. PICK n \in Nat : n = nextIndex
      BY DEF Running, Typed
    <2>5. PICK c \in Blocks : c = blk[a]
      BY DEF Running, Typed
    <2> DEFINE e == [c EXCEPT !.index = n, !.started = TRUE]
    <2>5a. /\ e \in Blocks /\ e.started = TRUE /\ e.index = n
           /\ e.stopped = c.stopped /\ e.kind = c.kind
      BY DEF Blocks
    <2> HIDE DEF e
    <2>6. PICK d \in Blocks : d = e /\ d.started = TRUE /\ d.index = n
                              /\ d.stopped = c.stopped /\ d.kind = c.kind
      BY <2>5a
    <2>7. blk' = [blk EXCEPT ![a] = d]
      BY <1>7, <2>4, <2>5, <2>6 DEF e
    <2>8. blk' \in [OutIdx -> Blocks] /\ blk'[a] = d /\ \A j \in OutIdx \ {a} : blk'[j] = blk[j]
      BY <2>7 DEF Running, Typed
    <2>9. Typed'
      BY <1>7, <2>3, <2>4, <2>8 DEF Running, Typed, Follows, Then, loop
    <2>10. Stacked'
      BY <1>4, <1>7, <2>3 DEF Stacked, Follows
    <2>11. ~Ending'
      BY <2>3 DEF Ending, Follows
    <2>12. /\ call' = [op |-> "BlockStart", index |-> n] /\ phase' = phase
           /\ block' = n /\ next' = n + 1
      BY <1>7, <2>4 DEF Say
    <2>13. active = None /\ block = None /\ next = n /\ phase = "body"
      BY <1>4, <1>7, <2>4 DEF CanOpen, Running, Wire
    <2>14. \A j \in OutIdx : blk[j].started => blk[j].stopped
      BY <2>13, TranslatorAssumption DEF Running, Wire
    <2>15. c.kind # "none" /\ ~d.stopped /\ d.started
      BY <1>7, <2>5, <2>6 DEF Buffering
    <2>16. Wire'
      <3>1. block' = blk'[active'].index /\ active' # None
        BY <1>7, <2>6, <2>8, <2>12, TranslatorAssumption
      <3>2. next' = nextIndex'
        BY <1>7, <2>4, <2>12
      <3>3. started' /\ blk'[active'].started /\ ~blk'[active'].stopped /\ blk'[active'].index \in Nat
        BY <1>7, <2>6, <2>8, <2>15
      <3>4. \A j \in OutIdx : blk'[j].started /\ ~blk'[j].stopped => active' = j
        BY <1>7, <2>8, <2>14
      <3>5. \A j \in OutIdx : blk'[j].kind = "none" => ~blk'[j].started /\ ~blk'[j].stopped
        BY <2>6, <2>8, <2>15 DEF Running, Wire
      <3>6. phase' = "body" /\ terminus' = "none" /\ started'
        BY <1>4, <1>7, <2>12, <2>13
      <3> QED
        BY <2>11, <3>1, <3>2, <3>3, <3>4, <3>5, <3>6 DEF Wire
    <2>17. Protocol!BlockStart
      BY <2>12, <2>13 DEF Protocol!BlockStart, Protocol!Said, Protocol!NoBlock, None
    <2> QED
      BY <2>9, <2>10, <2>16, <2>17 DEF Simulated, TranslatorInv, Running, Protocol!Next
  <1> QED
    BY <1>3, <1>6, <1>7 DEF OpenBlock

\* A function of one block, what stands below it, and that the message has not ended.
LEMMA BlockTop ==
    ASSUME Running,
           NEW op \in {"done", "push", "emit", "open", "flush", "stop", "halt", "close"}, At(op)
    PROVE  \E r \in Seq(Cmds), a \in OutIdx :
               /\ r = Tail(todo) /\ a = Arg /\ Head(todo) = Do(op, a) /\ Do(op, a) \in Cmds
               /\ FitsBlock(a, Do(op, a), r)
               /\ terminus = "none" /\ ~Ending
  <1>1. /\ terminus = "none" /\ Head(todo) \in Cmds /\ Tail(todo) \in Seq(Cmds)
        /\ Head(todo) = Do(op, Arg) /\ Fits(Do(op, Arg), Tail(todo)) /\ ~Ending
    BY Top
  <1>2. PICK r \in Seq(Cmds) : r = Tail(todo)
    BY <1>1
  <1>3. Arg \in OutIdx /\ FitsBlock(Arg, Do(op, Arg), Tail(todo))
    BY <1>1, FitsOp
  <1>4. PICK a \in OutIdx : a = Arg
    BY <1>3
  <1> QED
    BY <1>1, <1>2, <1>3, <1>4

\* An update of one block that leaves it in its place.
LEMMA OneBlock ==
    ASSUME Typed, NEW a \in OutIdx, NEW d \in Blocks, Same(d, blk[a]), blk' = [blk EXCEPT ![a] = d]
    PROVE  blk' \in [OutIdx -> Blocks] /\ \A j \in OutIdx : Same(blk'[j], blk[j])
  BY DEF Typed, Same

\* Functions that leave the blocks alone.
LEMMA SameBlocks ==
    ASSUME Typed, UNCHANGED blk
    PROVE  blk' \in [OutIdx -> Blocks] /\ \A j \in OutIdx : Same(blk'[j], blk[j])
  BY DEF Typed, Same

\* flushPending emits what was buffered as deltas of the block just opened.
LEMMA FlushPendingSimulated ==
    ASSUME Running, FlushPending
    PROVE  Simulated
  <1>1. At("flush")
    BY DEF FlushPending
  <1>2. PICK r \in Seq(Cmds), a \in OutIdx :
            /\ r = Tail(todo) /\ a = Arg /\ Head(todo) = Do("flush", a) /\ Do("flush", a) \in Cmds
            /\ FitsBlock(a, Do("flush", a), r) /\ terminus = "none" /\ ~Ending
    BY <1>1, BlockTop
  <1>3. started /\ active = a /\ r \in AfterFlush(a)
    BY <1>2, FitsBlockOp
  <1>4. UNCHANGED <<started, terminus, nextIndex, active>>
    BY DEF FlushPending
  <1>5. CASE blk[a].pending = <<>> 
    <2>1. Then(<<>>) /\ UNCHANGED <<blk, sink>>
      BY <1>2, <1>5 DEF FlushPending
    <2>2. todo' = r
      BY <1>2, <2>1, Pushes DEF Then
    <2>3. Follows'
      BY <1>3, <1>4, <2>2, FollowsFlush
    <2> QED
      BY <1>1, <1>4, <2>1, <2>3, SameBlocks, QuietFunction DEF Running
  <1>6. CASE blk[a].pending # <<>>
    <2>1. /\ Then(<<Head(todo)>>) /\ Say("BlockDelta", blk[a].index)
          /\ blk' = [blk EXCEPT ![a] = [@ EXCEPT !.pending = Tail(blk[a].pending), !.sent = Head(blk[a].pending)]]
      BY <1>2, <1>6 DEF FlushPending
    <2>2a. todo' = <<Do("flush", a)>> \o r
      BY <1>2, <2>1 DEF Then
    <2>2. todo' = Push(Do("flush", a), r)
      BY <1>2, <2>2a, Pushes
    <2>3. Follows'
      BY <1>3, <1>4, <2>2, FollowsFlush
    <2>4. PICK c \in Blocks : c = blk[a]
      BY DEF Running, Typed
    <2>5. PICK p \in Seq(Nat), h \in Nat : p = Tail(c.pending) /\ h = Head(c.pending)
      BY <1>6, <2>4, BlockFields, HeadTailProperties
    <2>6. [c EXCEPT !.pending = p, !.sent = h] \in Blocks /\ Same([c EXCEPT !.pending = p, !.sent = h], c)
      BY DEF Blocks, Same
    <2>7. PICK d \in Blocks : d = [c EXCEPT !.pending = p, !.sent = h] /\ Same(d, c)
      BY <2>6
    <2>8a. d = [blk[a] EXCEPT !.pending = Tail(blk[a].pending), !.sent = Head(blk[a].pending)]
      BY <2>4, <2>5, <2>7
    <2>8. blk' = [blk EXCEPT ![a] = d]
      BY <2>1, <2>8a
    <2>9. blk' \in [OutIdx -> Blocks] /\ \A j \in OutIdx : Same(blk'[j], blk[j])
      BY <2>4, <2>7, <2>8, OneBlock DEF Running
    <2>10. UNCHANGED <<order, frame>>
      BY <2>1 DEF Then, loop
    <2> QED
      BY <1>2, <1>3, <1>4, <2>1, <2>3, <2>9, <2>10, Delta
  <1> QED
    BY <1>5, <1>6

\* pushDelta emits, opens or buffers, by which block is open.
LEMMA PushDeltaSimulated ==
    ASSUME Running, PushDelta
    PROVE  Simulated
  <1>1. At("push")
    BY DEF PushDelta
  <1>2. PICK r \in Seq(Cmds), a \in OutIdx :
            /\ r = Tail(todo) /\ a = Arg /\ Head(todo) = Do("push", a) /\ Do("push", a) \in Cmds
            /\ FitsBlock(a, Do("push", a), r) /\ terminus = "none" /\ ~Ending
    BY <1>1, BlockTop
  <1>3. r = <<>> /\ started /\ blk[a].kind # "none"
    BY <1>2, FitsBlockOp
  <1>4. UNCHANGED <<started, terminus, nextIndex, active, sink>>
    BY DEF PushDelta
  <1>5. Do("emit", a) \in Cmds /\ Do("open", a) \in Cmds /\ Do("abort", None) \in Cmds
    BY DoTypes DEF Ops
  <1>6. CASE Then(<<>>) /\ UNCHANGED blk
    <2>1. todo' = <<>>
      BY <1>2, <1>3, <1>6, Pushes DEF Then
    <2>2. Follows'
      BY <2>1, FollowsStop
    <2> QED
      BY <1>1, <1>4, <1>6, <2>2, SameBlocks, QuietFunction DEF Running
  <1>7. CASE active = a /\ Then(<<Do("emit", a)>>) /\ UNCHANGED blk
    <2>0. todo' = <<Do("emit", a)>> \o r
      BY <1>2, <1>7 DEF Then
    <2>1. todo' = Push(Do("emit", a), <<>>)
      BY <1>3, <1>5, <2>0, Pushes
    <2>2. Follows'
      BY <1>3, <1>4, <1>7, <2>1, FollowsEmit
    <2> QED
      BY <1>1, <1>4, <1>7, <2>2, SameBlocks, QuietFunction DEF Running
  <1>8. CASE /\ ~blk[a].dropped /\ ~blk[a].stopped /\ active = None
             /\ Then(<<Do("open", a), Do("emit", a)>>) /\ UNCHANGED blk
    <2>0. todo' = <<Do("open", a), Do("emit", a)>> \o r
      BY <1>2, <1>8 DEF Then
    <2>1. todo' = Push(Do("open", a), Push(Do("emit", a), <<>>))
      BY <1>3, <1>5, <2>0, Pushes
    <2>2. Push(Do("emit", a), <<>>) \in Seq(Cmds)
      BY <1>5, Stacks, Pushes
    <2>3. ~blk[a].started
      BY <1>8, TranslatorAssumption DEF Running, Wire
    <2>4. Buffering(blk[a])'
      BY <1>3, <1>8, <2>3 DEF Buffering
    <2>5. CanOpen(a, Push(Do("emit", a), <<>>))'
      BY <1>4, <1>8, <2>4 DEF CanOpen
    <2>6. Follows'
      BY <2>1, <2>2, <2>5, FollowsOpen
    <2> QED
      BY <1>1, <1>4, <1>8, <2>6, SameBlocks, QuietFunction DEF Running
  <1>9. CASE \E over \in BOOLEAN :
               /\ Then(IF over THEN <<Do("abort", None)>> ELSE <<>>)
               /\ blk' = [blk EXCEPT ![a] = [@ EXCEPT !.pending = Append(blk[a].pending, blk[a].got)]]
    <2>1. PICK over \in BOOLEAN :
             /\ Then(IF over THEN <<Do("abort", None)>> ELSE <<>>)
             /\ blk' = [blk EXCEPT ![a] = [@ EXCEPT !.pending = Append(blk[a].pending, blk[a].got)]]
      BY <1>9
    <2>2. todo' = <<>> \/ todo' = <<Do("abort", None)>>
      <3>1. CASE over
        <4>1. todo' = <<Do("abort", None)>> \o <<>>
          BY <1>2, <1>3, <2>1, <3>1 DEF Then
        <4> QED
          BY <1>5, <4>1, ThenFacts, Stacks
      <3>2. CASE ~over
        <4>1. todo' = <<>> \o <<>>
          BY <1>2, <1>3, <2>1, <3>2 DEF Then
        <4> QED
          BY <4>1, Pushes, Stacks
      <3> QED
        BY <3>1, <3>2
    <2>3. Follows'
      BY <1>3, <1>4, <2>2, FollowsStop, BeginsAlone
    <2>4. PICK c \in Blocks : c = blk[a]
      BY DEF Running, Typed
    <2>5. PICK p \in Seq(Nat) : p = Append(c.pending, c.got)
      BY BlockFields, AppendProperties
    <2>6. [c EXCEPT !.pending = p] \in Blocks /\ Same([c EXCEPT !.pending = p], c)
      BY DEF Blocks, Same
    <2>7. PICK d \in Blocks : d = [c EXCEPT !.pending = p] /\ Same(d, c)
      BY <2>6
    <2>8a. d = [blk[a] EXCEPT !.pending = Append(blk[a].pending, blk[a].got)]
      BY <2>4, <2>5, <2>7
    <2>8. blk' = [blk EXCEPT ![a] = d]
      BY <2>1, <2>8a
    <2>9. blk' \in [OutIdx -> Blocks] /\ \A j \in OutIdx : Same(blk'[j], blk[j])
      BY <2>4, <2>7, <2>8, OneBlock DEF Running
    <2> QED
      BY <1>1, <1>4, <2>1, <2>3, <2>9, QuietFunction
  <1>10. PICK over \in BOOLEAN :
             over = OverBounds([blk EXCEPT ![Arg] = [@ EXCEPT !.pending = Append(blk[Arg].pending, blk[Arg].got)]])
    BY DEF OverBounds
  <1> QED
    BY <1>2, <1>6, <1>7, <1>8, <1>9, <1>10 DEF PushDelta

\* emitDelta writes a delta of the open block.
LEMMA EmitDeltaSimulated ==
    ASSUME Running, EmitDelta
    PROVE  Simulated
  <1>1. At("emit") /\ Then(<<>>)
    BY DEF EmitDelta
  <1>2. PICK r \in Seq(Cmds), a \in OutIdx :
            /\ r = Tail(todo) /\ a = Arg /\ Head(todo) = Do("emit", a) /\ Do("emit", a) \in Cmds
            /\ FitsBlock(a, Do("emit", a), r) /\ terminus = "none" /\ ~Ending
    BY <1>1, BlockTop
  <1>3. r = <<>> /\ started /\ active = a
    BY <1>2, FitsBlockOp
  <1>4. /\ UNCHANGED <<started, terminus, nextIndex, active>> /\ Say("BlockDelta", blk[a].index)
        /\ blk' = [blk EXCEPT ![a] = [@ EXCEPT !.sent = blk[a].got]]
    BY <1>2 DEF EmitDelta
  <1>5. todo' = <<>> /\ UNCHANGED <<order, frame>>
    BY <1>1, <1>2, <1>3, Pushes DEF Then, loop
  <1>6. Follows'
    BY <1>5, FollowsStop
  <1>7. PICK c \in Blocks : c = blk[a]
    BY DEF Running, Typed
  <1>8. PICK n \in Nat : n = c.got
    BY BlockFields
  <1>9. [c EXCEPT !.sent = n] \in Blocks /\ Same([c EXCEPT !.sent = n], c)
    BY DEF Blocks, Same
  <1>10. PICK d \in Blocks : d = [c EXCEPT !.sent = n] /\ Same(d, c)
    BY <1>9
  <1>11. blk' = [blk EXCEPT ![a] = d]
    BY <1>4, <1>7, <1>8, <1>10
  <1>12. blk' \in [OutIdx -> Blocks] /\ \A j \in OutIdx : Same(blk'[j], blk[j])
    BY <1>7, <1>10, <1>11, OneBlock DEF Running
  <1> QED
    BY <1>2, <1>3, <1>4, <1>5, <1>6, <1>12, Delta

\* markDoneOrClose closes the open block and lets the queue go on, or remembers.
LEMMA MarkDoneOrCloseSimulated ==
    ASSUME Running, MarkDoneOrClose
    PROVE  Simulated
  <1>1. At("done")
    BY DEF MarkDoneOrClose
  <1>2. PICK r \in Seq(Cmds), a \in OutIdx :
            /\ r = Tail(todo) /\ a = Arg /\ Head(todo) = Do("done", a) /\ Do("done", a) \in Cmds
            /\ FitsBlock(a, Do("done", a), r) /\ terminus = "none" /\ ~Ending
    BY <1>1, BlockTop
  <1>3. r = <<>>
    BY <1>2, FitsBlockOp
  <1>4. UNCHANGED <<started, terminus, nextIndex, active, sink>>
    BY DEF MarkDoneOrClose
  <1>5. Do("stop", a) \in Cmds /\ Do("drain", None) \in Cmds
    BY DoTypes DEF Ops
  <1>6. CASE Then(<<>>) /\ UNCHANGED blk
    <2>1. todo' = <<>>
      BY <1>2, <1>3, <1>6, Pushes DEF Then
    <2>2. Follows'
      BY <2>1, FollowsStop
    <2> QED
      BY <1>1, <1>4, <1>6, <2>2, SameBlocks, QuietFunction DEF Running
  <1>7. CASE active = a /\ Then(<<Do("stop", a), Do("drain", None)>>) /\ UNCHANGED blk
    <2>0. todo' = <<Do("stop", a), Do("drain", None)>> \o r
      BY <1>2, <1>7 DEF Then
    <2>1. todo' = Push(Do("stop", a), Drain)
      BY <1>3, <1>5, <2>0, Pushes DEF Drain
    <2>2. Follows'
      BY <1>4, <1>7, <2>1, FollowsStopBlock
    <2> QED
      BY <1>1, <1>4, <1>7, <2>2, SameBlocks, QuietFunction DEF Running
  <1>8. CASE /\ Then(IF active = None THEN <<Do("drain", None)>> ELSE <<>>)
             /\ blk' = [blk EXCEPT ![a] = [@ EXCEPT !.done = TRUE]]
    <2>1. todo' = <<>> \/ todo' = Drain
      BY <1>2, <1>3, <1>5, <1>8, Pushes DEF Then, Drain
    <2>2. Follows'
      BY <2>1, FollowsStop
    <2>3. PICK c \in Blocks : c = blk[a]
      BY DEF Running, Typed
    <2>4. [c EXCEPT !.done = TRUE] \in Blocks /\ Same([c EXCEPT !.done = TRUE], c)
      BY DEF Blocks, Same
    <2>5. PICK d \in Blocks : d = [c EXCEPT !.done = TRUE] /\ Same(d, c)
      BY <2>4
    <2>6. blk' = [blk EXCEPT ![a] = d]
      BY <1>8, <2>3, <2>5
    <2>7. blk' \in [OutIdx -> Blocks] /\ \A j \in OutIdx : Same(blk'[j], blk[j])
      BY <2>3, <2>5, <2>6, OneBlock DEF Running
    <2> QED
      BY <1>1, <1>4, <1>8, <2>2, <2>7, QuietFunction
  <1> QED
    BY <1>2, <1>6, <1>7, <1>8 DEF MarkDoneOrClose

\* A block about to be ended, with its closing delta or without.
LEMMA FollowsHalt ==
    ASSUME NEW i \in OutIdx, NEW k \in {Drain, Final, Errors}, started', active' = i,
           todo' = Push(Do("halt", i), k) \/ todo' = Push(Do("close", i), Push(Do("halt", i), k))
    PROVE  Follows'
  <1>1. /\ Do("halt", i) \in Cmds /\ Do("close", i) \in Cmds /\ Do("halt", i) # Do("mstop", None)
        /\ Do("close", i) # Do("mstop", None)
    BY DoTypes DEF Ops, Do
  <1>2. k \in Seq(Cmds)
    BY Stacks
  <1>3. Push(Do("halt", i), k) \in Seq(Cmds)
    BY <1>1, <1>2, PushFacts
  <1>4. Fits(Do("halt", i), k)' /\ Fits(Do("close", i), Push(Do("halt", i), k))'
    BY DEF Fits, FitsBlock
  <1> QED
    BY <1>1, <1>2, <1>3, <1>4, FollowsPush

\* stopBlock opens a block that is still waiting, and closes one that is open.
LEMMA StopBlockSimulated ==
    ASSUME Running, StopBlock
    PROVE  Simulated
  <1>1. At("stop") /\ UNCHANGED <<started, terminus, nextIndex, active, blk, sink>>
    BY DEF StopBlock
  <1>2. PICK r \in Seq(Cmds), a \in OutIdx :
            /\ r = Tail(todo) /\ a = Arg /\ Head(todo) = Do("stop", a) /\ Do("stop", a) \in Cmds
            /\ FitsBlock(a, Do("stop", a), r) /\ terminus = "none" /\ ~Ending
    BY <1>1, BlockTop
  <1>3. active \in {None, a} /\ (r = Drain \/ (r = Final /\ started))
    BY <1>2 DEF FitsBlock, Do
  <1>4. Do("open", a) \in Cmds /\ Do("stop", a) \in Cmds /\ Halt(a) \in Cmds /\ CloseDelta(a) \in Cmds
    BY DoTypes DEF Ops, Halt, CloseDelta
  <1>5. CASE Then(<<>>)
    <2>1. todo' = r
      BY <1>2, <1>5, Pushes DEF Then
    <2>2. Follows'
      BY <1>1, <1>3, <2>1, FollowsStop
    <2> QED
      BY <1>1, <1>5, <2>2, SameBlocks, QuietFunction DEF Running
  <1>6. CASE ~blk[a].stopped /\ ~blk[a].started /\ Then(<<Do("open", a), Head(todo)>>)
    <2>0. todo' = <<Do("open", a), Do("stop", a)>> \o r
      BY <1>2, <1>6 DEF Then
    <2>1. todo' = Push(Do("open", a), Push(Do("stop", a), r))
      BY <1>4, <2>0, Pushes
    <2>2. Push(Do("stop", a), r) \in Seq(Cmds)
      BY <1>2, Pushes
    <2>3. active = None
      BY <1>3, <1>6, TranslatorAssumption DEF Running, Wire
    <2>4. CanOpen(a, Push(Do("stop", a), r))'
      BY <1>1, <1>3, <2>3 DEF CanOpen
    <2>5. Follows'
      BY <2>1, <2>2, <2>4, FollowsOpen
    <2> QED
      BY <1>1, <1>6, <2>5, SameBlocks, QuietFunction DEF Running
  <1>7. CASE /\ ~blk[a].stopped /\ blk[a].started
             /\ Then(IF Closing(blk[a]) = "no" THEN <<Halt(a)>> ELSE <<CloseDelta(a), Halt(a)>>)
    <2>1. active = a /\ started
      BY <1>7, TranslatorAssumption DEF Running, Wire
    <2>2. todo' = <<Halt(a)>> \o r \/ todo' = <<CloseDelta(a), Halt(a)>> \o r
      BY <1>2, <1>7 DEF Then
    <2>3. todo' = Push(Halt(a), r) \/ todo' = Push(CloseDelta(a), Push(Halt(a), r))
      <3>1. <<Halt(a)>> \o r = Push(Halt(a), r)
        BY <1>4, Pushes
      <3>2. <<CloseDelta(a), Halt(a)>> \o r = Push(CloseDelta(a), Push(Halt(a), r))
        BY <1>4, Pushes
      <3> QED
        BY <2>2, <3>1, <3>2
    <2>4. Follows'
      BY <1>1, <1>3, <2>1, <2>3, FollowsHalt DEF Halt, CloseDelta
    <2> QED
      BY <1>1, <1>7, <2>4, SameBlocks, QuietFunction DEF Running
  <1> QED
    BY <1>2, <1>5, <1>6, <1>7 DEF StopBlock

\* The delta that stopBlock adds belongs to the block it closes.
LEMMA SayClosingSimulated ==
    ASSUME Running, SayClosing
    PROVE  Simulated
  <1>1. At("close") /\ Then(<<>>)
    BY DEF SayClosing
  <1>2. PICK r \in Seq(Cmds), a \in OutIdx :
            /\ r = Tail(todo) /\ a = Arg /\ Head(todo) = Do("close", a) /\ Do("close", a) \in Cmds
            /\ FitsBlock(a, Do("close", a), r) /\ terminus = "none" /\ ~Ending
    BY <1>1, BlockTop
  <1>3. started /\ active = a /\ \E k \in {Drain, Final, Errors} : r = Push(Do("halt", a), k)
    BY <1>2 DEF FitsBlock, Do
  <1>4. /\ UNCHANGED <<started, terminus, nextIndex, active>> /\ Say("BlockDelta", blk[a].index)
        /\ blk' = [blk EXCEPT ![a] = [@ EXCEPT !.closing = Closing(blk[a])]]
    BY <1>2 DEF SayClosing
  <1>5. todo' = r /\ UNCHANGED <<order, frame>>
    BY <1>1, <1>2, Pushes DEF Then, loop
  <1>6. Follows'
    BY <1>3, <1>4, <1>5, FollowsHalt
  <1>7. PICK c \in Blocks : c = blk[a]
    BY DEF Running, Typed
  <1>8. PICK x \in {"no", "plain", "enc", "full", "empty"} : x = Closing(c)
    BY DEF Closing
  <1>9. [c EXCEPT !.closing = x] \in Blocks /\ Same([c EXCEPT !.closing = x], c)
    BY DEF Blocks, Same
  <1>10. PICK d \in Blocks : d = [c EXCEPT !.closing = x] /\ Same(d, c)
    BY <1>9
  <1>11. blk' = [blk EXCEPT ![a] = d]
    BY <1>4, <1>7, <1>8, <1>10
  <1>12. blk' \in [OutIdx -> Blocks] /\ \A j \in OutIdx : Same(blk'[j], blk[j])
    BY <1>7, <1>10, <1>11, OneBlock DEF Running
  <1> QED
    BY <1>2, <1>3, <1>4, <1>5, <1>6, <1>12, Delta

\* content_block_stop closes the block that is open.
LEMMA SayBlockStopSimulated ==
    ASSUME Running, SayBlockStop
    PROVE  Simulated
  <1>1. At("halt") /\ Then(<<>>)
    BY DEF SayBlockStop
  <1>2. PICK r \in Seq(Cmds), a \in OutIdx :
            /\ r = Tail(todo) /\ a = Arg /\ Head(todo) = Do("halt", a) /\ Do("halt", a) \in Cmds
            /\ FitsBlock(a, Do("halt", a), r) /\ terminus = "none" /\ ~Ending
    BY <1>1, BlockTop
  <1>3. started /\ active = a /\ r \in {Drain, Final, Errors}
    BY <1>2, FitsBlockOp
  <1>4. /\ UNCHANGED <<started, terminus, nextIndex>> /\ Say("BlockStop", blk[a].index)
        /\ active' = None
        /\ blk' = [blk EXCEPT ![a] = [@ EXCEPT !.stopped = TRUE]]
    BY <1>2, <1>3 DEF SayBlockStop
  <1>5. todo' = r /\ UNCHANGED <<order, frame>>
    BY <1>1, <1>2, Pushes DEF Then, loop
  <1>6. Follows'
    BY <1>3, <1>4, <1>5, FollowsStop
  <1>7. PICK c \in Blocks : c = blk[a]
    BY DEF Running, Typed
  <1> DEFINE e == [c EXCEPT !.stopped = TRUE]
  <1>8. /\ e \in Blocks /\ e.stopped = TRUE /\ e.started = c.started /\ e.kind = c.kind
    BY DEF Blocks
  <1> HIDE DEF e
  <1>9. PICK d \in Blocks : d = e /\ d.stopped = TRUE /\ d.started = c.started /\ d.kind = c.kind
    BY <1>8
  <1>10. blk' = [blk EXCEPT ![a] = d]
    BY <1>4, <1>7, <1>9 DEF e
  <1>11. blk' \in [OutIdx -> Blocks] /\ blk'[a] = d /\ \A j \in OutIdx \ {a} : blk'[j] = blk[j]
    BY <1>10 DEF Running, Typed
  <1>12. Typed' /\ Stacked'
    BY <1>2, <1>4, <1>5, <1>6, <1>11 DEF Running, Typed, Stacked, Follows
  <1>13. ~Ending'
    BY <1>6 DEF Ending, Follows
  <1>14. /\ call' = [op |-> "BlockStop", index |-> blk[a].index] /\ phase' = phase
         /\ block' = None /\ next' = next
    BY <1>4 DEF Say
  <1>15. /\ active # None /\ block = blk[a].index /\ blk[a].index \in Nat /\ phase = "body"
         /\ next = nextIndex /\ c.started
    BY <1>2, <1>3, <1>7, TranslatorAssumption DEF Running, Wire
  <1>16. Wire'
    <2>1. \A j \in OutIdx : blk[j].started /\ ~blk[j].stopped => j = a
      BY <1>3 DEF Running, Wire
    <2>2. \A j \in OutIdx : ~(blk'[j].started /\ ~blk'[j].stopped)
      BY <1>9, <1>11, <2>1
    <2>3. \A j \in OutIdx : blk'[j].kind = "none" => ~blk'[j].started /\ ~blk'[j].stopped
      BY <1>7, <1>9, <1>11, <1>15 DEF Running, Wire
    <2>4. phase' = "body" /\ terminus' = "none" /\ started'
      BY <1>2, <1>3, <1>4, <1>14, <1>15
    <2> QED
      BY <1>4, <1>13, <1>14, <1>15, <2>2, <2>3, <2>4 DEF Wire
  <1>17. Protocol!BlockStop
    BY <1>14, <1>15 DEF Protocol!BlockStop, Protocol!Said, Protocol!NoBlock, None
  <1> QED
    BY <1>12, <1>16, <1>17 DEF Simulated, TranslatorInv, Running, Protocol!Next

\* Three functions at once.
LEMMA Threes ==
    \A x, y, z \in Cmds :
        /\ <<x>> \o <<y, z>> = <<x, y, z>> /\ <<x, y>> \o <<z>> = <<x, y, z>>
        /\ <<x, y, z>> \o <<>> = Push(x, Push(y, Push(z, <<>>)))
  <1>1. ASSUME NEW x \in Cmds, NEW y \in Cmds, NEW z \in Cmds
        PROVE  /\ <<x>> \o <<y, z>> = <<x, y, z>> /\ <<x, y>> \o <<z>> = <<x, y, z>>
               /\ <<x, y, z>> \o <<>> = Push(x, Push(y, Push(z, <<>>)))
    <2>1. <<>> \in Seq(Cmds)
      OBVIOUS
    <2>2. <<x>> \o <<y, z>> = <<x, y, z>>
      BY <2>1, ThenFacts
    <2>3. <<x, y>> \o <<z>> = <<x, y, z>>
      BY <2>1, ThenFacts
    <2>4. <<x, y, z>> \o <<>> = Push(x, Push(y, Push(z, <<>>)))
      BY <2>1, ThenFacts
    <2> QED
      BY <2>2, <2>3, <2>4
  <1> QED
    BY <1>1

\* A function that is about no block, and what stands below it.
LEMMA AloneTop ==
    ASSUME Running, NEW op \in {"ping", "clean", "abort", "drain", "final", "mdelta", "mstop", "error"},
           At(op)
    PROVE  /\ terminus = "none" /\ (op # "mstop" => ~Ending)
           /\ op \in {"ping", "clean", "abort"} => started /\ Tail(todo) = <<>>
           /\ op = "drain" => Tail(todo) = <<>>
           /\ op = "final" => Tail(todo) = MessageEnd /\ started
           /\ op = "mdelta" => Tail(todo) = Push(Do("mstop", None), <<>>) /\ started /\ active = None
           /\ op \in {"mstop", "error"} => Tail(todo) = <<>> /\ started /\ active = None
  <1>1. /\ terminus = "none" /\ Head(todo) = Do(op, Arg) /\ Fits(Do(op, Arg), Tail(todo))
        /\ op # "mstop" => ~Ending
    BY Top
  <1>2. PICK a, r : a = Arg /\ r = Tail(todo)
    OBVIOUS
  <1>3. Fits(Do(op, a), r)
    BY <1>1, <1>2
  <1>4. op \in {"ping", "clean", "abort"} => started /\ r = <<>>
    BY <1>3, FitsOp
  <1>5. op = "drain" => r = <<>>
    BY <1>3, FitsOp
  <1>6. op = "final" => r = MessageEnd /\ started
    BY <1>3, FitsOp
  <1>7. op = "mdelta" => r = Push(Do("mstop", None), <<>>) /\ started /\ active = None
    BY <1>3, FitsOp
  <1>8. op \in {"mstop", "error"} => r = <<>> /\ started /\ active = None
    BY <1>3, FitsOp
  <1> QED
    BY <1>1, <1>2, <1>4, <1>5, <1>6, <1>7, <1>8

\* A function that is about no block has no argument.
LEMMA AloneArg ==
    ASSUME NEW op \in {"drain", "final"}, NEW a, NEW r, Fits(Do(op, a), r)
    PROVE  a = None
  BY DEF Fits, FitsBlock, Do, Start

\* drainPromote opens the first block that waits, and stops it if it is done.
LEMMA DrainNextSimulated ==
    ASSUME Running, DrainNext
    PROVE  Simulated
  <1>1. At("drain") /\ UNCHANGED <<started, terminus, nextIndex, active, blk, sink>>
    BY DEF DrainNext
  <1>2. terminus = "none" /\ ~Ending /\ Tail(todo) = <<>>
    BY <1>1, AloneTop
  <1>3. Head(todo) = Do("drain", None)
    <2>1. Head(todo) = Do("drain", Arg) /\ Fits(Do("drain", Arg), Tail(todo))
      BY <1>1, Top
    <2>2. Arg = None
      BY <2>1, AloneArg
    <2> QED
      BY <2>1, <2>2
  <1>4. PICK i \in OutIdx \cup {None} : i = FirstBuffering
    BY FirstBufferingType DEF Running, Typed
  <1> DEFINE stop == IF blk[i].done THEN <<Do("stop", i), Do("drain", None)>> ELSE <<>>
  <1>5. Then(IF active # None \/ i = None THEN <<>> ELSE <<Do("open", i)>> \o stop)
    BY <1>3, <1>4 DEF DrainNext
  <1>6. CASE active # None \/ i = None
    <2>1. todo' = <<>> \o <<>>
      BY <1>2, <1>5, <1>6 DEF Then
    <2>2. Follows'
      BY <2>1, Pushes, Stacks, FollowsStop
    <2>3. Then(<<>>)
      BY <1>5, <1>6
    <2> QED
      BY <1>1, <2>2, <2>3, SameBlocks, QuietFunction DEF Running
  <1>7. CASE active = None /\ i # None
    <2>1. i \in OutIdx
      BY <1>7
    <2>2. Do("open", i) \in Cmds /\ Do("stop", i) \in Cmds /\ Do("drain", None) \in Cmds
      BY <2>1, DoTypes DEF Ops
    <2>3. todo' = (<<Do("open", i)>> \o stop) \o <<>> /\ Then(<<Do("open", i)>> \o stop)
      BY <1>2, <1>5, <1>7 DEF Then
    <2>4. Drain \in Seq(Cmds) /\ Push(Do("stop", i), Drain) \in Seq(Cmds)
      BY <2>2, Stacks, PushFacts
    <2>5. ASSUME blk[i].done PROVE Follows'
      <3>1. todo' = (<<Do("open", i)>> \o <<Do("stop", i), Do("drain", None)>>) \o <<>>
        BY <2>3, <2>5
      <3>2. <<Do("open", i)>> \o <<Do("stop", i), Do("drain", None)>>
              = <<Do("open", i), Do("stop", i), Do("drain", None)>>
        BY <2>2, Threes, Zenon
      <3>3. <<Do("open", i), Do("stop", i), Do("drain", None)>> \o <<>>
              = Push(Do("open", i), Push(Do("stop", i), Drain))
        BY <2>2, Threes, Zenon DEF Drain
      <3>4. todo' = Push(Do("open", i), Push(Do("stop", i), Drain))
        BY <3>1, <3>2, <3>3, Zenon
      <3>5. CanOpen(i, Push(Do("stop", i), Drain))'
        BY <1>1, <1>7 DEF CanOpen
      <3> QED
        BY <2>1, <2>4, <3>4, <3>5, FollowsOpen
    <2>6. ASSUME ~blk[i].done PROVE Follows'
      <3>1. todo' = (<<Do("open", i)>> \o <<>>) \o <<>>
        BY <2>3, <2>6
      <3>2. <<Do("open", i)>> \o <<>> = <<Do("open", i)>>
        BY <2>2, Stacks, ThenFacts
      <3>3. <<Do("open", i)>> \o <<>> = Push(Do("open", i), <<>>)
        BY <2>2, Stacks, Pushes
      <3>4. todo' = Push(Do("open", i), <<>>)
        BY <3>1, <3>2, <3>3, Zenon
      <3>5. CanOpen(i, <<>>)'
        BY <1>1, <1>7 DEF CanOpen
      <3> QED
        BY <2>1, Stacks, <3>4, <3>5, FollowsOpen
    <2>7. Follows'
      BY <2>5, <2>6
    <2> HIDE DEF stop
    <2> QED
      BY <1>1, <2>3, <2>7, SameBlocks, QuietFunction DEF Running
  <1> QED
    BY <1>6, <1>7

\* finalizeAllBlocks stops the open block and every one that waits, then returns.
LEMMA FinalizeAllBlocksSimulated ==
    ASSUME Running, FinalizeAllBlocks
    PROVE  Simulated
  <1>1. At("final") /\ UNCHANGED <<started, terminus, nextIndex, active, blk, sink>>
    BY DEF FinalizeAllBlocks
  <1>2. terminus = "none" /\ ~Ending /\ Tail(todo) = MessageEnd /\ started
    BY <1>1, AloneTop
  <1>3. Head(todo) = Do("final", None)
    <2>1. Head(todo) = Do("final", Arg) /\ Fits(Do("final", Arg), Tail(todo))
      BY <1>1, Top
    <2>2. Arg = None
      BY <2>1, AloneArg
    <2> QED
      BY <2>1, <2>2
  <1>4. PICK i \in OutIdx \cup {None} : i = IF active # None THEN active ELSE FirstBuffering
    BY FirstBufferingType DEF Running, Typed
  <1>5. Then(IF i = None THEN <<>> ELSE <<Do("stop", i), Do("final", None)>>)
    BY <1>3, <1>4 DEF FinalizeAllBlocks
  <1>6. CASE i = None
    <2>1. todo' = MessageEnd /\ Then(<<>>)
      BY <1>2, <1>5, <1>6, Stacks, Pushes DEF Then
    <2>2. active' = None /\ started'
      BY <1>1, <1>2, <1>4, <1>6
    <2>3. Fits(Do("mdelta", None), Push(Do("mstop", None), <<>>))'
      BY <2>2 DEF Fits
    <2>4. Do("mdelta", None) \in Cmds /\ Do("mdelta", None) # Do("mstop", None)
      BY DoTypes DEF Ops, Do
    <2>5. Follows'
      BY <2>1, <2>3, <2>4, Stacks, FollowsPush DEF MessageEnd
    <2> QED
      BY <1>1, <2>1, <2>5, SameBlocks, QuietFunction DEF Running
  <1>7. CASE i # None
    <2>1. i \in OutIdx /\ active \in {None, i}
      BY <1>4, <1>7
    <2>2. Do("stop", i) \in Cmds /\ Do("final", None) \in Cmds
      BY <2>1, DoTypes DEF Ops
    <2>3. todo' = <<Do("stop", i), Do("final", None)>> \o MessageEnd
          /\ Then(<<Do("stop", i), Do("final", None)>>)
      BY <1>2, <1>5, <1>7 DEF Then
    <2>4. <<Do("stop", i), Do("final", None)>> \o MessageEnd = Push(Do("stop", i), Final)
      BY <2>2, Stacks, Pushes DEF Final
    <2>5. Follows'
      BY <1>1, <1>2, <2>1, <2>3, <2>4, FollowsStopBlock
    <2> QED
      BY <1>1, <2>3, <2>5, SameBlocks, QuietFunction DEF Running
  <1> QED
    BY <1>6, <1>7

\* finalizeClean closes everything, or aborts over a cut-off tool call.
LEMMA FinalizeCleanSimulated ==
    ASSUME Running, FinalizeClean
    PROVE  Simulated
  <1>1. At("clean") /\ UNCHANGED <<started, terminus, nextIndex, active, blk, sink>>
    BY DEF FinalizeClean
  <1>2. terminus = "none" /\ ~Ending /\ Tail(todo) = <<>> /\ started
    BY <1>1, AloneTop
  <1>3. /\ Do("abort", None) \in Cmds /\ Do("final", None) \in Cmds /\ Do("mdelta", None) \in Cmds
        /\ Do("mstop", None) \in Cmds
    BY DoTypes DEF Ops
  <1>4. CASE Then(<<Do("abort", None)>>)
    <2>1. todo' = <<Do("abort", None)>> \o <<>>
      BY <1>2, <1>4 DEF Then
    <2>2. todo' = <<Do("abort", None)>>
      BY <1>3, <2>1, Stacks, ThenFacts
    <2>3. Follows'
      BY <1>1, <1>2, <2>2, BeginsAlone
    <2> QED
      BY <1>1, <1>4, <2>3, SameBlocks, QuietFunction DEF Running
  <1>5. CASE Then(<<Do("final", None), Do("mdelta", None), Do("mstop", None)>>)
    <2>1. todo' = <<Do("final", None), Do("mdelta", None), Do("mstop", None)>> \o <<>>
      BY <1>2, <1>5 DEF Then
    <2>2. <<Do("final", None), Do("mdelta", None), Do("mstop", None)>> \o <<>> = Final
      BY <1>3, Threes, Zenon DEF Final, MessageEnd
    <2>3. Follows'
      BY <1>1, <1>2, <2>1, <2>2, FollowsStop
    <2> QED
      BY <1>1, <1>5, <2>3, SameBlocks, QuietFunction DEF Running
  <1> QED
    BY <1>4, <1>5 DEF FinalizeClean

\* emitMidStreamError ends the open block before the error.
LEMMA EmitMidStreamErrorSimulated ==
    ASSUME Running, EmitMidStreamError
    PROVE  Simulated
  <1>1. At("abort") /\ UNCHANGED <<started, terminus, nextIndex, active, blk, sink>>
    BY DEF EmitMidStreamError
  <1>2. terminus = "none" /\ ~Ending /\ Tail(todo) = <<>> /\ started
    BY <1>1, AloneTop
  <1>3. Do("error", None) \in Cmds /\ <<>> \in Seq(Cmds)
    BY DoTypes, Stacks DEF Ops
  <1>4. CASE active = None
    <2>1. todo' = (<<>> \o <<Do("error", None)>>) \o <<>> /\ Then(<<>> \o <<Do("error", None)>>)
      BY <1>2, <1>4 DEF EmitMidStreamError, Then
    <2>2. <<>> \o <<Do("error", None)>> = <<Do("error", None)>>
      BY <1>3, ThenFacts
    <2>3. <<Do("error", None)>> \o <<>> = Errors
      BY <1>3, Pushes DEF Errors
    <2>4. todo' = Errors
      BY <2>1, <2>2, <2>3, Zenon
    <2>5. Follows'
      BY <1>1, <1>2, <1>4, <2>4, FollowsStop
    <2> QED
      BY <1>1, <2>1, <2>5, SameBlocks, QuietFunction DEF Running
  <1>5. CASE active # None
    <2>1. PICK a \in OutIdx : a = active
      BY <1>5 DEF Running, Typed
    <2>2. Halt(a) \in Cmds /\ CloseDelta(a) \in Cmds
      BY DoTypes DEF Ops, Halt, CloseDelta
    <2>3. Errors \in {Drain, Final, Errors}
      OBVIOUS
    <2>4. CASE blk[a].kind = "thinking"
      <3>1. todo' = (<<CloseDelta(a), Halt(a)>> \o <<Do("error", None)>>) \o <<>>
            /\ Then(<<CloseDelta(a), Halt(a)>> \o <<Do("error", None)>>)
        BY <1>2, <1>5, <2>1, <2>4 DEF EmitMidStreamError, Then
      <3>2. <<CloseDelta(a), Halt(a)>> \o <<Do("error", None)>>
              = <<CloseDelta(a), Halt(a), Do("error", None)>>
        BY <1>3, <2>2, Threes, Zenon
      <3>3. <<CloseDelta(a), Halt(a), Do("error", None)>> \o <<>>
              = Push(CloseDelta(a), Push(Halt(a), Errors))
        BY <1>3, <2>2, Threes, Zenon DEF Errors
      <3>4. todo' = Push(CloseDelta(a), Push(Halt(a), Errors))
        BY <3>1, <3>2, <3>3, Zenon
      <3>5. Follows'
        BY <1>1, <1>2, <2>1, <2>3, <3>4, FollowsHalt DEF Halt, CloseDelta
      <3> QED
        BY <1>1, <3>1, <3>5, SameBlocks, QuietFunction DEF Running
    <2>5. CASE blk[a].kind # "thinking"
      <3>1. todo' = (<<Halt(a)>> \o <<Do("error", None)>>) \o <<>>
            /\ Then(<<Halt(a)>> \o <<Do("error", None)>>)
        BY <1>2, <1>5, <2>1, <2>5 DEF EmitMidStreamError, Then
      <3>2. <<Halt(a)>> \o <<Do("error", None)>> = <<Halt(a), Do("error", None)>>
        BY <1>3, <2>2, ThenFacts
      <3>3. <<Halt(a), Do("error", None)>> \o <<>> = Push(Halt(a), Errors)
        BY <1>3, <2>2, Pushes DEF Errors
      <3>4. todo' = Push(Halt(a), Errors)
        BY <3>1, <3>2, <3>3, Zenon
      <3>5. Follows'
        BY <1>1, <1>2, <2>1, <2>3, <3>4, FollowsHalt DEF Halt
      <3> QED
        BY <1>1, <3>1, <3>5, SameBlocks, QuietFunction DEF Running
    <2> QED
      BY <2>4, <2>5
  <1> QED
    BY <1>4, <1>5

\* The closing delta and the stop reason are written with every block closed.
LEMMA SayMessageDeltaSimulated ==
    ASSUME Running, SayMessageDelta
    PROVE  Simulated
  <1>1. /\ At("mdelta") /\ Then(<<>>) /\ Say("MessageDelta", None) /\ UNCHANGED core
    BY DEF SayMessageDelta
  <1>2. /\ terminus = "none" /\ ~Ending /\ started /\ active = None
        /\ Tail(todo) = Push(Do("mstop", None), <<>>)
    BY <1>1, AloneTop
  <1>3. Do("mstop", None) \in Cmds
    BY DoTypes DEF Ops
  <1>4. todo' = Push(Do("mstop", None), <<>>) /\ UNCHANGED <<order, frame>>
    BY <1>1, <1>2, Stacks, Pushes DEF Then, loop
  <1>5. /\ todo' \in Seq(Cmds) /\ todo' # <<>> /\ Head(todo') = Do("mstop", None)
        /\ Tail(todo') = <<>>
    BY <1>3, <1>4, Stacks, PushFacts
  <1>6. Fits(Do("mstop", None), <<>>)'
    BY <1>1, <1>2 DEF Fits, core
  <1>7. Typed' /\ Stacked' /\ Ending'
    BY <1>1, <1>2, <1>4, <1>5, <1>6 DEF Running, Typed, Stacked, Ending, core
  <1>8. call' = [op |-> "MessageDelta", index |-> None] /\ phase' = "tail"
        /\ block' = block /\ next' = next
    BY <1>1 DEF Say
  <1>9. phase = "body" /\ block = None
    BY <1>2 DEF Running, Wire
  <1>10. Wire'
    BY <1>1, <1>2, <1>7, <1>8 DEF Running, Wire, core
  <1>11. Protocol!MessageDelta
    BY <1>8, <1>9 DEF Protocol!MessageDelta, Protocol!Said, Protocol!NoBlock, None
  <1> QED
    BY <1>7, <1>10, <1>11 DEF Simulated, TranslatorInv, Running, Protocol!Next

\* The last call, whichever it is, leaves nothing to do.
LEMMA LastCall ==
    ASSUME Running, NEW op \in {"mstop", "error"}, At(op), Then(<<>>),
           NEW name \in {"MessageStop", "Error"}, Say(name, None),
           terminus' = (IF name = "MessageStop" THEN "clean" ELSE "errored"),
           UNCHANGED <<started, nextIndex, active, blk>>
    PROVE  TranslatorInv'
  <1>1. started /\ active = None /\ Tail(todo) = <<>>
    BY AloneTop
  <1>2. todo' = <<>> /\ UNCHANGED <<order, frame>>
    BY <1>1, Stacks, Pushes DEF Then, loop
  <1>3. Typed' /\ Stacked'
    BY <1>2, Stacks DEF Running, Typed, Stacked
  <1>4. phase' = terminus' /\ terminus' # "none" /\ block' = block /\ next' = next
    BY DEF Say
  <1>5. Wire'
    BY <1>1, <1>4 DEF Running, Wire
  <1> QED
    BY <1>3, <1>5 DEF TranslatorInv, Running

\* message_stop comes right after the closing delta.
LEMMA SayMessageStopSimulated ==
    ASSUME Running, SayMessageStop
    PROVE  Simulated
  <1>1. /\ At("mstop") /\ Then(<<>>) /\ Say("MessageStop", None) /\ terminus' = "clean"
        /\ UNCHANGED <<started, nextIndex, active, blk>>
    BY DEF SayMessageStop
  <1>2. terminus = "none" /\ started
    BY <1>1, AloneTop
  <1>3. Ending
    <2>1. todo # <<>> /\ Head(todo) = Do("mstop", Arg) /\ Fits(Do("mstop", Arg), Tail(todo))
      BY <1>1, Top DEF At
    <2>2. Arg = None
      BY <2>1 DEF Fits, FitsBlock, Do, Start
    <2> QED
      BY <2>1, <2>2 DEF Ending
  <1>4. phase = "tail"
    BY <1>2, <1>3 DEF Running, Wire
  <1>5. Protocol!MessageStop
    BY <1>1, <1>4 DEF Say, Protocol!MessageStop, Protocol!Said, Protocol!NoBlock, None
  <1>6. TranslatorInv'
    BY <1>1, LastCall
  <1> QED
    BY <1>5, <1>6 DEF Simulated, Protocol!Next

\* The error is written with every block closed.
LEMMA SayErrorSimulated ==
    ASSUME Running, SayError
    PROVE  Simulated
  <1>1. /\ At("error") /\ Then(<<>>) /\ Say("Error", None) /\ terminus' = "errored"
        /\ UNCHANGED <<started, nextIndex, active, blk>>
    BY DEF SayError
  <1>2. terminus = "none" /\ started /\ ~Ending /\ active = None
    BY <1>1, AloneTop
  <1>3. phase = "body" /\ block = None
    BY <1>2 DEF Running, Wire
  <1>4. Protocol!Error
    BY <1>1, <1>3 DEF Say, Protocol!Error, Protocol!Said, Protocol!NoBlock, None
  <1>5. TranslatorInv'
    BY <1>1, LastCall
  <1> QED
    BY <1>4, <1>5 DEF Simulated, Protocol!Next

\* A ping may come between any two frames of a started message.
LEMMA SayPingSimulated ==
    ASSUME Running, SayPing
    PROVE  Simulated
  <1>1. At("ping") /\ Then(<<>>) /\ Say("Ping", None) /\ UNCHANGED core
    BY DEF SayPing
  <1>2. terminus = "none" /\ ~Ending /\ started /\ Tail(todo) = <<>>
    BY <1>1, AloneTop
  <1>3. todo' = <<>> /\ UNCHANGED frame
    BY <1>1, <1>2, Stacks, Pushes DEF Then, loop
  <1>4. Typed' /\ Stacked' /\ ~Ending'
    BY <1>1, <1>3, Stacks DEF Running, Typed, Stacked, Ending, core
  <1>5. call' = [op |-> "Ping", index |-> None] /\ phase' = phase
        /\ block' = block /\ next' = next
    BY <1>1 DEF Say
  <1>6. phase = "body"
    BY <1>2 DEF Running, Wire
  <1>7. Wire'
    BY <1>1, <1>2, <1>4, <1>5 DEF Running, Wire, core
  <1>8. Protocol!Ping
    BY <1>5, <1>6 DEF Protocol!Ping, Protocol!Said, Protocol!NoBlock, None
  <1> QED
    BY <1>4, <1>7, <1>8 DEF Simulated, TranslatorInv, Running, Protocol!Next

-----------------------------------------------------------------------------
(* The theorem *)

\* Every step of the translator is a step of the contract, or says nothing.
LEMMA StepSimulated ==
    ASSUME TranslatorInv, Next
    PROVE  Simulated
  <1>1. CASE Upstream \/ IdleFires
    BY <1>1, UpstreamQuiet
  <1>2. ASSUME ended = "no", ~Upstream, ~IdleFires PROVE Simulated
    <2>1. Running
      BY <1>2 DEF TranslatorInv
    <2>2. CASE Heartbeat \/ Interrupt \/ SinkFails
      BY <2>1, <2>2, LoopSimulated
    <2>3. CASE Select
      BY <2>1, <2>3, LoopSimulated, HandlersQuiet DEF Select
    <2>4. CASE Handle
      BY <2>1, <2>4, EnsureStartedSimulated, OpenBlockSimulated, FlushPendingSimulated,
         PushDeltaSimulated, EmitDeltaSimulated, MarkDoneOrCloseSimulated, StopBlockSimulated,
         SayClosingSimulated, SayBlockStopSimulated, DrainNextSimulated,
         FinalizeAllBlocksSimulated, FinalizeCleanSimulated, SayMessageDeltaSimulated,
         SayMessageStopSimulated, EmitMidStreamErrorSimulated, SayErrorSimulated,
         SayPingSimulated DEF Handle
    <2> QED
      BY <1>2, <2>2, <2>3, <2>4 DEF Next
  <1>3. CASE ended # "no"
    <2>1. ~Heartbeat /\ ~Interrupt /\ ~SinkFails /\ ~Select /\ ~Handle
      <3>1. ~Selecting /\ \A op : ~At(op)
        BY <1>3 DEF Selecting, At
      <3>2. ~Heartbeat /\ ~Interrupt /\ ~SinkFails
        BY <1>3, <3>1 DEF Heartbeat, Interrupt, SinkFails
      <3>3. ~Select
        BY <1>3, <3>1 DEF Select, OnIgnored, OnReasoningTextDone, OnCreated, OnPartAdded,
           OnReasoningPart, OnDelta, OnTextDone, OnToolAdded, OnArgsDone, OnToolDone,
           OnReasoningDone, OnMessageDone, OnCompleted, OnFailed, OnEnd, OnIdle, Return, Take
      <3>4. ~Handle
        BY <3>1 DEF Handle, EnsureStarted, OpenBlock, FlushPending, PushDelta, EmitDelta,
           MarkDoneOrClose, StopBlock, SayClosing, SayBlockStop, DrainNext, FinalizeAllBlocks,
           FinalizeClean, SayMessageDelta, SayMessageStop, EmitMidStreamError, SayError, SayPing
      <3> QED
        BY <3>2, <3>3, <3>4
    <2> QED
      BY <1>1, <2>1 DEF Next
  <1> QED
    BY <1>1, <1>2, <1>3

\* The initial state is one the contract starts from, with an empty stack.
LEMMA InitSimulated ==
    ASSUME Init
    PROVE  Protocol!Init /\ TranslatorInv
  <1>1. Protocol!Init
    BY DEF Init
  <1>2. todo = <<>> /\ active = None /\ started = FALSE /\ terminus = "none" /\ nextIndex = 0
        /\ blk = [i \in OutIdx |-> Unseen] /\ order = <<>> /\ frame = NoFrame
    BY DEF Init
  <1>3. Unseen \in Blocks /\ Unseen.started = FALSE /\ Unseen.stopped = FALSE
    BY DEF Unseen, Blocks, Kinds, None
  <1>4. Typed
    <2>1. blk \in [OutIdx -> Blocks]
      BY <1>2, <1>3
    <2>2. order \in Seq(OutIdx) /\ todo \in Seq(Cmds)
      BY <1>2
    <2>3. frame.type \notin ItemTypes
      BY <1>2 DEF NoFrame, ItemTypes
    <2> QED
      BY <1>2, <2>1, <2>2, <2>3 DEF Typed
  <1>5. Stacked /\ ~Ending
    BY <1>2 DEF Stacked, Ending
  <1>6. phase = "before" /\ block = None /\ next = 0
    BY <1>1 DEF Protocol!Init, Protocol!NoBlock, None
  <1>7. Wire
    BY <1>2, <1>3, <1>5, <1>6 DEF Wire
  <1> QED
    BY <1>1, <1>4, <1>5, <1>7 DEF TranslatorInv, Running

\* The same for steps that leave everything unchanged.
LEMMA TranslatorStep ==
    ASSUME TranslatorInv, [Next]_vars
    PROVE  TranslatorInv' /\ [Protocol!Next]_(Protocol!vars)
  <1>1. CASE Next
    BY <1>1, StepSimulated DEF Simulated
  <1>2. CASE UNCHANGED vars
    <2>1. UNCHANGED <<core, todo, ended, frame, sink>>
      BY <1>2 DEF vars, loop
    <2>2. TranslatorInv'
      <3>1. CASE ended = "no"
        <4>1. Typed /\ Stacked /\ Wire
          BY <3>1 DEF TranslatorInv, Running
        <4>2. Typed'
          BY <2>1, <4>1 DEF Typed, core
        <4>3. Stacked'
          BY <2>1, <4>1 DEF Stacked, Fits, FitsStart, FitsBlock, CanOpen, AfterFlush, Buffering, core
        <4>4. Wire'
          BY <2>1, <4>1 DEF Wire, Ending, core, sink
        <4> QED
          BY <4>2, <4>3, <4>4 DEF TranslatorInv, Running
      <3>2. CASE ended # "no"
        BY <2>1, <3>2 DEF TranslatorInv
      <3> QED
        BY <3>1, <3>2
    <2>3. UNCHANGED Protocol!vars
      BY <2>1 DEF sink, Protocol!vars
    <2> QED
      BY <2>2, <2>3
  <1> QED
    BY <1>1, <1>2

\* The Sink contract (translate/stream/sink.go): whatever the upstream sends, in
\* whatever order, whichever write fails and whenever Run is interrupted, the
\* calls the sink accepts form a well-formed Anthropic stream.
THEOREM StreamImplementsSink == Spec => SinkContract
  <1>1. Init => Protocol!Init /\ TranslatorInv
    BY InitSimulated
  <1>2. TranslatorInv /\ [Next]_vars => TranslatorInv' /\ [Protocol!Next]_(Protocol!vars)
    BY TranslatorStep
  <1> QED
    BY <1>1, <1>2, PTL DEF Spec, SinkContract, Protocol!Spec

-----------------------------------------------------------------------------
(***************************************************************************)
(* What an orderly upstream says reaches the client: for any items, in any *)
(* interleaving and with any bounds, a clean end has told everything, no   *)
(* tool call is presented with part of its arguments, and a reasoning      *)
(* item's encrypted content goes out with its block.                       *)
(*                                                                         *)
(* None of this is inductive.  What is missing is what the functions still *)
(* on the stack are about to do, so most parts of DataInv speak of the set *)
(* of functions on it (Has).  Sealing is the central one: a block is only  *)
(* closed, or marked for closing, once its item has nothing more to say    *)
(* that would change how it ends, or when the message ends anyway.         *)
(* TranslatorInv is used throughout.                                       *)
(***************************************************************************)

\* Function op of block i is still to run.
Has(op, i) == Do(op, i) \in ToSet(todo)

Stages == {"new", "open", "closed", "gone"}

\* A block is of its item's kind, and a seen one can be found in t.order.
KindKept ==
    \A i \in OutIdx :
        /\ blk[i].kind \in {"none", KindOf[i]}
        /\ blk[i].kind = "none" => blk[i] = Unseen
        /\ blk[i].dropped => blk[i].kind = "thinking"
        /\ blk[i].stopped => blk[i].started
        /\ blk[i].kind # "none" => i \in ToSet(order)

\* Functions are only called for blocks that have been seen.
Known == \A x \in ToSet(todo) : x.i \in OutIdx => blk[x.i].kind # "none"

\* The frame on offer is the one its item was at.
FrameInOrder ==
    /\ up \in [OutIdx -> Stages]
    /\ frame.type \in ItemTypes =>
          /\ frame.i \in OutIdx
          /\ \E s \in Stages : <<s, frame.type, up[frame.i]>> \in Lifecycle[KindOf[frame.i]]
    /\ frame.type \notin ItemTypes => frame.i = None
    /\ frame.type = "argsDone" => frame.has = {"args"}

\* No frame will be handled any more.
Doomed == terminus # "none" \/ ended # "no" \/ Has("mstop", None) \/ Has("error", None)

\* Item i has nothing more to say that would change how its block ends.
Sealed(i) ==
    /\ up[i] \in {"closed", "gone"}
    /\ frame.i = i => frame.type \in {"messageDone", "toolDone"}
    /\ KindOf[i] = "tool" => blk[i].fullArgs \/ (up[i] = "gone" /\ frame.i # i)

ClosingOps == {"done", "stop", "halt", "close"}

\* Block i is closed, or is to be.
Closes(i) == blk[i].stopped \/ blk[i].done \/ \E op \in ClosingOps : Has(op, i)

Sealing == \A i \in OutIdx : Closes(i) => Sealed(i) \/ Doomed

\* The message ends with an error, or Run has ended without a message end.
Erring == Has("error", None) \/ terminus = "errored" \/ (ended # "no" /\ terminus # "clean")

\* Block i has been given its closing delta, or needs none.
Signed(i) ==
    \/ blk[i].closing = Closing(blk[i]) \/ Closing(blk[i]) = "no"
    \/ blk[i].kind = "tool" /\ Erring

Signing ==
    \A i \in OutIdx :
        /\ blk[i].stopped => Signed(i)
        /\ Has("halt", i) => Signed(i) \/ Has("close", i)

Whole ==
    Has("mstop", None) \/ terminus = "clean" => \A i \in OutIdx : ~PartialTool(blk[i])

\* Block b holds back its deltas up to number n, from the first one not sent.
Flow(b, n) == n >= b.sent /\ b.pending = [k \in 1..(n - b.sent) |-> b.sent + k]

\* The last delta of block i is in a handler's hands.
InHand(i) == Has("push", i) \/ Has("emit", i)

Flowing ==
    \A i \in OutIdx :
        /\ ended = "no" /\ ~blk[i].dropped =>
              Flow(blk[i], IF InHand(i) THEN blk[i].got - 1 ELSE blk[i].got)
        /\ ended # "no" /\ ~blk[i].dropped =>
              \E n \in {blk[i].got - 1, blk[i].got} : Flow(blk[i], n)
        /\ InHand(i) => ~blk[i].stopped
        /\ ended = "no" /\ blk[i].started => blk[i].pending = <<>> \/ Has("flush", i)

\* Once finalizeAllBlocks is through, nothing waits.
Told == Has("mstop", None) => Has("final", None) \/ \A i \in OutIdx : ~Buffering(blk[i])

AllSent ==
    terminus = "clean" =>
        /\ ~Has("error", None)
        /\ \A i \in OutIdx : \/ blk[i].kind = "none" \/ blk[i].dropped
                             \/ (blk[i].stopped /\ blk[i].sent = blk[i].got)

DataInv ==
    /\ KindKept /\ Known /\ FrameInOrder /\ Sealing /\ Signing /\ Whole /\ Flowing
    /\ Told /\ AllSent

-----------------------------------------------------------------------------
(* The stack as a set *)

\* Two functions are the same only for the same block.
LEMMA DoInjective ==
    /\ \A op, i : Do(op, i).op = op /\ Do(op, i).i = i
    /\ \A op1, i1, op2, i2 : Do(op1, i1) = Do(op2, i2) => op1 = op2 /\ i1 = i2
  <1>1. \A op, i : Do(op, i).op = op /\ Do(op, i).i = i
    BY DEF Do
  <1>2. ASSUME NEW op1, NEW i1, NEW op2, NEW i2, Do(op1, i1) = Do(op2, i2)
        PROVE  op1 = op2 /\ i1 = i2
    BY <1>2 DEF Do
  <1> QED
    BY <1>1, <1>2

\* The functions on a stack.
LEMMA StackSets ==
    /\ ToSet(<<>>) = {}
    /\ \A a \in Cmds : ToSet(<<a>>) = {a}
    /\ \A a, b \in Cmds : ToSet(<<a, b>>) = {a, b}
    /\ \A a, b, c \in Cmds : ToSet(<<a, b, c>>) = {a, b, c}
    /\ \A p, q \in Seq(Cmds) : ToSet(p \o q) = ToSet(p) \cup ToSet(q)
    /\ \A p \in Seq(Cmds) : p # <<>> => ToSet(p) = {Head(p)} \cup ToSet(Tail(p))
  <1>1. ToSet(<<>>) = {}
    BY DEF ToSet
  <1>2. \A a \in Cmds : ToSet(<<a>>) = {a}
    BY DEF ToSet
  <1>3. \A a, b \in Cmds : ToSet(<<a, b>>) = {a, b}
    BY DEF ToSet
  <1>4. \A a, b, c \in Cmds : ToSet(<<a, b, c>>) = {a, b, c}
    BY DEF ToSet
  <1>5. ASSUME NEW p \in Seq(Cmds), NEW q \in Seq(Cmds)
        PROVE  ToSet(p \o q) = ToSet(p) \cup ToSet(q)
    <2>1. /\ p \o q \in Seq(Cmds) /\ Len(p \o q) = Len(p) + Len(q)
          /\ Len(p) \in Nat /\ Len(q) \in Nat
          /\ \A k \in 1 .. Len(p) + Len(q) :
                (p \o q)[k] = IF k <= Len(p) THEN p[k] ELSE q[k - Len(p)]
      BY ConcatProperties, LenProperties
    <2>2. DOMAIN p = 1..Len(p) /\ DOMAIN q = 1..Len(q) /\ DOMAIN (p \o q) = 1..(Len(p) + Len(q))
      BY <2>1, LenProperties
    <2>3. ASSUME NEW y \in ToSet(p \o q) PROVE y \in ToSet(p) \cup ToSet(q)
      <3>1. PICK k \in 1..(Len(p) + Len(q)) : y = (p \o q)[k]
        BY <2>2 DEF ToSet
      <3>2. CASE k <= Len(p)
        BY <2>1, <2>2, <3>1, <3>2 DEF ToSet
      <3>3. CASE ~(k <= Len(p))
        <4>1. k - Len(p) \in 1..Len(q)
          BY <2>1, <3>3
        <4> QED
          BY <2>1, <2>2, <3>1, <3>3, <4>1 DEF ToSet
      <3> QED
        BY <3>2, <3>3
    <2>4. ASSUME NEW k \in 1..Len(p) PROVE p[k] \in ToSet(p \o q)
      <3>1. k \in 1..(Len(p) + Len(q)) /\ k <= Len(p)
        BY <2>1
      <3> QED
        BY <2>1, <2>2, <3>1 DEF ToSet
    <2>5. ASSUME NEW k \in 1..Len(q) PROVE q[k] \in ToSet(p \o q)
      <3>1. k + Len(p) \in 1..(Len(p) + Len(q)) /\ ~(k + Len(p) <= Len(p))
            /\ (k + Len(p)) - Len(p) = k
        BY <2>1
      <3>2. (p \o q)[k + Len(p)] = q[k]
        BY <2>1, <3>1
      <3> QED
        BY <2>2, <3>1, <3>2 DEF ToSet
    <2> QED
      BY <2>2, <2>3, <2>4, <2>5 DEF ToSet
  <1>6. ASSUME NEW p \in Seq(Cmds), p # <<>> PROVE ToSet(p) = {Head(p)} \cup ToSet(Tail(p))
    <2>1. /\ Tail(p) \in Seq(Cmds) /\ Len(Tail(p)) = Len(p) - 1 /\ Len(p) \in Nat \ {0}
          /\ \A k \in 1..Len(Tail(p)) : Tail(p)[k] = p[k + 1]
      BY <1>6, HeadTailProperties, LenProperties, EmptySeq
    <2>2. DOMAIN p = 1..Len(p) /\ DOMAIN Tail(p) = 1..(Len(p) - 1)
      BY <2>1, LenProperties
    <2>3. Head(p) = p[1]
      OBVIOUS
    <2>4. ASSUME NEW k \in 1..Len(p) PROVE p[k] \in {Head(p)} \cup ToSet(Tail(p))
      <3>1. CASE k = 1
        BY <2>3, <3>1
      <3>2. CASE k # 1
        <4>1. k - 1 \in 1..(Len(p) - 1) /\ (k - 1) + 1 = k
          BY <2>1, <3>2
        <4> QED
          BY <2>1, <2>2, <4>1 DEF ToSet
      <3> QED
        BY <3>1, <3>2
    <2>5. ASSUME NEW k \in 1..(Len(p) - 1) PROVE Tail(p)[k] \in ToSet(p)
      <3>1. k + 1 \in 1..Len(p)
        BY <2>1
      <3> QED
        BY <2>1, <2>2, <3>1 DEF ToSet
    <2>6. Head(p) \in ToSet(p)
      <3>1. 1 \in 1..Len(p)
        BY <2>1
      <3> QED
        BY <2>2, <2>3, <3>1 DEF ToSet
    <2> QED
      BY <2>2, <2>4, <2>5, <2>6 DEF ToSet
  <1> QED
    BY <1>1, <1>2, <1>3, <1>4, <1>5, <1>6

\* The functions R take the place of x on the stack.
Swap(x, R) ==
    /\ \A y \in ToSet(todo') : y \in ToSet(todo) \/ y \in R
    /\ \A y \in ToSet(todo) : y = x \/ y \in ToSet(todo')
    /\ R \subseteq ToSet(todo')
    /\ x \in ToSet(todo)

\* The function on top has run and left R to do.
Ran(op, R) ==
    /\ Swap(Do(op, Arg), R) /\ ended = "no" /\ terminus = "none" /\ op \in Ops
    /\ UNCHANGED <<up, frame, order, ended>>
    /\ Tail(todo) = <<>> => ToSet(todo') = R

\* Then(rest) swaps the top of the stack for rest.
LEMMA Runs ==
    ASSUME Running, NEW op, At(op), NEW rest \in Seq(Cmds), Then(rest)
    PROVE  Ran(op, ToSet(rest))
  <1>1. /\ todo \in Seq(Cmds) /\ todo # <<>> /\ Tail(todo) \in Seq(Cmds) /\ op \in Ops
        /\ Head(todo) = Do(op, Arg) /\ terminus = "none" /\ ended = "no"
    BY Top DEF Running, Typed, At
  <1>2. ToSet(todo) = {Do(op, Arg)} \cup ToSet(Tail(todo))
    BY <1>1, StackSets
  <1>3. todo' = rest \o Tail(todo) /\ UNCHANGED <<up, frame, order, ended>>
    BY DEF Then, loop
  <1>4. ToSet(todo') = ToSet(rest) \cup ToSet(Tail(todo))
    BY <1>1, <1>3, StackSets
  <1>5. ToSet(<<>>) = {}
    BY StackSets
  <1> QED
    BY <1>1, <1>2, <1>3, <1>4, <1>5, Zenon DEF Ran, Swap

-----------------------------------------------------------------------------
(* A step of the stack *)

\* Nothing about block c but its place on the wire and its buffer changes.
Keeps(b, c) ==
    /\ b.kind = c.kind /\ b.dropped = c.dropped /\ b.argsSeen = c.argsSeen
    /\ b.argsDone = c.argsDone /\ b.fullArgs = c.fullArgs /\ b.enc = c.enc /\ b.got = c.got
    /\ c.started => b.started
    /\ c.stopped => b.stopped
    /\ b.stopped => b.started \/ c.stopped
    /\ c.kind = "none" => b = c

\* What Closing, PartialTool and Buffering look at is kept, or only shrinks.
LEMMA KeepsFacts ==
    ASSUME NEW b, NEW c, Keeps(b, c)
    PROVE  /\ Closing(b) = Closing(c)
           /\ PartialTool(b) => PartialTool(c)
           /\ Buffering(b) => Buffering(c)
  BY DEF Keeps, Closing, PartialTool, Buffering

\* The message is coming to its end as before.
LEMMA EndNears ==
    ASSUME NEW op, NEW R, Ran(op, R), terminus' = terminus, op \notin {"mstop", "error"}
    PROVE  (Doomed => Doomed') /\ (Erring => Erring')
  BY DoInjective DEF Ran, Swap, Doomed, Erring, Has

\* A step of the stack keeps what does not depend on the functions it adds.
LEMMA RanKeeps ==
    ASSUME DataInv, NEW op, NEW R, Ran(op, R),
           \A j \in OutIdx : Keeps(blk'[j], blk[j]),
           Doomed => Doomed',
           \A y \in R : y.i \in OutIdx => blk[y.i].kind # "none",
           \A j \in OutIdx : Closes(j)' => Closes(j) \/ Doomed'
    PROVE  KindKept' /\ Known' /\ FrameInOrder' /\ Sealing'
  <1>1. KindKept'
    BY DEF DataInv, KindKept, Keeps, Ran
  <1>2. Known'
    BY DEF DataInv, Known, Keeps, Ran, Swap
  <1>3. FrameInOrder'
    BY DEF DataInv, FrameInOrder, Ran
  <1>4. \A j \in OutIdx : Sealed(j) => Sealed(j)'
    BY DEF Sealed, Keeps, Ran
  <1>5. Sealing'
    BY <1>4 DEF DataInv, Sealing
  <1> QED
    BY <1>1, <1>2, <1>3, <1>5

\* The closing deltas: a block is only closed when it has its own, what it is
\* given is its own, and every new halt follows a close or needs none.
LEMMA RanSigning ==
    ASSUME DataInv, NEW op, NEW R, Ran(op, R), Erring => Erring',
           \A j \in OutIdx : Keeps(blk'[j], blk[j]),
           \A j \in OutIdx : \/ blk'[j].closing = Closing(blk[j])
                             \/ blk'[j].closing = blk[j].closing /\ Do(op, Arg) # Do("close", j),
           \A j \in OutIdx : blk'[j].stopped => blk[j].stopped \/ Signed(j),
           \A j \in OutIdx : Do("halt", j) \in R =>
               Do("close", j) \in R \/ Closing(blk[j]) = "no" \/ (blk[j].kind = "tool" /\ Erring')
    PROVE  Signing'
  <1>1. \A j \in OutIdx : Closing(blk'[j]) = Closing(blk[j]) /\ blk'[j].kind = blk[j].kind
    BY KeepsFacts DEF Keeps
  <1>2. \A j \in OutIdx : Signed(j) => Signed(j)'
    BY <1>1 DEF Signed
  <1>3. \A j \in OutIdx : Has("close", j) => Has("close", j)' \/ Signed(j)'
    BY <1>1 DEF Ran, Swap, Has, Signed
  <1>4. ASSUME NEW j \in OutIdx, Has("halt", j)' PROVE Signed(j)' \/ Has("close", j)'
    <2>1. CASE Has("halt", j)
      BY <1>2, <1>3, <2>1 DEF DataInv, Signing
    <2>2. CASE Do("halt", j) \in R
      <3>1. CASE Do("close", j) \in R
        BY <3>1 DEF Ran, Swap, Has
      <3>2. CASE Closing(blk[j]) = "no" \/ (blk[j].kind = "tool" /\ Erring')
        BY <1>1, <3>2 DEF Signed
      <3> QED
        BY <2>2, <3>1, <3>2
    <2> QED
      BY <1>4, <2>1, <2>2 DEF Ran, Swap, Has
  <1>5. ASSUME NEW j \in OutIdx, blk'[j].stopped PROVE Signed(j)'
    BY <1>2, <1>5 DEF DataInv, Signing
  <1> QED
    BY <1>4, <1>5 DEF Signing

\* The deltas: no block's buffer changes, none is closed, and what is in hand
\* stays there.
LEMMA RanFlowing ==
    ASSUME DataInv, NEW op, NEW R, Ran(op, R), op \notin {"push", "emit"},
           \A j \in OutIdx : /\ Keeps(blk'[j], blk[j])
                             /\ blk'[j].pending = blk[j].pending /\ blk'[j].sent = blk[j].sent,
           \A j \in OutIdx : Do("push", j) \notin R /\ Do("emit", j) \notin R,
           \A j \in OutIdx : blk'[j].stopped => blk[j].stopped \/ ~InHand(j),
           \A j \in OutIdx : blk'[j].started => blk[j].started \/ Do("flush", j) \in R,
           op = "flush" => Do("flush", Arg) \in R \/ blk[Arg].pending = <<>>
    PROVE  Flowing'
  <1>1. \A j \in OutIdx : InHand(j)' <=> InHand(j)
    BY DoInjective DEF Ran, Swap, InHand, Has
  <1>2. ASSUME NEW j \in OutIdx
        PROVE  /\ \A n : Flow(blk[j], n) => Flow(blk'[j], n)
               /\ blk'[j].got = blk[j].got /\ blk'[j].dropped = blk[j].dropped
    BY DEF Flow, Keeps
  <1>3. ended = "no" /\ ended' = "no"
    BY DEF Ran
  <1>4. ASSUME NEW j \in OutIdx, ~blk'[j].dropped
        PROVE  Flow(blk'[j], IF InHand(j)' THEN blk'[j].got - 1 ELSE blk'[j].got)
    <2>1. Flow(blk[j], IF InHand(j) THEN blk[j].got - 1 ELSE blk[j].got)
      BY <1>2, <1>3, <1>4 DEF DataInv, Flowing
    <2> QED
      BY <1>1, <1>2, <2>1, Zenon
  <1>5. ASSUME NEW j \in OutIdx, InHand(j)' PROVE ~blk'[j].stopped
    BY <1>1, <1>5 DEF DataInv, Flowing
  <1>6. ASSUME NEW j \in OutIdx, blk'[j].started PROVE blk'[j].pending = <<>> \/ Has("flush", j)'
    <2>1. CASE Do("flush", j) \in R
      BY <2>1 DEF Ran, Swap, Has
    <2>2. CASE blk[j].started
      <3>1. blk[j].pending = <<>> \/ Has("flush", j)
        BY <1>3, <2>2 DEF DataInv, Flowing
      <3>2. CASE Has("flush", j) /\ Do(op, Arg) # Do("flush", j)
        BY <3>2 DEF Ran, Swap, Has
      <3>3. CASE Do(op, Arg) = Do("flush", j)
        <4>1. op = "flush" /\ Arg = j
          BY <3>3, DoInjective
        <4> QED
          BY <2>1, <4>1
      <3> QED
        BY <3>1, <3>2, <3>3
    <2> QED
      BY <1>6, <2>1, <2>2
  <1> QED
    BY <1>3, <1>4, <1>5, <1>6 DEF Flowing

\* The same when the deltas of the one block that the function is about change.
LEMMA RanFlowingOne ==
    ASSUME DataInv, NEW op, NEW R, Ran(op, R), NEW i \in OutIdx, Arg = i,
           \A j \in OutIdx \ {i} : blk'[j] = blk[j],
           \A j \in OutIdx \ {i} : Do("push", j) \notin R /\ Do("emit", j) \notin R,
           ~blk'[i].dropped =>
               Flow(blk'[i], IF InHand(i)' THEN blk'[i].got - 1 ELSE blk'[i].got),
           InHand(i)' => ~blk'[i].stopped,
           blk'[i].started => blk'[i].pending = <<>> \/ Has("flush", i)'
    PROVE  Flowing'
  <1>1. ended = "no" /\ ended' = "no"
    BY DEF Ran
  <1>2. ASSUME NEW j \in OutIdx, j # i
        PROVE  /\ ~blk'[j].dropped =>
                     Flow(blk'[j], IF InHand(j)' THEN blk'[j].got - 1 ELSE blk'[j].got)
               /\ InHand(j)' => ~blk'[j].stopped
               /\ blk'[j].started => blk'[j].pending = <<>> \/ Has("flush", j)'
    <2>1. blk'[j] = blk[j] /\ (InHand(j)' <=> InHand(j)) /\ (Has("flush", j) => Has("flush", j)')
      BY <1>2, DoInjective DEF Ran, Swap, InHand, Has
    <2>2. /\ ~blk[j].dropped => Flow(blk[j], IF InHand(j) THEN blk[j].got - 1 ELSE blk[j].got)
          /\ InHand(j) => ~blk[j].stopped
          /\ blk[j].started => blk[j].pending = <<>> \/ Has("flush", j)
      BY <1>1 DEF DataInv, Flowing
    <2>3. Flow(blk[j], IF InHand(j) THEN blk[j].got - 1 ELSE blk[j].got) =>
             Flow(blk'[j], IF InHand(j)' THEN blk'[j].got - 1 ELSE blk'[j].got)
      BY <2>1, Zenon
    <2> QED
      BY <2>1, <2>2, <2>3, Zenon
  <1> QED
    BY <1>1, <1>2 DEF Flowing

\* The end of the message: it is not begun, finalizeAllBlocks is not through, and
\* no tool call's arguments are looked at anew.
LEMMA RanEnding ==
    ASSUME DataInv, NEW op, NEW R, Ran(op, R), terminus' = terminus,
           \A j \in OutIdx : Keeps(blk'[j], blk[j]),
           Do("mstop", None) \in R =>
               Do("final", None) \in R /\ \A j \in OutIdx : ~PartialTool(blk[j]),
           op = "final" => Do("final", None) \in R \/ \A j \in OutIdx : ~Buffering(blk[j])
    PROVE  Whole' /\ Told' /\ AllSent'
  <1>1. \A j \in OutIdx : (PartialTool(blk'[j]) => PartialTool(blk[j]))
                            /\ (Buffering(blk'[j]) => Buffering(blk[j]))
    BY KeepsFacts
  <1>2. terminus' = "none"
    BY DEF Ran
  <1>3. Has("mstop", None)' => Has("mstop", None) \/ Do("mstop", None) \in R
    BY DEF Ran, Swap, Has
  <1>4. Whole'
    BY <1>1, <1>2, <1>3 DEF DataInv, Whole
  <1>5. Do("final", None) \in R => Has("final", None)'
    BY DEF Ran, Swap, Has
  <1>6. Has("final", None) => Has("final", None)' \/ op = "final"
    BY DoInjective DEF Ran, Swap, Has
  <1>7. Told'
    BY <1>1, <1>3, <1>5, <1>6 DEF DataInv, Told
  <1> QED
    BY <1>2, <1>4, <1>7 DEF AllSent

\* A step that only rearranges the stack.
LEMMA QuietData ==
    ASSUME DataInv, NEW op, NEW R, Ran(op, R), UNCHANGED <<blk, terminus>>,
           op \notin {"mstop", "error", "close", "push", "emit"},
           \A y \in R : y.i \in OutIdx => blk[y.i].kind # "none",
           \A j \in OutIdx : \A o \in ClosingOps : Do(o, j) \in R => Closes(j) \/ Doomed',
           \A j \in OutIdx : Do("halt", j) \in R =>
               Do("close", j) \in R \/ Closing(blk[j]) = "no" \/ (blk[j].kind = "tool" /\ Erring'),
           \A j \in OutIdx : Do("push", j) \notin R /\ Do("emit", j) \notin R,
           op = "flush" => Do("flush", Arg) \in R \/ blk[Arg].pending = <<>>,
           Do("mstop", None) \in R =>
               Do("final", None) \in R /\ \A j \in OutIdx : ~PartialTool(blk[j]),
           op = "final" => Do("final", None) \in R \/ \A j \in OutIdx : ~Buffering(blk[j])
    PROVE  DataInv'
  <1>1. (Doomed => Doomed') /\ (Erring => Erring')
    BY EndNears
  <1>2. \A j \in OutIdx : Keeps(blk'[j], blk[j])
    BY DEF Keeps, DataInv, KindKept
  <1>3. \A j \in OutIdx : Closes(j)' => Closes(j) \/ Doomed'
    BY DEF Closes, Ran, Swap, Has
  <1>4. KindKept' /\ Known' /\ FrameInOrder' /\ Sealing'
    BY <1>1, <1>2, <1>3, RanKeeps
  <1>5. Signing'
    BY <1>1, <1>2, DoInjective, RanSigning
  <1>6. Flowing'
    BY <1>2, RanFlowing
  <1>7. Whole' /\ Told' /\ AllSent'
    BY <1>2, RanEnding
  <1> QED
    BY <1>4, <1>5, <1>6, <1>7 DEF DataInv

-----------------------------------------------------------------------------
(* The functions, one by one *)

\* The same for the lists of functions that occur.
LEMMA RunsList ==
    ASSUME Running, NEW op, At(op)
    PROVE  /\ Then(<<>>) => Ran(op, {})
           /\ \A a \in Cmds : Then(<<a>>) => Ran(op, {a})
           /\ \A a, b \in Cmds : Then(<<a, b>>) => Ran(op, {a, b})
           /\ \A a, b, c \in Cmds : Then(<<a, b, c>>) => Ran(op, {a, b, c})
  <1>1. ASSUME NEW rest \in Seq(Cmds), Then(rest) PROVE Ran(op, ToSet(rest))
    BY <1>1, Runs
  <1>2. Then(<<>>) => Ran(op, {})
    <2>1. <<>> \in Seq(Cmds)
      OBVIOUS
    <2> QED
      BY <1>1, <2>1, StackSets
  <1>3. ASSUME NEW a \in Cmds, Then(<<a>>) PROVE Ran(op, {a})
    <2>1. <<a>> \in Seq(Cmds) /\ ToSet(<<a>>) = {a}
      BY StackSets
    <2>2. Ran(op, ToSet(<<a>>))
      BY <1>1, <1>3, <2>1
    <2> QED
      BY <2>1, <2>2
  <1>4. ASSUME NEW a \in Cmds, NEW b \in Cmds, Then(<<a, b>>) PROVE Ran(op, {a, b})
    <2>1. <<a, b>> \in Seq(Cmds) /\ ToSet(<<a, b>>) = {a, b}
      BY StackSets
    <2>2. Ran(op, ToSet(<<a, b>>))
      BY <1>1, <1>4, <2>1
    <2> QED
      BY <2>1, <2>2
  <1>5. ASSUME NEW a \in Cmds, NEW b \in Cmds, NEW c \in Cmds, Then(<<a, b, c>>)
        PROVE  Ran(op, {a, b, c})
    <2>1. <<a, b, c>> \in Seq(Cmds) /\ ToSet(<<a, b, c>>) = {a, b, c}
      BY StackSets
    <2>2. Ran(op, ToSet(<<a, b, c>>))
      BY <1>1, <1>5, <2>1
    <2> QED
      BY <2>1, <2>2
  <1> QED
    BY <1>2, <1>3, <1>4, <1>5

\* A function that is about a block.
LEMMA BlockRun ==
    ASSUME Running, DataInv,
           NEW op \in {"done", "push", "emit", "open", "flush", "stop", "halt", "close"}, At(op)
    PROVE  /\ Arg \in OutIdx /\ Has(op, Arg) /\ Head(todo) = Do(op, Arg) /\ Do(op, Arg) \in Cmds
           /\ blk[Arg] \in Blocks /\ blk[Arg].kind # "none" /\ terminus = "none" /\ ended = "no"
           /\ FitsBlock(Arg, Do(op, Arg), Tail(todo))
  <1>1. PICK r \in Seq(Cmds), a \in OutIdx :
           /\ r = Tail(todo) /\ a = Arg /\ Head(todo) = Do(op, a) /\ Do(op, a) \in Cmds
           /\ FitsBlock(a, Do(op, a), r) /\ terminus = "none" /\ ~Ending
    BY BlockTop
  <1>2. todo \in Seq(Cmds) /\ todo # <<>>
    BY DEF Running, Typed, At
  <1>3. Do(op, a) \in ToSet(todo)
    BY <1>1, <1>2, StackSets
  <1>4. Do(op, a).i = a
    BY DoInjective
  <1>5. blk[a].kind # "none"
    BY <1>3, <1>4 DEF DataInv, Known
  <1> QED
    BY <1>1, <1>3, <1>5 DEF Has, Running, Typed, At

\* The block that firstBuffering finds waits, and none waits if it finds none.
LEMMA FirstBufferingFacts ==
    ASSUME Typed, KindKept
    PROVE  /\ FirstBuffering = None => \A j \in OutIdx : ~Buffering(blk[j])
           /\ FirstBuffering # None => FirstBuffering \in OutIdx /\ Buffering(blk[FirstBuffering])
  <1> DEFINE waiting == {k \in DOMAIN order : Buffering(blk[order[k]])}
  <1>1. DOMAIN order = 1..Len(order) /\ Len(order) \in Nat /\ \A k \in DOMAIN order : order[k] \in OutIdx
    BY DEF Typed
  <1>2. CASE waiting = {}
    <2>1. ASSUME NEW j \in OutIdx, Buffering(blk[j]) PROVE FALSE
      <3>1. j \in ToSet(order)
        BY <2>1 DEF KindKept, Buffering
      <3>2. PICK k \in DOMAIN order : order[k] = j
        BY <3>1 DEF ToSet
      <3> QED
        BY <1>2, <2>1, <3>2
    <2>2. FirstBuffering = None
      BY <1>2 DEF FirstBuffering
    <2> QED
      BY <2>1, <2>2
  <1>3. CASE waiting # {}
    <2>1. waiting \subseteq Nat
      BY <1>1
    <2>2. PICK m \in waiting : \A k \in waiting : m <= k
      BY <1>3, <2>1, NatMin
    <2>3. Min(waiting) \in waiting
      BY <2>2 DEF Min
    <2>4. FirstBuffering = order[Min(waiting)]
      BY <1>3 DEF FirstBuffering
    <2>5. order[Min(waiting)] \in OutIdx /\ Buffering(blk[order[Min(waiting)]])
      BY <1>1, <2>3
    <2> QED
      BY <2>4, <2>5, TranslatorAssumption
  <1> QED
    BY <1>2, <1>3

\* ensureStarted, the ping and the closing delta of the message.
LEMMA PlainData ==
    ASSUME Running, DataInv, EnsureStarted \/ SayPing \/ SayMessageDelta
    PROVE  DataInv'
  <1>1. PICK op \in {"start", "ping", "mdelta"} : At(op) /\ Then(<<>>)
    BY DEF EnsureStarted, SayPing, SayMessageDelta
  <1>2. UNCHANGED <<blk, terminus>>
    BY DEF EnsureStarted, SayPing, SayMessageDelta, core
  <1>3. Ran(op, {})
    BY <1>1, RunsList
  <1> QED
    BY <1>2, <1>3, QuietData

\* openBlock puts a block on the wire and leaves the flush to do.
LEMMA OpenBlockData == ASSUME Running, DataInv, OpenBlock PROVE DataInv'
  <1>1. At("open")
    BY DEF OpenBlock
  <1>2. /\ Arg \in OutIdx /\ Head(todo) = Do("open", Arg) /\ Do("open", Arg) \in Cmds
        /\ blk[Arg] \in Blocks /\ blk[Arg].kind # "none" /\ terminus = "none"
    BY <1>1, BlockRun
  <1>3. PICK i \in OutIdx : i = Arg
    BY <1>2
  <1>4. Start \in Cmds /\ Do("flush", i) \in Cmds /\ Start.i = None
    BY DoTypes, DoInjective DEF Start, Ops
  <1>5. CASE Then(<<>>) /\ UNCHANGED <<blk, terminus>>
    <2>1. Ran("open", {})
      BY <1>1, <1>5, RunsList
    <2> QED
      BY <1>5, <2>1, QuietData
  <1>6. CASE Then(<<Start, Head(todo)>>) /\ UNCHANGED <<blk, terminus>>
    <2>1. Ran("open", {Start, Do("open", i)})
      BY <1>1, <1>2, <1>3, <1>4, <1>6, RunsList
    <2>2. \A y \in {Start, Do("open", i)} : y.i \in OutIdx => blk[y.i].kind # "none"
      BY <1>2, <1>3, <1>4, DoInjective, TranslatorAssumption
    <2> QED
      BY <1>6, <2>1, <2>2, DoInjective, QuietData DEF Start, ClosingOps
  <1>7. CASE /\ Buffering(blk[Arg]) /\ Then(<<Do("flush", Arg)>>) /\ UNCHANGED terminus
             /\ blk' = [blk EXCEPT ![Arg] = [@ EXCEPT !.index = nextIndex, !.started = TRUE]]
    <2>1. Ran("open", {Do("flush", i)})
      BY <1>1, <1>3, <1>4, <1>7, RunsList
    <2>2. PICK n \in Nat, c \in Blocks : n = nextIndex /\ c = blk[i]
      BY <1>2, <1>3 DEF Running, Typed
    <2>3. blk' = [blk EXCEPT ![i] = [c EXCEPT !.index = n, !.started = TRUE]]
      BY <1>3, <1>7, <2>2
    <2> DEFINE b == [c EXCEPT !.index = n, !.started = TRUE]
    <2>4. /\ Keeps(b, c) /\ b.closing = c.closing /\ b.pending = c.pending /\ b.sent = c.sent
          /\ b.stopped = c.stopped /\ b.done = c.done
      BY <1>2, <1>3, <2>2 DEF Blocks, Keeps
    <2> HIDE DEF b
    <2>5. \A j \in OutIdx : blk'[j] = IF j = i THEN b ELSE blk[j]
      BY <2>3 DEF Running, Typed, b
    <2>6. \A j \in OutIdx :
             /\ Keeps(blk'[j], blk[j]) /\ blk'[j].closing = blk[j].closing
             /\ blk'[j].pending = blk[j].pending /\ blk'[j].sent = blk[j].sent
             /\ blk'[j].stopped = blk[j].stopped /\ blk'[j].done = blk[j].done
             /\ blk'[j].started => blk[j].started \/ j = i
      <3>1. \A j \in OutIdx : Keeps(blk[j], blk[j])
        BY DEF DataInv, KindKept, Keeps
      <3> QED
        BY <2>2, <2>4, <2>5, <3>1
    <2>7. (Doomed => Doomed') /\ (Erring => Erring')
      BY <1>7, <2>1, EndNears
    <2>8. \A j \in OutIdx : Closes(j)' => Closes(j) \/ Doomed'
      BY <2>1, <2>6, DoInjective DEF Closes, ClosingOps, Ran, Swap, Has
    <2>9. \A y \in {Do("flush", i)} : y.i \in OutIdx => blk[y.i].kind # "none"
      BY <1>2, <1>3, DoInjective
    <2>10. KindKept' /\ Known' /\ FrameInOrder' /\ Sealing'
      BY <2>1, <2>6, <2>7, <2>8, <2>9, RanKeeps
    <2>11. Signing'
      BY <2>1, <2>6, <2>7, DoInjective, RanSigning
    <2>12. Flowing'
      BY <2>1, <2>6, DoInjective, RanFlowing
    <2>13. Whole' /\ Told' /\ AllSent'
      BY <1>7, <2>1, <2>6, DoInjective, RanEnding
    <2> QED
      BY <2>10, <2>11, <2>12, <2>13 DEF DataInv
  <1> QED
    BY <1>5, <1>6, <1>7 DEF OpenBlock

\* What a buffer holds: it loses its oldest delta, gains the newest, or is empty.
LEMMA FlowFacts ==
    ASSUME NEW c \in Blocks, NEW n \in Int, Flow(c, n)
    PROVE  /\ c.pending = <<>> => n = c.sent
           /\ c.pending # <<>> =>
                 /\ Head(c.pending) = c.sent + 1 /\ n >= c.sent + 1
                 /\ Tail(c.pending) = [k \in 1..(n - (c.sent + 1)) |-> (c.sent + 1) + k]
           /\ Append(c.pending, n + 1) = [k \in 1..((n + 1) - c.sent) |-> c.sent + k]
  <1>1. PICK s \in Nat, p \in Seq(Nat) : s = c.sent /\ p = c.pending
    BY BlockFields
  <1>2. n >= s /\ p = [k \in 1..(n - s) |-> s + k]
    BY <1>1 DEF Flow
  <1>3. DOMAIN p = 1..(n - s) /\ DOMAIN p = 1..Len(p) /\ Len(p) \in Nat /\ n - s \in Nat
    BY <1>2, LenProperties
  <1>4. Len(p) = n - s
    BY <1>3
  <1>5. \A k \in 1..Len(p) : p[k] = s + k
    BY <1>2, <1>4
  <1>6. p = <<>> => n = s
    BY <1>4
  <1>7. ASSUME p # <<>>
        PROVE  /\ Head(p) = s + 1 /\ n >= s + 1
               /\ Tail(p) = [k \in 1..(n - (s + 1)) |-> (s + 1) + k]
    <2>1. Len(p) # 0 /\ Head(p) = p[1]
      BY <1>7, EmptySeq
    <2>2. n >= s + 1 /\ Head(p) = s + 1
      BY <1>4, <1>5, <2>1
    <2>3. /\ Tail(p) \in Seq(Nat) /\ Len(Tail(p)) = Len(p) - 1
          /\ \A k \in 1..Len(Tail(p)) : Tail(p)[k] = p[k + 1]
      BY <1>7, HeadTailProperties
    <2> DEFINE q == [k \in 1..(n - (s + 1)) |-> (s + 1) + k]
    <2>4. Len(Tail(p)) = n - (s + 1) /\ n - (s + 1) \in Nat
      BY <1>4, <2>2, <2>3
    <2>5. q \in Seq(Nat) /\ Len(q) = n - (s + 1)
      BY <2>4
    <2>6. ASSUME NEW k \in 1..(n - (s + 1)) PROVE Tail(p)[k] = q[k]
      <3>1. k + 1 \in 1..Len(p) /\ Tail(p)[k] = p[k + 1]
        BY <1>4, <2>3, <2>4
      <3> QED
        BY <1>5, <3>1
    <2> HIDE DEF q
    <2>7. Tail(p) = q
      BY <2>3, <2>4, <2>5, <2>6, SeqEqual
    <2> QED
      BY <2>2, <2>7 DEF q
  <1>8. Append(p, n + 1) = [k \in 1..((n + 1) - s) |-> s + k]
    <2> DEFINE q == [k \in 1..((n + 1) - s) |-> s + k]
    <2>1. n + 1 \in Nat /\ (n + 1) - s \in Nat /\ (n + 1) - s = Len(p) + 1
      BY <1>2, <1>4
    <2>2. q \in Seq(Nat) /\ Len(q) = Len(p) + 1 /\ \A k \in 1..(Len(p) + 1) : q[k] = s + k
      BY <2>1
    <2> HIDE DEF q
    <2>3. /\ Append(p, n + 1) \in Seq(Nat) /\ Len(Append(p, n + 1)) = Len(p) + 1
          /\ \A k \in 1..Len(p) : Append(p, n + 1)[k] = p[k]
          /\ Append(p, n + 1)[Len(p) + 1] = n + 1
      BY <2>1, AppendProperties
    <2>4. ASSUME NEW k \in 1..(Len(p) + 1) PROVE Append(p, n + 1)[k] = q[k]
      <3>1. CASE k = Len(p) + 1
        BY <1>4, <2>2, <2>3, <3>1
      <3>2. CASE k # Len(p) + 1
        <4>1. k \in 1..Len(p)
          BY <1>3, <3>2
        <4> QED
          BY <1>5, <2>2, <2>3, <4>1
      <3> QED
        BY <3>1, <3>2
    <2>5. Append(p, n + 1) = q
      BY <2>2, <2>3, <2>4, SeqEqual
    <2> QED
      BY <2>5 DEF q
  <1> QED
    BY <1>1, <1>6, <1>7, <1>8

\* A block that holds nothing back.
LEMMA FlowEmpty ==
    ASSUME NEW c, c.sent \in Nat, c.pending = <<>>
    PROVE  Flow(c, c.sent)
  <1>1. PICK s \in Nat : s = c.sent
    OBVIOUS
  <1>2. <<>> = [k \in 1..(s - s) |-> s + k]
    OBVIOUS
  <1> QED
    BY <1>1, <1>2 DEF Flow

\* flushPending sends the oldest delta that was held back.
LEMMA FlushPendingData == ASSUME Running, DataInv, FlushPending PROVE DataInv'
  <1>1. At("flush") /\ UNCHANGED terminus
    BY DEF FlushPending
  <1>2. /\ Arg \in OutIdx /\ Head(todo) = Do("flush", Arg) /\ Do("flush", Arg) \in Cmds
        /\ blk[Arg] \in Blocks /\ blk[Arg].kind # "none" /\ ended = "no"
    BY <1>1, BlockRun
  <1>3. PICK i \in OutIdx, c \in Blocks : i = Arg /\ c = blk[i]
    BY <1>2
  <1>4. CASE c.pending = <<>>
    <2>1. Then(<<>>) /\ UNCHANGED blk
      BY <1>3, <1>4 DEF FlushPending
    <2>2. Ran("flush", {})
      BY <1>1, <2>1, RunsList
    <2> QED
      BY <1>1, <1>3, <1>4, <2>1, <2>2, QuietData
  <1>5. CASE c.pending # <<>>
    <2>1. Then(<<Do("flush", i)>>)
      BY <1>2, <1>3, <1>5 DEF FlushPending
    <2>2. Ran("flush", {Do("flush", i)})
      BY <1>1, <1>2, <1>3, <2>1, RunsList
    <2>3. PICK p \in Seq(Nat), h \in Nat : p = Tail(c.pending) /\ h = Head(c.pending)
      BY <1>5, BlockFields, HeadTailProperties
    <2>4. blk' = [blk EXCEPT ![i] = [c EXCEPT !.pending = p, !.sent = h]]
      BY <1>3, <1>5, <2>3 DEF FlushPending
    <2> DEFINE b == [c EXCEPT !.pending = p, !.sent = h]
    <2>5. /\ Keeps(b, c) /\ b.closing = c.closing /\ b.pending = p /\ b.sent = h /\ b.got = c.got
          /\ b.stopped = c.stopped /\ b.done = c.done /\ b.dropped = c.dropped
      BY <1>2, <1>3 DEF Blocks, Keeps
    <2> HIDE DEF b
    <2>6. \A j \in OutIdx : blk'[j] = IF j = i THEN b ELSE blk[j]
      BY <2>4 DEF Running, Typed, b
    <2>7. \A j \in OutIdx :
             /\ Keeps(blk'[j], blk[j]) /\ blk'[j].closing = blk[j].closing
             /\ blk'[j].stopped = blk[j].stopped /\ blk'[j].done = blk[j].done
      <3>1. \A j \in OutIdx : Keeps(blk[j], blk[j])
        BY DEF DataInv, KindKept, Keeps
      <3> QED
        BY <1>3, <2>5, <2>6, <3>1
    <2>8. (Doomed => Doomed') /\ (Erring => Erring')
      BY <1>1, <2>2, EndNears
    <2>9. \A j \in OutIdx : Closes(j)' => Closes(j) \/ Doomed'
      BY <2>2, <2>7, DoInjective DEF Closes, ClosingOps, Ran, Swap, Has
    <2>10. \A y \in {Do("flush", i)} : y.i \in OutIdx => blk[y.i].kind # "none"
      BY <1>2, <1>3, DoInjective
    <2>11. KindKept' /\ Known' /\ FrameInOrder' /\ Sealing'
      BY <2>2, <2>7, <2>8, <2>9, <2>10, RanKeeps
    <2>12. Signing'
      BY <2>2, <2>7, <2>8, DoInjective, RanSigning
    <2>13. InHand(i)' <=> InHand(i)
      BY <2>2, DoInjective DEF Ran, Swap, InHand, Has
    <2>14. ASSUME NEW n \in Int, Flow(c, n) PROVE Flow(b, n)
      <3>1. h = c.sent + 1 /\ n >= c.sent + 1
            /\ p = [k \in 1..(n - (c.sent + 1)) |-> (c.sent + 1) + k]
        BY <1>5, <2>3, <2>14, FlowFacts
      <3> QED
        BY <2>5, <3>1 DEF Flow
    <2>15. ~b.dropped => Flow(b, IF InHand(i)' THEN b.got - 1 ELSE b.got)
      <3>1. ~c.dropped => Flow(c, IF InHand(i) THEN c.got - 1 ELSE c.got)
        BY <1>2, <1>3 DEF DataInv, Flowing
      <3>2. c.got \in Int /\ c.got - 1 \in Int
        BY BlockFields
      <3>3. CASE InHand(i)
        BY <2>5, <2>13, <2>14, <3>1, <3>2, <3>3
      <3>4. CASE ~InHand(i)
        BY <2>5, <2>13, <2>14, <3>1, <3>2, <3>4
      <3> QED
        BY <3>3, <3>4
    <2>16. InHand(i)' => ~b.stopped
      BY <1>3, <2>5, <2>13 DEF DataInv, Flowing
    <2>17. Has("flush", i)'
      BY <2>2 DEF Ran, Swap, Has
    <2>18. blk'[i] = b /\ \A j \in OutIdx \ {i} : blk'[j] = blk[j]
      BY <2>6
    <2>19. \A j \in OutIdx : Do("push", j) \notin {Do("flush", i)} /\ Do("emit", j) \notin {Do("flush", i)}
      BY DoInjective
    <2>20. Flowing'
      BY <1>3, <2>2, <2>15, <2>16, <2>17, <2>18, <2>19, RanFlowingOne
    <2>21. Whole' /\ Told' /\ AllSent'
      BY <1>1, <2>2, <2>7, DoInjective, RanEnding
    <2> QED
      BY <2>11, <2>12, <2>20, <2>21 DEF DataInv
  <1> QED
    BY <1>4, <1>5

\* A function that changes the block it is about.
LEMMA BlockData ==
    ASSUME Running, DataInv, NEW op, NEW R, Ran(op, R), UNCHANGED terminus,
           op \notin {"mstop", "error", "final"},
           NEW i \in OutIdx, Arg = i, NEW b, Keeps(b, blk[i]), blk' = [blk EXCEPT ![i] = b],
           \A y \in R : y.i \in OutIdx => blk[y.i].kind # "none",
           \A y \in R : y.op \notin ClosingOps \cup {"mstop"},
           b.stopped \/ b.done => Closes(i),
           b.closing = Closing(blk[i]) \/ (b.closing = blk[i].closing /\ op # "close"),
           b.stopped => blk[i].stopped \/ Signed(i),
           \A j \in OutIdx \ {i} : Do("push", j) \notin R /\ Do("emit", j) \notin R,
           ~b.dropped => Flow(b, IF InHand(i)' THEN b.got - 1 ELSE b.got),
           InHand(i)' => ~b.stopped,
           b.started => b.pending = <<>> \/ Has("flush", i)'
    PROVE  DataInv'
  <1>1. blk'[i] = b /\ \A j \in OutIdx \ {i} : blk'[j] = blk[j]
    BY DEF Running, Typed
  <1>2. \A j \in OutIdx : Keeps(blk'[j], blk[j])
    <2>1. \A j \in OutIdx : Keeps(blk[j], blk[j])
      BY DEF DataInv, KindKept, Keeps
    <2> QED
      BY <1>1, <2>1
  <1>3. (Doomed => Doomed') /\ (Erring => Erring')
    BY EndNears
  <1>4. \A o, j : Do(o, j) \in R => o \notin ClosingOps \cup {"mstop"}
    BY DoInjective
  <1>5. \A j \in OutIdx : Closes(j)' => Closes(j) \/ Doomed'
    BY <1>1, <1>4 DEF Closes, Ran, Swap, Has
  <1>6. KindKept' /\ Known' /\ FrameInOrder' /\ Sealing'
    BY <1>2, <1>3, <1>5, RanKeeps
  <1>7. Signing'
    <2>1. ASSUME NEW j \in OutIdx
          PROVE  \/ blk'[j].closing = Closing(blk[j])
                 \/ blk'[j].closing = blk[j].closing /\ Do(op, Arg) # Do("close", j)
      BY <1>1, DoInjective
    <2>2. \A j \in OutIdx : blk'[j].stopped => blk[j].stopped \/ Signed(j)
      BY <1>1
    <2>3. \A j \in OutIdx : Do("halt", j) \notin R
      BY <1>4 DEF ClosingOps
    <2> QED
      BY <1>2, <1>3, <2>1, <2>2, <2>3, RanSigning
  <1>8. Flowing'
    BY <1>1, RanFlowingOne
  <1>9. Whole' /\ Told' /\ AllSent'
    BY <1>2, <1>4, RanEnding
  <1> QED
    BY <1>6, <1>7, <1>8, <1>9 DEF DataInv

\* The functions below the one that runs.
LEMMA Below ==
    ASSUME Running, NEW op, At(op)
    PROVE  /\ ToSet(todo) = {Do(op, Arg)} \cup ToSet(Tail(todo))
           /\ Tail(todo) = <<>> => ToSet(todo) = {Do(op, Arg)}
           /\ ToSet(Drain) = {Do("drain", None)} /\ ToSet(Errors) = {Do("error", None)}
           /\ ToSet(MessageEnd) = {Do("mdelta", None), Do("mstop", None)}
           /\ ToSet(Final) = {Do("final", None), Do("mdelta", None), Do("mstop", None)}
  <1>1. todo \in Seq(Cmds) /\ todo # <<>> /\ Head(todo) = Do(op, Arg)
    BY Top DEF Running, Typed, At
  <1>2. ToSet(todo) = {Do(op, Arg)} \cup ToSet(Tail(todo))
    BY <1>1, StackSets
  <1>3. ToSet(<<>>) = {}
    BY StackSets
  <1>4. /\ Do("drain", None) \in Cmds /\ Do("error", None) \in Cmds /\ Do("mdelta", None) \in Cmds
        /\ Do("mstop", None) \in Cmds /\ Do("final", None) \in Cmds
    BY DoTypes DEF Ops
  <1>5. ASSUME NEW x \in Cmds, NEW r \in Seq(Cmds) PROVE ToSet(Push(x, r)) = {x} \cup ToSet(r)
    <2>1. PICK p \in Seq(Cmds) : p = <<x>> /\ ToSet(p) = {x}
      <3>1. <<x>> \in Seq(Cmds) /\ ToSet(<<x>>) = {x}
        BY StackSets
      <3> QED
        BY <3>1, Zenon
    <2>2. ToSet(p \o r) = ToSet(p) \cup ToSet(r)
      BY StackSets
    <2> QED
      BY <2>1, <2>2, Zenon DEF Push
  <1>6. ASSUME NEW x \in Cmds PROVE ToSet(Push(x, <<>>)) = {x}
    <2>1. PICK e \in Seq(Cmds) : e = <<>> /\ ToSet(e) = {}
      BY <1>3, Stacks, Zenon
    <2>2. ToSet(Push(x, e)) = {x}
      BY <1>5, <2>1
    <2> QED
      BY <2>1, <2>2, Zenon
  <1>7. ToSet(Drain) = {Do("drain", None)} /\ ToSet(Errors) = {Do("error", None)}
    BY <1>4, <1>6, Zenon DEF Drain, Errors
  <1>8. ToSet(Push(Do("mstop", None), <<>>)) = {Do("mstop", None)}
    BY <1>4, <1>6, Zenon
  <1>9. ToSet(MessageEnd) = {Do("mdelta", None), Do("mstop", None)}
    BY <1>4, <1>5, <1>8, Stacks DEF MessageEnd
  <1>10. ToSet(Final) = {Do("final", None), Do("mdelta", None), Do("mstop", None)}
    BY <1>4, <1>5, <1>9, Stacks DEF Final
  <1> QED
    BY <1>2, <1>3, <1>7, <1>9, <1>10

\* pushDelta hands the delta on, buffers it, or drops it with its block.
LEMMA PushDeltaData == ASSUME Running, DataInv, PushDelta PROVE DataInv'
  <1>1. At("push") /\ UNCHANGED terminus
    BY DEF PushDelta
  <1>2. /\ Arg \in OutIdx /\ Has("push", Arg) /\ Head(todo) = Do("push", Arg)
        /\ Do("push", Arg) \in Cmds /\ blk[Arg] \in Blocks /\ blk[Arg].kind # "none"
        /\ ended = "no" /\ FitsBlock(Arg, Do("push", Arg), Tail(todo))
    BY <1>1, BlockRun
  <1>3. PICK i \in OutIdx, c \in Blocks : i = Arg /\ c = blk[i]
    BY <1>2
  <1>4. Tail(todo) = <<>> /\ ToSet(todo) = {Do("push", i)}
    <2>1. Tail(todo) = <<>>
      BY <1>2, FitsBlockOp
    <2> QED
      BY <1>1, <1>3, <2>1, Below
  <1>5. /\ Do("emit", i) \in Cmds /\ Do("open", i) \in Cmds /\ Do("abort", None) \in Cmds
    BY DoTypes DEF Ops
  <1>6. InHand(i) /\ ~c.stopped /\ ~Has("flush", i)
    BY <1>2, <1>3, <1>4, DoInjective DEF DataInv, Flowing, InHand, Has
  <1>7. /\ ~c.dropped => Flow(c, c.got - 1)
        /\ c.started => c.pending = <<>>
    BY <1>2, <1>3, <1>6 DEF DataInv, Flowing
  <1>8. Keeps(c, c) /\ (c.stopped \/ c.done => Closes(i))
    BY <1>2, <1>3 DEF Keeps, Closes
  <1>9. UNCHANGED blk => blk' = [blk EXCEPT ![i] = c]
    BY <1>3 DEF Running, Typed
  <1>10. CASE c.dropped
    <2>1. Then(<<>>) /\ UNCHANGED blk
      BY <1>3, <1>10 DEF PushDelta
    <2>2. Ran("push", {})
      BY <1>1, <2>1, RunsList
    <2>3. ~InHand(i)'
      BY <1>4, <2>2 DEF Ran, InHand, Has
    <2> QED
      BY <1>1, <1>3, <1>6, <1>7, <1>8, <1>9, <1>10, <2>1, <2>2, <2>3, BlockData
  <1>11. ASSUME NEW R \in SUBSET {Do("open", i), Do("emit", i)}, Do("emit", i) \in R,
                Ran("push", R), UNCHANGED blk
         PROVE  DataInv'
    <2>1. InHand(i)'
      BY <1>11 DEF Ran, Swap, InHand, Has
    <2>2. \A y \in R : y.op \in {"open", "emit"} /\ y.i = i
      BY DoInjective
    <2>3. \A j \in OutIdx \ {i} : Do("push", j) \notin R /\ Do("emit", j) \notin R
      BY DoInjective
    <2>4. \A y \in R : y.op \notin ClosingOps \cup {"mstop"}
      BY <2>2 DEF ClosingOps
    <2>5. \A y \in R : y.i \in OutIdx => blk[y.i].kind # "none"
      BY <1>2, <1>3, <2>2
    <2>6. ~c.dropped => Flow(c, IF InHand(i)' THEN c.got - 1 ELSE c.got)
      BY <1>7, <2>1, Zenon
    <2> QED
      BY <1>1, <1>3, <1>6, <1>7, <1>8, <1>9, <1>11, <2>3, <2>4, <2>5, <2>6, BlockData
  <1>12. CASE ~c.dropped /\ active = i
    <2>1. Then(<<Do("emit", i)>>) /\ UNCHANGED blk
      BY <1>3, <1>6, <1>12, TranslatorAssumption DEF PushDelta
    <2>2. Ran("push", {Do("emit", i)})
      BY <1>1, <1>5, <2>1, RunsList
    <2> QED
      BY <1>11, <2>1, <2>2
  <1>13. CASE ~c.dropped /\ active = None
    <2>1. Then(<<Do("open", i), Do("emit", i)>>) /\ UNCHANGED blk
      BY <1>3, <1>6, <1>13, TranslatorAssumption DEF PushDelta
    <2>2. Ran("push", {Do("open", i), Do("emit", i)})
      BY <1>1, <1>5, <2>1, RunsList
    <2> QED
      BY <1>11, <2>1, <2>2
  <1>14. CASE ~c.dropped /\ active \notin {None, i}
    <2>1. /\ Then(<<Do("abort", None)>>) \/ Then(<<>>)
          /\ blk' = [blk EXCEPT ![i] = [c EXCEPT !.pending = Append(c.pending, c.got)]]
      BY <1>3, <1>6, <1>14 DEF PushDelta
    <2>2. PICK R \in SUBSET {Do("abort", None)} : Ran("push", R)
      BY <1>1, <1>5, <2>1, RunsList
    <2>3. PICK q \in Seq(Nat) : q = Append(c.pending, c.got)
      BY BlockFields, AppendProperties
    <2>4. PICK b : b = [c EXCEPT !.pending = q]
      OBVIOUS
    <2>5. blk' = [blk EXCEPT ![i] = b]
      BY <2>1, <2>3, <2>4
    <2>6. /\ Keeps(b, c) /\ b.closing = c.closing /\ b.pending = q /\ b.sent = c.sent /\ b.got = c.got
          /\ b.stopped = c.stopped /\ b.done = c.done /\ b.dropped = c.dropped /\ b.started = c.started
      BY <1>2, <1>3, <2>4 DEF Blocks, Keeps
    <2>7. ~InHand(i)'
      BY <1>4, <2>2, DoInjective DEF Ran, InHand, Has
    <2>8. ~b.started
      BY <1>3, <1>6, <1>14, <2>6 DEF Running, Wire
    <2>9. Flow(b, b.got)
      <3>1. c.got - 1 \in Int /\ c.got \in Nat /\ (c.got - 1) + 1 = c.got /\ c.sent \in Nat
        BY BlockFields
      <3>2. q = [k \in 1..(c.got - c.sent) |-> c.sent + k]
        BY <1>7, <1>14, <2>3, <3>1, FlowFacts
      <3>3. c.got - 1 >= c.sent
        BY <1>7, <1>14 DEF Flow
      <3> QED
        BY <2>6, <3>1, <3>2, <3>3 DEF Flow
    <2>10. ~b.dropped => Flow(b, IF InHand(i)' THEN b.got - 1 ELSE b.got)
      BY <2>7, <2>9, Zenon
    <2>11. \A y \in R : y.op = "abort" /\ y.i = None
      BY DoInjective
    <2>12. \A j \in OutIdx \ {i} : Do("push", j) \notin R /\ Do("emit", j) \notin R
      BY DoInjective
    <2>13. \A y \in R : y.op \notin ClosingOps \cup {"mstop"}
      BY <2>11 DEF ClosingOps
    <2>14. \A y \in R : y.i \in OutIdx => blk[y.i].kind # "none"
      BY <2>11, TranslatorAssumption
    <2>15. /\ Keeps(b, blk[i]) /\ ~b.stopped /\ (b.stopped \/ b.done => Closes(i))
           /\ b.closing = blk[i].closing
      BY <1>3, <1>6, <1>8, <2>6
    <2>16. /\ UNCHANGED terminus /\ Arg = i /\ "push" \notin {"mstop", "error", "final"}
           /\ b.closing = Closing(blk[i]) \/ (b.closing = blk[i].closing /\ "push" # "close")
           /\ b.stopped => blk[i].stopped \/ Signed(i)
           /\ InHand(i)' => ~b.stopped
           /\ b.started => b.pending = <<>> \/ Has("flush", i)'
      BY <1>1, <1>3, <2>8, <2>15
    <2> QED
      BY <2>2, <2>5, <2>10, <2>12, <2>13, <2>14, <2>15, <2>16, BlockData, Zenon
  <1> QED
    BY <1>14, <1>10, <1>12, <1>13

\* What all functions of a block start from.
LEMMA BlockStart ==
    ASSUME Running, DataInv,
           NEW op \in {"done", "push", "emit", "open", "flush", "stop", "halt", "close"}, At(op)
    PROVE  \E i \in OutIdx, c \in Blocks :
               /\ i = Arg /\ c = blk[i] /\ c.kind # "none" /\ ended = "no"
               /\ Has(op, i) /\ Head(todo) = Do(op, i) /\ Do(op, i) \in Cmds
               /\ FitsBlock(i, Do(op, i), Tail(todo))
               /\ ToSet(todo) = {Do(op, i)} \cup ToSet(Tail(todo))
               /\ Keeps(c, c) /\ (c.stopped \/ c.done => Closes(i))
               /\ ~c.dropped => Flow(c, IF InHand(i) THEN c.got - 1 ELSE c.got)
               /\ InHand(i) => ~c.stopped
               /\ c.started => c.pending = <<>> \/ Has("flush", i)
  <1>1. /\ Arg \in OutIdx /\ Has(op, Arg) /\ Head(todo) = Do(op, Arg)
        /\ Do(op, Arg) \in Cmds /\ blk[Arg] \in Blocks /\ blk[Arg].kind # "none"
        /\ ended = "no" /\ FitsBlock(Arg, Do(op, Arg), Tail(todo))
    BY BlockRun
  <1>2. PICK i \in OutIdx, c \in Blocks : i = Arg /\ c = blk[i]
    BY <1>1
  <1>3. ToSet(todo) = {Do(op, i)} \cup ToSet(Tail(todo))
    BY <1>2, Below
  <1>4. Keeps(c, c) /\ (c.stopped \/ c.done => Closes(i))
    BY <1>1, <1>2 DEF Keeps, Closes
  <1>5. /\ ~c.dropped => Flow(c, IF InHand(i) THEN c.got - 1 ELSE c.got)
        /\ InHand(i) => ~c.stopped
        /\ c.started => c.pending = <<>> \/ Has("flush", i)
    BY <1>1, <1>2 DEF DataInv, Flowing
  <1> QED
    BY <1>1, <1>2, <1>3, <1>4, <1>5, Zenon

\* emitDelta sends the delta in hand.
LEMMA EmitDeltaData == ASSUME Running, DataInv, EmitDelta PROVE DataInv'
  <1>1. At("emit") /\ UNCHANGED terminus /\ Then(<<>>)
    BY DEF EmitDelta
  <1>2. PICK i \in OutIdx, c \in Blocks :
           /\ i = Arg /\ c = blk[i] /\ c.kind # "none" /\ Has("emit", i)
           /\ FitsBlock(i, Do("emit", i), Tail(todo))
           /\ ToSet(todo) = {Do("emit", i)} \cup ToSet(Tail(todo))
           /\ Keeps(c, c) /\ (c.stopped \/ c.done => Closes(i))
           /\ ~c.dropped => Flow(c, IF InHand(i) THEN c.got - 1 ELSE c.got)
           /\ InHand(i) => ~c.stopped
           /\ c.started => c.pending = <<>> \/ Has("flush", i)
    BY <1>1, BlockStart
  <1>3. Tail(todo) = <<>> /\ active = i
    BY <1>2, FitsBlockOp
  <1>4. ToSet(todo) = {Do("emit", i)}
    BY <1>1, <1>2, <1>3, Below
  <1>5. Ran("emit", {})
    BY <1>1, RunsList
  <1>6. InHand(i) /\ ~c.stopped /\ ~Has("flush", i) /\ ~InHand(i)'
    BY <1>2, <1>3, <1>4, <1>5, DoInjective DEF InHand, Has, Ran
  <1>7. c.started
    BY <1>2, <1>3, TranslatorAssumption DEF Running, Wire
  <1>8. c.pending = <<>> /\ c.got \in Nat
    BY <1>2, <1>6, <1>7, BlockFields
  <1>9. PICK b : b = [c EXCEPT !.sent = c.got]
    OBVIOUS
  <1>10. blk' = [blk EXCEPT ![i] = b]
    BY <1>2, <1>9 DEF EmitDelta
  <1>11. /\ Keeps(b, c) /\ b.closing = c.closing /\ b.pending = c.pending /\ b.sent = c.got
         /\ b.got = c.got /\ b.stopped = c.stopped /\ b.done = c.done
    BY <1>2, <1>9 DEF Blocks, Keeps
  <1>12. Flow(b, b.got)
    BY <1>8, <1>11, FlowEmpty
  <1>13. ~b.dropped => Flow(b, IF InHand(i)' THEN b.got - 1 ELSE b.got)
    BY <1>6, <1>12, Zenon
  <1>14. /\ Arg = i /\ "emit" \notin {"mstop", "error", "final"} /\ Keeps(b, blk[i])
         /\ b.stopped \/ b.done => Closes(i)
         /\ b.closing = Closing(blk[i]) \/ (b.closing = blk[i].closing /\ "emit" # "close")
         /\ b.stopped => blk[i].stopped \/ Signed(i)
         /\ InHand(i)' => ~b.stopped
         /\ b.started => b.pending = <<>> \/ Has("flush", i)'
    BY <1>2, <1>6, <1>8, <1>11
  <1>15. PICK R : R = {}
    OBVIOUS
  <1>16. /\ Ran("emit", R)
         /\ \A y \in R : y.i \in OutIdx => blk[y.i].kind # "none"
         /\ \A y \in R : y.op \notin ClosingOps \cup {"mstop"}
         /\ \A j \in OutIdx \ {i} : Do("push", j) \notin R /\ Do("emit", j) \notin R
    BY <1>5, <1>15
  <1> QED
    BY <1>1, <1>10, <1>13, <1>14, <1>16, BlockData, Zenon

\* markDoneOrClose is only called when the item is complete.
LEMMA MarkDoneOrCloseData == ASSUME Running, DataInv, MarkDoneOrClose PROVE DataInv'
  <1>1. At("done") /\ UNCHANGED terminus
    BY DEF MarkDoneOrClose
  <1>2. PICK i \in OutIdx, c \in Blocks :
           /\ i = Arg /\ c = blk[i] /\ c.kind # "none" /\ Has("done", i)
           /\ FitsBlock(i, Do("done", i), Tail(todo))
           /\ ToSet(todo) = {Do("done", i)} \cup ToSet(Tail(todo))
           /\ Keeps(c, c) /\ (c.stopped \/ c.done => Closes(i))
           /\ ~c.dropped => Flow(c, IF InHand(i) THEN c.got - 1 ELSE c.got)
           /\ InHand(i) => ~c.stopped
           /\ c.started => c.pending = <<>> \/ Has("flush", i)
    BY <1>1, BlockStart
  <1>3. Do("stop", i) \in Cmds /\ Do("drain", None) \in Cmds
    BY DoTypes DEF Ops
  <1>4. Closes(i)
    BY <1>2 DEF Closes, ClosingOps
  <1>5. ASSUME NEW R \in SUBSET {Do("stop", i), Do("drain", None)}, Ran("done", R), UNCHANGED blk
        PROVE  DataInv'
    <2>1. \A y \in R : y.i \in OutIdx => blk[y.i].kind # "none"
      BY <1>2, DoInjective, TranslatorAssumption
    <2>2. \A j \in OutIdx : \A o \in ClosingOps : Do(o, j) \in R => Closes(j) \/ Doomed'
      BY <1>4, DoInjective DEF ClosingOps
    <2>3. \A j : Do("halt", j) \notin R /\ Do("push", j) \notin R /\ Do("emit", j) \notin R
                 /\ Do("mstop", j) \notin R
      BY DoInjective
    <2> QED
      BY <1>1, <1>5, <2>1, <2>2, <2>3, QuietData
  <1>6. CASE c.stopped \/ c.dropped
    <2>1. Then(<<>>) /\ UNCHANGED blk
      BY <1>2, <1>6 DEF MarkDoneOrClose
    <2>2. Ran("done", {})
      BY <1>1, <2>1, RunsList
    <2> QED
      BY <1>5, <2>1, <2>2
  <1>7. CASE ~(c.stopped \/ c.dropped) /\ active = i
    <2>1. Then(<<Do("stop", i), Do("drain", None)>>) /\ UNCHANGED blk
      BY <1>2, <1>7 DEF MarkDoneOrClose
    <2>2. Ran("done", {Do("stop", i), Do("drain", None)})
      BY <1>1, <1>3, <2>1, RunsList
    <2> QED
      BY <1>5, <2>1, <2>2
  <1>8. CASE ~(c.stopped \/ c.dropped) /\ active # i
    <2>1. /\ Then(<<Do("drain", None)>>) \/ Then(<<>>)
          /\ blk' = [blk EXCEPT ![i] = [c EXCEPT !.done = TRUE]]
      BY <1>2, <1>8 DEF MarkDoneOrClose
    <2>2. PICK R \in SUBSET {Do("drain", None)} : Ran("done", R)
      BY <1>1, <1>3, <2>1, RunsList
    <2>3. PICK b : b = [c EXCEPT !.done = TRUE]
      OBVIOUS
    <2>4. blk' = [blk EXCEPT ![i] = b]
      BY <2>1, <2>3
    <2>5. /\ Keeps(b, c) /\ b.closing = c.closing /\ b.pending = c.pending /\ b.sent = c.sent
          /\ b.got = c.got /\ b.stopped = c.stopped /\ b.started = c.started /\ b.dropped = c.dropped
      BY <1>2, <2>3 DEF Blocks, Keeps
    <2>6. \A y \in R : y = Do("drain", None)
      OBVIOUS
    <2>7. /\ InHand(i)' <=> InHand(i)
          /\ Has("flush", i) => Has("flush", i)'
      BY <1>2, <2>2, <2>6, DoInjective DEF InHand, Has, Ran, Swap
    <2>8. Flow(c, IF InHand(i) THEN c.got - 1 ELSE c.got) =>
             Flow(b, IF InHand(i) THEN b.got - 1 ELSE b.got)
      BY <2>5 DEF Flow
    <2>9. ~b.dropped => Flow(b, IF InHand(i)' THEN b.got - 1 ELSE b.got)
      BY <1>2, <2>5, <2>7, <2>8, Zenon
    <2>10. \A j \in OutIdx \ {i} : Do("push", j) \notin R /\ Do("emit", j) \notin R
      BY DoInjective
    <2>11. \A y \in R : y.op \notin ClosingOps \cup {"mstop"}
      BY <2>6, DoInjective DEF ClosingOps
    <2>12. \A y \in R : y.i \in OutIdx => blk[y.i].kind # "none"
      BY <2>6, DoInjective, TranslatorAssumption
    <2>13. /\ Arg = i /\ "done" \notin {"mstop", "error", "final"} /\ Keeps(b, blk[i])
           /\ b.stopped \/ b.done => Closes(i)
           /\ b.closing = Closing(blk[i]) \/ (b.closing = blk[i].closing /\ "done" # "close")
           /\ b.stopped => blk[i].stopped \/ Signed(i)
      BY <1>2, <1>4, <2>5
    <2>14. /\ InHand(i)' => ~b.stopped
           /\ b.started => b.pending = <<>> \/ Has("flush", i)'
      BY <1>2, <2>5, <2>7, Zenon
    <2> QED
      BY <1>1, <2>2, <2>4, <2>9, <2>10, <2>11, <2>12, <2>13, <2>14, BlockData, Zenon
  <1> QED
    BY <1>6, <1>7, <1>8

\* stopBlock opens a block that is not, gives it its closing delta and stops it.
LEMMA StopBlockData == ASSUME Running, DataInv, StopBlock PROVE DataInv'
  <1>1. At("stop") /\ UNCHANGED <<terminus, blk>>
    BY DEF StopBlock
  <1>2. PICK i \in OutIdx, c \in Blocks :
           /\ i = Arg /\ c = blk[i] /\ c.kind # "none" /\ Has("stop", i)
           /\ Head(todo) = Do("stop", i) /\ Do("stop", i) \in Cmds
    BY <1>1, BlockStart
  <1>3. Do("open", i) \in Cmds /\ Do("close", i) \in Cmds /\ Do("halt", i) \in Cmds
    BY DoTypes DEF Ops
  <1>4. Closes(i)
    BY <1>2 DEF Closes, ClosingOps
  <1>5. ASSUME NEW R \in SUBSET {Do("open", i), Do("stop", i), Do("close", i), Do("halt", i)},
               Ran("stop", R),
               Do("halt", i) \in R => Do("close", i) \in R \/ Closing(c) = "no"
        PROVE  DataInv'
    <2>1. \A y \in R : y.i = i
      BY DoInjective
    <2>2. \A y \in R : y.i \in OutIdx => blk[y.i].kind # "none"
      BY <1>2, <2>1
    <2>3. \A o, j : Do(o, j) \in R => j = i
      BY <2>1, DoInjective
    <2>4. \A j \in OutIdx : \A o \in ClosingOps : Do(o, j) \in R => Closes(j) \/ Doomed'
      BY <1>4, <2>3
    <2>5. \A j \in OutIdx : Do("halt", j) \in R =>
             Do("close", j) \in R \/ Closing(blk[j]) = "no" \/ (blk[j].kind = "tool" /\ Erring')
      BY <1>2, <1>5, <2>3
    <2>6. \A j : Do("push", j) \notin R /\ Do("emit", j) \notin R /\ Do("mstop", j) \notin R
      BY DoInjective
    <2> QED
      BY <1>1, <1>5, <2>2, <2>4, <2>5, <2>6, QuietData
  <1>6. CASE c.stopped \/ c.dropped
    <2>1. Then(<<>>)
      BY <1>2, <1>6 DEF StopBlock
    <2>2. Ran("stop", {})
      BY <1>1, <2>1, RunsList
    <2> QED
      BY <1>5, <2>2
  <1>7. CASE ~(c.stopped \/ c.dropped) /\ ~c.started
    <2>1. Then(<<Do("open", i), Do("stop", i)>>)
      BY <1>2, <1>7 DEF StopBlock
    <2>2. Ran("stop", {Do("open", i), Do("stop", i)})
      BY <1>1, <1>2, <1>3, <2>1, RunsList
    <2>3. Do("halt", i) \notin {Do("open", i), Do("stop", i)}
      BY DoInjective
    <2> QED
      BY <1>5, <2>2, <2>3
  <1>8. CASE ~(c.stopped \/ c.dropped) /\ c.started /\ Closing(c) = "no"
    <2>1. Then(<<Do("halt", i)>>)
      BY <1>2, <1>8 DEF StopBlock, Halt
    <2>2. Ran("stop", {Do("halt", i)})
      BY <1>1, <1>3, <2>1, RunsList
    <2> QED
      BY <1>5, <1>8, <2>2
  <1>9. CASE ~(c.stopped \/ c.dropped) /\ c.started /\ Closing(c) # "no"
    <2>1. Then(<<Do("close", i), Do("halt", i)>>)
      BY <1>2, <1>9 DEF StopBlock, Halt, CloseDelta
    <2>2. Ran("stop", {Do("close", i), Do("halt", i)})
      BY <1>1, <1>3, <2>1, RunsList
    <2> QED
      BY <1>5, <2>2
  <1> QED
    BY <1>6, <1>7, <1>8, <1>9

\* The closing delta is the one the block needs.
LEMMA SayClosingData == ASSUME Running, DataInv, SayClosing PROVE DataInv'
  <1>1. At("close") /\ UNCHANGED terminus /\ Then(<<>>)
    BY DEF SayClosing
  <1>2. PICK i \in OutIdx, c \in Blocks :
           /\ i = Arg /\ c = blk[i] /\ c.kind # "none" /\ Has("close", i)
           /\ Keeps(c, c) /\ (c.stopped \/ c.done => Closes(i))
           /\ ~c.dropped => Flow(c, IF InHand(i) THEN c.got - 1 ELSE c.got)
           /\ InHand(i) => ~c.stopped
           /\ c.started => c.pending = <<>> \/ Has("flush", i)
    BY <1>1, BlockStart
  <1>3. PICK R : R = {}
    OBVIOUS
  <1>4. Ran("close", R)
    BY <1>1, <1>3, RunsList
  <1>5. PICK k : k = Closing(c)
    OBVIOUS
  <1>6. PICK b : b = [c EXCEPT !.closing = k]
    OBVIOUS
  <1>7. blk' = [blk EXCEPT ![i] = b]
    BY <1>2, <1>5, <1>6 DEF SayClosing
  <1>8. /\ Keeps(b, c) /\ b.closing = k /\ b.pending = c.pending /\ b.sent = c.sent
        /\ b.got = c.got /\ b.stopped = c.stopped /\ b.done = c.done /\ b.started = c.started
        /\ b.dropped = c.dropped
    BY <1>2, <1>6 DEF Blocks, Keeps
  <1>9. /\ InHand(i)' <=> InHand(i)
        /\ Has("flush", i) => Has("flush", i)'
    BY <1>2, <1>3, <1>4, DoInjective DEF InHand, Has, Ran, Swap
  <1>10. Flow(c, IF InHand(i) THEN c.got - 1 ELSE c.got) =>
            Flow(b, IF InHand(i) THEN b.got - 1 ELSE b.got)
    BY <1>8 DEF Flow
  <1>11. ~b.dropped => Flow(b, IF InHand(i)' THEN b.got - 1 ELSE b.got)
    BY <1>2, <1>8, <1>9, <1>10, Zenon
  <1>12. /\ Arg = i /\ "close" \notin {"mstop", "error", "final"} /\ Keeps(b, blk[i])
         /\ b.stopped \/ b.done => Closes(i)
         /\ b.closing = Closing(blk[i]) \/ (b.closing = blk[i].closing /\ "close" # "close")
         /\ b.stopped => blk[i].stopped \/ Signed(i)
    BY <1>2, <1>5, <1>8
  <1>13. /\ InHand(i)' => ~b.stopped
         /\ b.started => b.pending = <<>> \/ Has("flush", i)'
    BY <1>2, <1>8, <1>9, Zenon
  <1>14. /\ \A y \in R : y.i \in OutIdx => blk[y.i].kind # "none"
         /\ \A y \in R : y.op \notin ClosingOps \cup {"mstop"}
         /\ \A j \in OutIdx \ {i} : Do("push", j) \notin R /\ Do("emit", j) \notin R
    BY <1>3
  <1> QED
    BY <1>1, <1>4, <1>7, <1>11, <1>12, <1>13, <1>14, BlockData, Zenon

\* A block is only stopped after the delta it needs.
LEMMA SayBlockStopData == ASSUME Running, DataInv, SayBlockStop PROVE DataInv'
  <1>1. At("halt") /\ UNCHANGED terminus /\ Then(<<>>)
    BY DEF SayBlockStop
  <1>2. PICK i \in OutIdx, c \in Blocks :
           /\ i = Arg /\ c = blk[i] /\ c.kind # "none" /\ Has("halt", i)
           /\ FitsBlock(i, Do("halt", i), Tail(todo))
           /\ ToSet(todo) = {Do("halt", i)} \cup ToSet(Tail(todo))
           /\ Keeps(c, c)
           /\ ~c.dropped => Flow(c, IF InHand(i) THEN c.got - 1 ELSE c.got)
           /\ c.started => c.pending = <<>> \/ Has("flush", i)
    BY <1>1, BlockStart
  <1>3. active = i /\ Tail(todo) \in {Drain, Final, Errors}
    BY <1>2, FitsBlockOp
  <1>4. \A y \in ToSet(Tail(todo)) : y.i = None
    <2>1. /\ ToSet(Drain) = {Do("drain", None)} /\ ToSet(Errors) = {Do("error", None)}
          /\ ToSet(Final) = {Do("final", None), Do("mdelta", None), Do("mstop", None)}
      BY <1>1, Below
    <2>2. \A t \in {Drain, Final, Errors} : \A y \in ToSet(t) : y.i = None
      BY <2>1, DoInjective
    <2> QED
      BY <1>3, <2>2
  <1>5. ~InHand(i) /\ ~Has("close", i) /\ ~Has("flush", i)
    BY <1>2, <1>4, DoInjective, TranslatorAssumption DEF InHand, Has
  <1>6. c.started /\ Signed(i) /\ Closes(i)
    <2>1. c.started
      BY <1>2, <1>3, TranslatorAssumption DEF Running, Wire
    <2>2. Signed(i)
      BY <1>2, <1>5 DEF DataInv, Signing
    <2> QED
      BY <1>2, <2>1, <2>2 DEF Closes, ClosingOps
  <1>7. PICK R : R = {}
    OBVIOUS
  <1>8. Ran("halt", R)
    BY <1>1, <1>7, RunsList
  <1>9. PICK b : b = [c EXCEPT !.stopped = TRUE]
    OBVIOUS
  <1>10. blk' = [blk EXCEPT ![i] = b]
    BY <1>2, <1>9 DEF SayBlockStop
  <1>11. /\ Keeps(b, c) /\ b.closing = c.closing /\ b.pending = c.pending /\ b.sent = c.sent
         /\ b.got = c.got /\ b.started = c.started /\ b.dropped = c.dropped
    BY <1>2, <1>6, <1>9 DEF Blocks, Keeps
  <1>12. ~InHand(i)'
    BY <1>5, <1>7, <1>8, DoInjective DEF InHand, Has, Ran, Swap
  <1>13. Flow(c, c.got) => Flow(b, b.got)
    BY <1>11 DEF Flow
  <1>14. ~b.dropped => Flow(b, IF InHand(i)' THEN b.got - 1 ELSE b.got)
    BY <1>2, <1>5, <1>11, <1>12, <1>13, Zenon
  <1>15. /\ Arg = i /\ "halt" \notin {"mstop", "error", "final"} /\ Keeps(b, blk[i])
         /\ b.stopped \/ b.done => Closes(i)
         /\ b.closing = Closing(blk[i]) \/ (b.closing = blk[i].closing /\ "halt" # "close")
         /\ b.stopped => blk[i].stopped \/ Signed(i)
         /\ InHand(i)' => ~b.stopped
    BY <1>2, <1>6, <1>11, <1>12
  <1>16. b.started => b.pending = <<>> \/ Has("flush", i)'
    BY <1>2, <1>5, <1>6, <1>11
  <1>17. /\ \A y \in R : y.i \in OutIdx => blk[y.i].kind # "none"
         /\ \A y \in R : y.op \notin ClosingOps \cup {"mstop"}
         /\ \A j \in OutIdx \ {i} : Do("push", j) \notin R /\ Do("emit", j) \notin R
    BY <1>7
  <1> QED
    BY <1>1, <1>8, <1>10, <1>14, <1>15, <1>16, <1>17, BlockData, Zenon

\* A function that is about no block.
LEMMA AloneRun ==
    ASSUME Running, NEW op \in {"drain", "final", "clean", "abort", "mstop", "error"}, At(op)
    PROVE  /\ Head(todo) = Do(op, None) /\ Do(op, None) \in Cmds /\ Arg = None
           /\ op # "final" => Tail(todo) = <<>> /\ ToSet(todo) = {Do(op, None)}
           /\ op = "final" => Do("mstop", None) \in ToSet(todo)
  <1>1. Head(todo) = Do(op, Arg) /\ Fits(Do(op, Arg), Tail(todo)) /\ Head(todo) \in Cmds
    BY Top
  <1>2. PICK a, r : a = Arg /\ r = Tail(todo)
    OBVIOUS
  <1>3. Fits(Do(op, a), r)
    BY <1>1, <1>2
  <1>4. a = None
    BY <1>3 DEF Fits, FitsBlock, Do, Start
  <1>5. op # "final" => Tail(todo) = <<>>
    BY AloneTop
  <1>6. op = "final" => Tail(todo) = MessageEnd
    BY AloneTop
  <1>7. op = "final" => Do("mstop", None) \in ToSet(todo)
    BY <1>6, Below
  <1>8. Tail(todo) = <<>> => ToSet(todo) = {Do(op, Arg)}
    BY Below
  <1> QED
    BY <1>1, <1>2, <1>4, <1>5, <1>7, <1>8

\* drainPromote only stops a block that is marked done.
LEMMA DrainNextData == ASSUME Running, DataInv, DrainNext PROVE DataInv'
  <1>1. At("drain") /\ UNCHANGED <<terminus, blk>>
    BY DEF DrainNext
  <1>2. Head(todo) = Do("drain", None) /\ Do("drain", None) \in Cmds
    BY <1>1, AloneRun
  <1>3. PICK i \in OutIdx \cup {None} : i = FirstBuffering
    BY FirstBufferingType DEF Running, Typed
  <1>4. i # None => i \in OutIdx /\ blk[i].kind # "none"
    BY <1>3, FirstBufferingFacts DEF Running, DataInv, Buffering
  <1>5. /\ Do("open", i) \in Cmds /\ Do("stop", i) \in Cmds
    BY DoTypes DEF Ops
  <1>6. ASSUME i # None,
               NEW R \in SUBSET {Do("open", i), Do("stop", i), Do("drain", None)}, Ran("drain", R),
               Do("stop", i) \in R => blk[i].done
        PROVE  DataInv'
    <2>1. \A y \in R : y.i \in OutIdx => y.i = i
      BY DoInjective, TranslatorAssumption
    <2>2. \A y \in R : y.i \in OutIdx => blk[y.i].kind # "none"
      BY <1>4, <1>6, <2>1
    <2>3. \A j \in OutIdx : \A o \in ClosingOps : Do(o, j) \in R => Closes(j) \/ Doomed'
      BY <1>6, DoInjective DEF Closes, ClosingOps
    <2>4. \A j : Do("push", j) \notin R /\ Do("emit", j) \notin R /\ Do("mstop", j) \notin R
                 /\ Do("halt", j) \notin R
      BY DoInjective
    <2> QED
      BY <1>1, <1>6, <2>2, <2>3, <2>4, QuietData
  <1>7. CASE active # None \/ i = None
    <2>1. Then(<<>>)
      BY <1>3, <1>7 DEF DrainNext
    <2>2. Ran("drain", {})
      BY <1>1, <2>1, RunsList
    <2> QED
      BY <1>1, <2>2, QuietData
  <1>8. CASE active = None /\ i # None /\ ~blk[i].done
    <2>1. Then(<<Do("open", i)>> \o <<>>)
      BY <1>3, <1>8 DEF DrainNext
    <2>2. <<Do("open", i)>> \o <<>> = <<Do("open", i)>>
      BY <1>5, ThenFacts, Stacks
    <2>3. Then(<<Do("open", i)>>)
      BY <2>1, <2>2, Zenon
    <2>4. Ran("drain", {Do("open", i)})
      BY <1>1, <1>5, <2>3, RunsList
    <2>5. Do("stop", i) \notin {Do("open", i)}
      BY DoInjective
    <2> QED
      BY <1>6, <1>8, <2>4, <2>5
  <1>9. CASE active = None /\ i # None /\ blk[i].done
    <2>1. Then(<<Do("open", i)>> \o <<Do("stop", i), Do("drain", None)>>)
      BY <1>2, <1>3, <1>9 DEF DrainNext
    <2>2. <<Do("open", i)>> \o <<Do("stop", i), Do("drain", None)>>
             = <<Do("open", i), Do("stop", i), Do("drain", None)>>
      BY <1>2, <1>5, Threes
    <2>3. Then(<<Do("open", i), Do("stop", i), Do("drain", None)>>)
      BY <2>1, <2>2, Zenon
    <2>4. Ran("drain", {Do("open", i), Do("stop", i), Do("drain", None)})
      BY <1>1, <1>2, <1>5, <2>3, RunsList
    <2> QED
      BY <1>6, <1>9, <2>4
  <1> QED
    BY <1>7, <1>8, <1>9

\* finalizeAllBlocks is through when no block is open and none waits.
LEMMA FinalizeAllBlocksData == ASSUME Running, DataInv, FinalizeAllBlocks PROVE DataInv'
  <1>1. At("final") /\ UNCHANGED <<terminus, blk>>
    BY DEF FinalizeAllBlocks
  <1>2. Head(todo) = Do("final", None) /\ Do("final", None) \in Cmds /\ Do("mstop", None) \in ToSet(todo)
    BY <1>1, AloneRun
  <1>3. PICK i \in OutIdx \cup {None} : i = IF active # None THEN active ELSE FirstBuffering
    BY FirstBufferingType DEF Running, Typed
  <1>4. i # None => i \in OutIdx /\ blk[i].kind # "none"
    <2>1. CASE active # None
      BY <1>3, <2>1 DEF Running, Wire, Typed
    <2>2. CASE active = None
      BY <1>3, <2>2, FirstBufferingFacts DEF Running, DataInv, Buffering
    <2> QED
      BY <2>1, <2>2
  <1>5. CASE i = None
    <2>1. Then(<<>>)
      BY <1>3, <1>5 DEF FinalizeAllBlocks
    <2>2. Ran("final", {})
      BY <1>1, <2>1, RunsList
    <2>3. \A j \in OutIdx : ~Buffering(blk[j])
      BY <1>3, <1>5, FirstBufferingFacts DEF Running, DataInv
    <2> QED
      BY <1>1, <2>2, <2>3, QuietData
  <1>6. CASE i # None
    <2>1. Then(<<Do("stop", i), Do("final", None)>>)
      BY <1>2, <1>3, <1>6 DEF FinalizeAllBlocks
    <2>2. Do("stop", i) \in Cmds
      BY DoTypes DEF Ops
    <2>3. Ran("final", {Do("stop", i), Do("final", None)})
      BY <1>1, <1>2, <2>1, <2>2, RunsList
    <2>4. Doomed'
      BY <1>2, <2>3, DoInjective DEF Doomed, Has, Ran, Swap
    <2>5. PICK R : R = {Do("stop", i), Do("final", None)}
      OBVIOUS
    <2>6. \A y \in R : y.i \in OutIdx => blk[y.i].kind # "none"
      BY <1>4, <1>6, <2>5, DoInjective, TranslatorAssumption
    <2>7. \A j : Do("push", j) \notin R /\ Do("emit", j) \notin R /\ Do("mstop", j) \notin R
                 /\ Do("halt", j) \notin R
      BY <2>5, DoInjective
    <2>8. Ran("final", R) /\ Do("final", None) \in R
      BY <2>3, <2>5
    <2> QED
      BY <1>1, <2>4, <2>6, <2>7, <2>8, QuietData
  <1> QED
    BY <1>5, <1>6

\* finalizeClean ends the message only when no tool call is cut off.
LEMMA FinalizeCleanData == ASSUME Running, DataInv, FinalizeClean PROVE DataInv'
  <1>1. At("clean") /\ UNCHANGED <<terminus, blk>>
    BY DEF FinalizeClean
  <1>2. /\ Do("abort", None) \in Cmds /\ Do("final", None) \in Cmds /\ Do("mdelta", None) \in Cmds
        /\ Do("mstop", None) \in Cmds
    BY DoTypes DEF Ops
  <1>3. ASSUME NEW R \in SUBSET {Do("abort", None), Do("final", None), Do("mdelta", None), Do("mstop", None)},
               Ran("clean", R),
               Do("mstop", None) \in R =>
                  Do("final", None) \in R /\ \A j \in OutIdx : ~PartialTool(blk[j])
        PROVE  DataInv'
    <2>1. \A y \in R : y.i = None
      BY DoInjective
    <2>2. \A o : \A j \in OutIdx : Do(o, j) \notin R
      BY <2>1, DoInjective, TranslatorAssumption
    <2>3. \A y \in R : y.i \in OutIdx => blk[y.i].kind # "none"
      BY <2>1, TranslatorAssumption
    <2> QED
      BY <1>1, <1>3, <2>2, <2>3, QuietData
  <1>4. CASE \E j \in OutIdx : PartialTool(blk[j])
    <2>1. Then(<<Do("abort", None)>>)
      BY <1>4 DEF FinalizeClean
    <2>2. Ran("clean", {Do("abort", None)})
      BY <1>1, <1>2, <2>1, RunsList
    <2>3. Do("mstop", None) \notin {Do("abort", None)}
      BY DoInjective
    <2> QED
      BY <1>3, <2>2, <2>3
  <1>5. CASE ~ \E j \in OutIdx : PartialTool(blk[j])
    <2>1. Then(<<Do("final", None), Do("mdelta", None), Do("mstop", None)>>)
      BY <1>5 DEF FinalizeClean
    <2>2. Ran("clean", {Do("final", None), Do("mdelta", None), Do("mstop", None)})
      BY <1>1, <1>2, <2>1, RunsList
    <2> QED
      BY <1>3, <1>5, <2>2
  <1> QED
    BY <1>4, <1>5

\* emitMidStreamError signs a thinking block, and gives a tool call nothing.
LEMMA EmitMidStreamErrorData == ASSUME Running, DataInv, EmitMidStreamError PROVE DataInv'
  <1>1. At("abort") /\ UNCHANGED <<terminus, blk>>
    BY DEF EmitMidStreamError
  <1>2. PICK i \in OutIdx \cup {None} : i = active
    BY DEF Running, Typed
  <1>3. i # None => i \in OutIdx /\ blk[i].kind \in Kinds
    BY <1>2 DEF Running, Wire, Typed, Blocks
  <1>4. Do("error", None) \in Cmds /\ Do("close", i) \in Cmds /\ Do("halt", i) \in Cmds
    BY DoTypes DEF Ops
  <1>5. ASSUME NEW R \in SUBSET {Do("close", i), Do("halt", i), Do("error", None)}, Ran("abort", R),
               Do("error", None) \in R, R # {Do("error", None)} => i # None,
               Do("halt", i) \in R => Do("close", i) \in R \/ blk[i].kind # "thinking"
        PROVE  DataInv'
    <2>1. Doomed' /\ Erring'
      BY <1>5 DEF Doomed, Erring, Has, Ran, Swap
    <2>2. \A y \in R : y.i \in OutIdx => blk[y.i].kind # "none"
      BY <1>3, DoInjective, TranslatorAssumption DEF Kinds
    <2>3. \A o : \A j \in OutIdx : Do(o, j) \in R => j = i
      BY DoInjective, TranslatorAssumption
    <2>4. \A j \in OutIdx : Do("halt", j) \in R =>
             Do("close", j) \in R \/ Closing(blk[j]) = "no" \/ (blk[j].kind = "tool" /\ Erring')
      <3>1. ASSUME i \in OutIdx, Do("halt", i) \in R
            PROVE  Do("close", i) \in R \/ Closing(blk[i]) = "no" \/ (blk[i].kind = "tool" /\ Erring')
        <4>1. blk[i].kind \in {"text", "thinking", "tool"}
          BY <1>3, <3>1, TranslatorAssumption DEF Kinds
        <4>2. CASE blk[i].kind = "text"
          BY <4>2 DEF Closing
        <4>3. CASE blk[i].kind = "thinking"
          BY <1>5, <3>1, <4>3
        <4>4. CASE blk[i].kind = "tool"
          BY <2>1, <4>4
        <4> QED
          BY <4>1, <4>2, <4>3, <4>4
      <3> QED
        BY <2>3, <3>1
    <2>5. \A j : Do("push", j) \notin R /\ Do("emit", j) \notin R /\ Do("mstop", j) \notin R
      BY DoInjective
    <2> QED
      BY <1>1, <1>5, <2>1, <2>2, <2>4, <2>5, QuietData
  <1>6. CASE i = None
    <2>1. Then(<<>> \o <<Do("error", None)>>)
      BY <1>2, <1>6 DEF EmitMidStreamError
    <2>2. <<>> \o <<Do("error", None)>> = <<Do("error", None)>>
      BY <1>4, ThenFacts, Stacks
    <2>3. Then(<<Do("error", None)>>)
      BY <2>1, <2>2, Zenon
    <2>4. Ran("abort", {Do("error", None)})
      BY <1>1, <1>4, <2>3, RunsList
    <2>5. Do("halt", i) \notin {Do("error", None)}
      BY DoInjective
    <2> QED
      BY <1>5, <2>4, <2>5
  <1>7. CASE i # None /\ blk[i].kind = "thinking"
    <2>1. Then(<<Do("close", i), Do("halt", i)>> \o <<Do("error", None)>>)
      BY <1>2, <1>7 DEF EmitMidStreamError, Halt, CloseDelta
    <2>2. <<Do("close", i), Do("halt", i)>> \o <<Do("error", None)>>
             = <<Do("close", i), Do("halt", i), Do("error", None)>>
      BY <1>4, Threes
    <2>3. Then(<<Do("close", i), Do("halt", i), Do("error", None)>>)
      BY <2>1, <2>2, Zenon
    <2>4. Ran("abort", {Do("close", i), Do("halt", i), Do("error", None)})
      BY <1>1, <1>4, <2>3, RunsList
    <2> QED
      BY <1>5, <1>7, <2>4
  <1>8. CASE i # None /\ blk[i].kind # "thinking"
    <2>1. Then(<<Do("halt", i)>> \o <<Do("error", None)>>)
      BY <1>2, <1>8 DEF EmitMidStreamError, Halt
    <2>2. <<Do("halt", i)>> \o <<Do("error", None)>> = <<Do("halt", i), Do("error", None)>>
      BY <1>4, ThenFacts, Stacks
    <2>3. Then(<<Do("halt", i), Do("error", None)>>)
      BY <2>1, <2>2, Zenon
    <2>4. Ran("abort", {Do("halt", i), Do("error", None)})
      BY <1>1, <1>4, <2>3, RunsList
    <2> QED
      BY <1>5, <1>8, <2>4
  <1> QED
    BY <1>6, <1>7, <1>8

-----------------------------------------------------------------------------
(* The end *)

\* A last step: nothing is left to do, and no frame will be handled.
LEMMA LastData ==
    ASSUME Running, DataInv, ended = "no", UNCHANGED <<blk, order, up>>, ToSet(todo') = {},
           frame' \in {frame, NoFrame}, terminus' # "none" \/ ended' # "no", Erring => Erring',
           \A j \in OutIdx : ended' # "no" \/ (~InHand(j) /\ ~Has("flush", j)),
           terminus' = "clean" => AllSent' /\ \A j \in OutIdx : ~PartialTool(blk[j])
    PROVE  DataInv'
  <1>1. \A op, i : ~Has(op, i)'
    BY DEF Has
  <1>2. KindKept' /\ Known'
    BY DEF DataInv, KindKept, Known
  <1>3. FrameInOrder'
    BY DEF DataInv, FrameInOrder, NoFrame, ItemTypes
  <1>4. Doomed'
    BY DEF Doomed
  <1>5. Sealing'
    BY <1>4 DEF Sealing
  <1>6. Signing'
    BY <1>1 DEF DataInv, Signing, Signed
  <1>7. Whole' /\ Told'
    BY <1>1 DEF Whole, Told
  <1>8. \A j \in OutIdx : ~InHand(j)'
    BY <1>1 DEF InHand
  <1>9. Flowing'
    <2>1. ASSUME NEW j \in OutIdx, ~blk[j].dropped
          PROVE  Flow(blk[j], IF InHand(j) THEN blk[j].got - 1 ELSE blk[j].got)
      BY <2>1 DEF DataInv, Flowing
    <2>2. ASSUME NEW j \in OutIdx, ~blk[j].dropped, ~InHand(j)
          PROVE  Flow(blk[j], blk[j].got)
      BY <2>1, <2>2, Zenon
    <2>3. ASSUME NEW j \in OutIdx, ~blk[j].dropped
          PROVE  \E n \in {blk[j].got - 1, blk[j].got} : Flow(blk[j], n)
      BY <2>1, <2>3, Zenon
    <2>4. ASSUME NEW j \in OutIdx, ended' = "no"
          PROVE  /\ ~blk'[j].dropped => Flow(blk'[j], IF InHand(j)' THEN blk'[j].got - 1 ELSE blk'[j].got)
                 /\ blk'[j].started => blk'[j].pending = <<>>
      <3>1. ~InHand(j) /\ ~Has("flush", j) /\ ~InHand(j)' /\ blk' = blk
        BY <1>8, <2>4
      <3>2. blk[j].started => blk[j].pending = <<>>
        BY <3>1 DEF DataInv, Flowing
      <3>3. ~blk[j].dropped => Flow(blk[j], blk[j].got)
        BY <2>2, <3>1
      <3>4. Flow(blk'[j], blk'[j].got) => Flow(blk'[j], IF InHand(j)' THEN blk'[j].got - 1 ELSE blk'[j].got)
        BY <3>1, Zenon
      <3> QED
        BY <3>1, <3>2, <3>3, <3>4
    <2>5. ASSUME NEW j \in OutIdx, ~blk'[j].dropped
          PROVE  \E n \in {blk'[j].got - 1, blk'[j].got} : Flow(blk'[j], n)
      <3>1. blk' = blk
        OBVIOUS
      <3> QED
        BY <2>3, <2>5, <3>1
    <2> QED
      BY <1>8, <2>4, <2>5 DEF Flowing
  <1>10. AllSent'
    BY DEF AllSent
  <1> QED
    BY <1>2, <1>3, <1>5, <1>6, <1>7, <1>9, <1>10 DEF DataInv

\* The message is stopped when everything has been told.
LEMMA SayMessageStopData == ASSUME Running, DataInv, SayMessageStop PROVE DataInv'
  <1>1. At("mstop") /\ Then(<<>>) /\ terminus' = "clean" /\ UNCHANGED blk
    BY DEF SayMessageStop
  <1>2. Tail(todo) = <<>> /\ ToSet(todo) = {Do("mstop", None)}
    BY <1>1, AloneRun
  <1>3. Ran("mstop", {})
    BY <1>1, RunsList
  <1>4. /\ ToSet(todo') = {} /\ ended = "no" /\ terminus = "none"
        /\ UNCHANGED <<up, frame, order, ended>>
    BY <1>2, <1>3 DEF Ran
  <1>5. \A op, i : Has(op, i) => op = "mstop"
    BY <1>2, DoInjective DEF Has
  <1>6. Has("mstop", None) /\ active = None
    BY <1>1, <1>2, AloneTop DEF Has
  <1>7. \A j \in OutIdx : ~InHand(j) /\ ~Has("flush", j)
    BY <1>5 DEF InHand
  <1>8. ~Erring
    BY <1>4, <1>5 DEF Erring
  <1>9. ASSUME NEW j \in OutIdx, blk[j].kind # "none", ~blk[j].dropped
        PROVE  blk[j].stopped /\ blk[j].sent = blk[j].got
    <2>1. PICK c \in Blocks : c = blk[j]
      BY DEF Running, Typed
    <2>2. ~Buffering(c)
      BY <1>5, <1>6, <2>1 DEF DataInv, Told
    <2>3. c.started
      BY <1>9, <2>1, <2>2 DEF Buffering, DataInv, KindKept
    <2>4. c.stopped
      BY <1>6, <2>1, <2>3, TranslatorAssumption DEF Running, Wire
    <2>5. c.pending = <<>>
      BY <1>4, <1>7, <2>1, <2>3 DEF DataInv, Flowing
    <2>6. Flow(c, IF InHand(j) THEN c.got - 1 ELSE c.got)
      BY <1>4, <1>9, <2>1 DEF DataInv, Flowing
    <2>7. Flow(c, c.got)
      BY <1>7, <2>6, Zenon
    <2>8. c.got = c.sent
      <3>1. c.got \in Int
        BY BlockFields
      <3> QED
        BY <2>5, <2>7, <3>1, FlowFacts
    <2> QED
      BY <2>1, <2>4, <2>8
  <1>10. AllSent'
    BY <1>1, <1>4, <1>9 DEF AllSent, Has
  <1>11. \A j \in OutIdx : ~PartialTool(blk[j])
    BY <1>6 DEF DataInv, Whole
  <1> QED
    BY <1>1, <1>4, <1>7, <1>8, <1>10, <1>11, LastData

\* The error is the last thing said.
LEMMA SayErrorData == ASSUME Running, DataInv, SayError PROVE DataInv'
  <1>1. At("error") /\ Then(<<>>) /\ terminus' = "errored" /\ UNCHANGED blk
    BY DEF SayError
  <1>2. Tail(todo) = <<>> /\ ToSet(todo) = {Do("error", None)}
    BY <1>1, AloneRun
  <1>3. Ran("error", {})
    BY <1>1, RunsList
  <1>4. ToSet(todo') = {} /\ ended = "no" /\ UNCHANGED <<up, frame, order, ended>>
    BY <1>2, <1>3 DEF Ran
  <1>5. \A j \in OutIdx : ~InHand(j) /\ ~Has("flush", j)
    BY <1>2, DoInjective DEF InHand, Has
  <1>6. Erring'
    BY <1>1 DEF Erring
  <1> QED
    BY <1>1, <1>4, <1>5, <1>6, LastData


\* Run returns.
LEMMA FinishData ==
    ASSUME Running, DataInv, ended = "no", NEW why, why # "no", Finish(why),
           UNCHANGED <<blk, order>>, todo' = <<>>,
           terminus' = "clean" => terminus = "clean" /\ todo = <<>>
    PROVE  DataInv'
  <1>1. ended' # "no" /\ frame' = NoFrame /\ UNCHANGED up
    BY DEF Finish
  <1>2. ToSet(<<>>) = {}
    BY StackSets
  <1>3. ToSet(todo') = {}
    BY <1>2
  <1>4. Erring => Erring'
    <2>1. CASE terminus' = "clean"
      BY <1>2, <2>1 DEF Erring, Has
    <2>2. CASE terminus' # "clean"
      BY <1>1, <2>2 DEF Erring
    <2> QED
      BY <2>1, <2>2
  <1>5. terminus' = "clean" => AllSent' /\ \A j \in OutIdx : ~PartialTool(blk[j])
    BY <1>3 DEF DataInv, AllSent, Whole, Has
  <1> QED
    BY <1>1, <1>3, <1>4, <1>5, LastData

\* The ways in which it does: before anything is on the wire, interrupted, done,
\* or because a write failed.
LEMMA EndData ==
    ASSUME Running, DataInv, (Selecting /\ FailUnstarted) \/ Interrupt \/ Return \/ SinkFails
    PROVE  DataInv'
  <1>1. CASE Selecting /\ FailUnstarted
    <2>1. /\ Finish("mode1") /\ ended = "no" /\ terminus = "none" /\ terminus' = "none"
          /\ UNCHANGED <<blk, order>> /\ todo' = <<>>
      BY <1>1 DEF Selecting, FailUnstarted, core
    <2> QED
      BY <2>1, FinishData
  <1>2. CASE Interrupt
    <2>1. /\ Finish("interrupt") /\ ended = "no" /\ terminus = "none" /\ terminus' = "none"
          /\ UNCHANGED <<blk, order>> /\ todo' = <<>>
      BY <1>2 DEF Selecting, Interrupt, core
    <2> QED
      BY <2>1, FinishData
  <1>3. CASE Return
    <2>1. /\ Finish("done") /\ ended = "no" /\ todo = <<>> /\ terminus' = terminus
          /\ UNCHANGED <<blk, order>> /\ todo' = <<>>
      BY <1>3 DEF Return, core
    <2> QED
      BY <2>1, FinishData
  <1>4. CASE SinkFails
    <2>1. terminus = "none"
      BY <1>4 DEF SinkFails, Writing, Running, Stacked
    <2>2. /\ Finish("sink") /\ ended = "no" /\ terminus' # "clean"
          /\ UNCHANGED <<blk, order>> /\ todo' = <<>>
      BY <1>4, <2>1 DEF SinkFails
    <2> QED
      BY <2>2, FinishData
  <1> QED
    BY <1>1, <1>2, <1>3, <1>4

-----------------------------------------------------------------------------
(* The select loop *)

\* What a handler may do to a block: p if it leaves a delta in hand.
Grows(b, c, p) ==
    /\ b.started = c.started /\ b.stopped = c.stopped /\ b.done = c.done /\ b.closing = c.closing
    /\ b.pending = c.pending /\ b.sent = c.sent
    /\ b.got = (IF p THEN c.got + 1 ELSE c.got)
    /\ p => ~c.stopped
    /\ c.stopped => Closing(b) = Closing(c) /\ b.kind = c.kind
    /\ c.dropped => b.dropped

\* The functions that a handler may leave to do.
FirstOps == {"start", "clean", "abort", "ping", "open", "push", "done"}

\* A handler starts from an empty stack.
LEMMA BeginData ==
    ASSUME Running, DataInv, Selecting, UNCHANGED <<up, terminus, ended>>,
           frame' \in {frame, NoFrame}, KindKept',
           \A y \in ToSet(todo') : y.op \in FirstOps,
           \A y \in ToSet(todo') : y.i \in OutIdx => blk'[y.i].kind # "none",
           \A j \in OutIdx : Grows(blk'[j], blk[j], Has("push", j)'),
           \A j \in OutIdx : Has("done", j)' => Sealed(j)',
           \A j \in OutIdx : blk[j].stopped \/ blk[j].done => Sealed(j)'
    PROVE  DataInv'
  <1>1. todo = <<>> /\ ended = "no" /\ terminus = "none" /\ ended' = "no" /\ terminus' = "none"
    BY DEF Selecting
  <1>2. ToSet(todo) = {}
    BY <1>1, StackSets
  <1>3. \A op, i : Has(op, i)' => op \in FirstOps
    BY DoInjective DEF Has
  <1>4. \A op, i : ~Has(op, i)
    BY <1>2 DEF Has
  <1>5. Known'
    BY DEF Known
  <1>6. FrameInOrder'
    <2>1. CASE frame' = frame
      BY <2>1 DEF DataInv, FrameInOrder
    <2>2. CASE frame' = NoFrame
      BY <2>2 DEF DataInv, FrameInOrder, NoFrame, ItemTypes
    <2> QED
      BY <2>1, <2>2
  <1>7. Sealing'
    <2>1. ASSUME NEW j \in OutIdx, Closes(j)' PROVE Sealed(j)'
      BY <1>3, <2>1 DEF Closes, ClosingOps, FirstOps, Grows
    <2> QED
      BY <2>1 DEF Sealing
  <1>8. Signing'
    <2>1. ~Erring
      BY <1>1, <1>4 DEF Erring
    <2>2. ASSUME NEW j \in OutIdx, blk'[j].stopped PROVE Signed(j)'
      <3>1. blk[j].stopped /\ Signed(j)
        BY <2>2 DEF Grows, DataInv, Signing
      <3> QED
        BY <2>1, <3>1 DEF Grows, Signed
    <2>3. \A j \in OutIdx : ~Has("halt", j)'
      BY <1>3 DEF FirstOps
    <2> QED
      BY <2>2, <2>3 DEF Signing
  <1>9. Whole' /\ Told' /\ AllSent'
    BY <1>1, <1>3 DEF Whole, Told, AllSent, FirstOps
  <1>10. Flowing'
    <2>1. ASSUME NEW j \in OutIdx
          PROVE  /\ ~blk'[j].dropped =>
                       Flow(blk'[j], IF InHand(j)' THEN blk'[j].got - 1 ELSE blk'[j].got)
                 /\ InHand(j)' => ~blk'[j].stopped
                 /\ blk'[j].started => blk'[j].pending = <<>>
      <3>1. ~InHand(j) /\ ~Has("flush", j) /\ (InHand(j)' <=> Has("push", j)')
        BY <1>3, <1>4 DEF InHand, FirstOps
      <3>2. /\ ~blk[j].dropped => Flow(blk[j], IF InHand(j) THEN blk[j].got - 1 ELSE blk[j].got)
            /\ blk[j].started => blk[j].pending = <<>> \/ Has("flush", j)
        BY <1>1 DEF DataInv, Flowing
      <3>3. ~blk[j].dropped => Flow(blk[j], blk[j].got)
        BY <3>1, <3>2, Zenon
      <3>4. Grows(blk'[j], blk[j], Has("push", j)')
        OBVIOUS
      <3>5. PICK c \in Blocks : c = blk[j]
        BY DEF Running, Typed
      <3>6. PICK b : b = blk'[j]
        OBVIOUS
      <3>7. c = blk[j] /\ b = blk'[j]
        BY <3>5, <3>6
      <3>8. /\ b.got = (IF Has("push", j)' THEN c.got + 1 ELSE c.got) /\ c.got \in Nat
            /\ b.pending = c.pending /\ b.sent = c.sent /\ b.started = c.started
            /\ b.stopped = c.stopped /\ (c.dropped => b.dropped)
        BY <3>4, <3>7, BlockFields DEF Grows
      <3>9. (IF InHand(j)' THEN b.got - 1 ELSE b.got) = c.got
        <4>1. CASE InHand(j)'
          <5>1. b.got = c.got + 1
            BY <3>1, <3>8, <4>1, Zenon
          <5>2. b.got - 1 = c.got
            BY <3>8, <5>1
          <5> QED
            BY <4>1, <5>2
        <4>2. CASE ~InHand(j)'
          <5>1. b.got = c.got
            BY <3>1, <3>8, <4>2, Zenon
          <5> QED
            BY <4>2, <5>1
        <4> QED
          BY <4>1, <4>2
      <3>10. Flow(c, c.got) => Flow(b, c.got)
        BY <3>8 DEF Flow
      <3>11. ~b.dropped => Flow(b, IF InHand(j)' THEN b.got - 1 ELSE b.got)
        BY <3>3, <3>7, <3>8, <3>9, <3>10, Zenon
      <3>12. InHand(j)' => ~b.stopped
        BY <3>1, <3>4, <3>7 DEF Grows
      <3> QED
        BY <3>1, <3>2, <3>7, <3>8, <3>11, <3>12
    <2> QED
      BY <1>1, <2>1 DEF Flowing
  <1> QED
    BY <1>5, <1>6, <1>7, <1>8, <1>9, <1>10 DEF DataInv

\* The events of an orderly item.
LEMMA LifecycleFacts ==
    ASSUME NEW k \in Kinds, NEW s, NEW type, NEW u, <<s, type, u>> \in Lifecycle[k]
    PROVE  /\ type \in {"partAdded", "textDelta"} => k = "text"
           /\ type = "textDone" => k = "text" /\ u = "closed"
           /\ type = "messageDone" => k = "text" /\ u = "gone"
           /\ type \in {"reasoningPart", "reasoningDelta", "reasoningTextDone"} => k = "thinking"
           /\ type = "reasoningDone" => k = "thinking" /\ u = "gone"
           /\ type \in {"toolAdded", "argsDelta"} => k = "tool"
           /\ type = "argsDone" => k = "tool" /\ u = "closed"
           /\ type = "toolDone" => k = "tool" /\ u = "gone"
           /\ s = "closed" => type \in {"messageDone", "toolDone"} /\ u = "gone"
           /\ s # "gone"
  <1>1. CASE k = "text"
    BY <1>1 DEF Lifecycle
  <1>2. CASE k = "thinking"
    BY <1>2 DEF Lifecycle
  <1>3. CASE k = "tool"
    BY <1>3 DEF Lifecycle
  <1> QED
    BY <1>1, <1>2, <1>3 DEF Kinds

\* What an output index appended to t.order adds to it.
LEMMA AppendSet ==
    ASSUME NEW s \in Seq(OutIdx), NEW i \in OutIdx
    PROVE  ToSet(s) \subseteq ToSet(Append(s, i)) /\ i \in ToSet(Append(s, i))
  <1>1. /\ Append(s, i) \in Seq(OutIdx) /\ Len(Append(s, i)) = Len(s) + 1 /\ Len(s) \in Nat
        /\ \A k \in 1..Len(s) : Append(s, i)[k] = s[k]
        /\ Append(s, i)[Len(s) + 1] = i
    BY AppendProperties, LenProperties
  <1>2. DOMAIN s = 1..Len(s) /\ DOMAIN Append(s, i) = 1..(Len(s) + 1)
    BY <1>1, LenProperties
  <1>3. Len(s) + 1 \in 1..(Len(s) + 1) /\ \A k \in 1..Len(s) : k \in 1..(Len(s) + 1)
    BY <1>1
  <1> QED
    BY <1>1, <1>2, <1>3 DEF ToSet

\* The frame of an item, as a handler finds it.
LEMMA TakenInOrder ==
    ASSUME Running, DataInv, NEW type \in ItemTypes, Take(type)
    PROVE  \E i \in OutIdx, c \in Blocks :
               /\ i = frame.i /\ c = blk[i] /\ c.kind \in {"none", KindOf[i]}
               /\ \E s \in Stages : <<s, type, up[i]>> \in Lifecycle[KindOf[i]]
               /\ Selecting /\ UNCHANGED <<up, terminus, ended>> /\ frame' = NoFrame
               /\ c.stopped \/ c.done => type \in {"messageDone", "toolDone"}
               /\ c.stopped \/ c.done => (KindOf[i] = "tool" => c.fullArgs)
               /\ type = "argsDone" => frame.has = {"args"}
               /\ \A j \in OutIdx \ {i} : blk[j].stopped \/ blk[j].done => up[j] \in {"closed", "gone"}
                    /\ (KindOf[j] = "tool" => blk[j].fullArgs \/ up[j] = "gone")
  <1>1. Selecting /\ frame.type = type /\ frame' = NoFrame /\ UNCHANGED <<up, terminus, ended>>
    BY DEF Take
  <1>2. PICK i \in OutIdx, c \in Blocks : i = frame.i /\ c = blk[i]
    BY <1>1 DEF Running, Typed
  <1>3. \E s \in Stages : <<s, type, up[i]>> \in Lifecycle[KindOf[i]]
    BY <1>1, <1>2 DEF DataInv, FrameInOrder
  <1>4. ~Doomed
    <2>1. ToSet(todo) = {} /\ terminus = "none" /\ ended = "no"
      BY <1>1, StackSets DEF Selecting
    <2> QED
      BY <2>1 DEF Doomed, Has
  <1>5. \A j \in OutIdx : blk[j].stopped \/ blk[j].done => Sealed(j)
    BY <1>4 DEF DataInv, Sealing, Closes
  <1>6. c.stopped \/ c.done => type \in {"messageDone", "toolDone"} /\ (KindOf[i] = "tool" => c.fullArgs)
    BY <1>1, <1>2, <1>5 DEF Sealed
  <1>7. \A j \in OutIdx \ {i} : blk[j].stopped \/ blk[j].done => up[j] \in {"closed", "gone"}
          /\ (KindOf[j] = "tool" => blk[j].fullArgs \/ up[j] = "gone")
    BY <1>5 DEF Sealed
  <1>8. c.kind \in {"none", KindOf[i]} /\ (type = "argsDone" => frame.has = {"args"})
    BY <1>1, <1>2 DEF DataInv, KindKept, FrameInOrder
  <1> QED
    BY <1>1, <1>2, <1>3, <1>6, <1>7, <1>8

\* A handler that leaves the blocks alone, whatever it leaves to do.
LEMMA NoBlockData ==
    ASSUME Running, DataInv, Selecting, UNCHANGED <<up, terminus, ended, blk, order>>,
           frame' \in {frame, NoFrame},
           \A y \in ToSet(todo') : y.op \in {"start", "clean", "abort", "ping"} /\ y.i = None
    PROVE  DataInv'
  <1>1. KindKept'
    BY DEF DataInv, KindKept
  <1>2. \A y \in ToSet(todo') : y.op \in FirstOps /\ (y.i \in OutIdx => blk'[y.i].kind # "none")
    BY TranslatorAssumption DEF FirstOps
  <1>3. \A op : \A j \in OutIdx : ~Has(op, j)'
    BY DoInjective, TranslatorAssumption DEF Has
  <1>4. \A j \in OutIdx : Grows(blk'[j], blk[j], Has("push", j)')
    BY <1>3 DEF Grows
  <1>5. ~Doomed
    <2>1. ToSet(todo) = {} /\ terminus = "none" /\ ended = "no"
      BY StackSets DEF Selecting
    <2> QED
      BY <2>1 DEF Doomed, Has
  <1>6. \A j \in OutIdx : blk[j].stopped \/ blk[j].done => Sealed(j)'
    <2>1. \A j \in OutIdx : blk[j].stopped \/ blk[j].done => Sealed(j)
      BY <1>5 DEF DataInv, Sealing, Closes
    <2>2. (frame'.i = frame.i /\ frame'.type = frame.type) \/ frame'.i \notin OutIdx
      BY TranslatorAssumption DEF NoFrame
    <2> QED
      BY <2>1, <2>2 DEF Sealed
  <1> QED
    BY <1>1, <1>2, <1>3, <1>4, <1>6, BeginData

\* A handler of the item's own block.
LEMMA HandlerData ==
    ASSUME Running, DataInv, NEW type \in ItemTypes, Take(type), NEW i \in OutIdx, i = frame.i,
           NEW c \in Blocks, c = blk[i], NEW b, blk' = [blk EXCEPT ![i] = b],
           ToSet(order) \subseteq ToSet(order'),
           \/ b = c /\ (c.kind = "none" => todo' = <<>>)
           \/ /\ b.kind = KindOf[i] /\ (b.dropped => b.kind = "thinking")
              /\ i \in ToSet(order'),
           Grows(b, c, Has("push", i)'), c.fullArgs => b.fullArgs,
           ToSet(todo') \subseteq {Start, Do("open", i), Do("push", i), Do("done", i)},
           Has("done", i)' => /\ up[i] \in {"closed", "gone"}
                              /\ KindOf[i] = "tool" => b.fullArgs \/ up[i] = "gone"
    PROVE  DataInv'
  <1>1. /\ Selecting /\ UNCHANGED <<up, terminus, ended>> /\ frame' = NoFrame
        /\ c.stopped \/ c.done => type \in {"messageDone", "toolDone"}
        /\ c.stopped \/ c.done => (KindOf[i] = "tool" => c.fullArgs)
        /\ \A j \in OutIdx \ {i} : blk[j].stopped \/ blk[j].done => up[j] \in {"closed", "gone"}
             /\ (KindOf[j] = "tool" => blk[j].fullArgs \/ up[j] = "gone")
        /\ \E s \in Stages : <<s, type, up[i]>> \in Lifecycle[KindOf[i]]
    <2>1. PICK a \in OutIdx, d \in Blocks :
             /\ a = frame.i /\ d = blk[a]
             /\ \E s \in Stages : <<s, type, up[a]>> \in Lifecycle[KindOf[a]]
             /\ Selecting /\ UNCHANGED <<up, terminus, ended>> /\ frame' = NoFrame
             /\ d.stopped \/ d.done => type \in {"messageDone", "toolDone"}
             /\ d.stopped \/ d.done => (KindOf[a] = "tool" => d.fullArgs)
             /\ \A j \in OutIdx \ {a} : blk[j].stopped \/ blk[j].done => up[j] \in {"closed", "gone"}
                  /\ (KindOf[j] = "tool" => blk[j].fullArgs \/ up[j] = "gone")
      BY TakenInOrder
    <2>2. a = i /\ d = c
      BY <2>1
    <2> QED
      BY <2>1, <2>2
  <1>2. blk'[i] = b /\ \A j \in OutIdx \ {i} : blk'[j] = blk[j]
    BY DEF Running, Typed
  <1>3. KindKept'
    <2>1. /\ b.kind \in {"none", KindOf[i]} /\ (b.kind = "none" => b = Unseen)
          /\ (b.dropped => b.kind = "thinking") /\ (b.stopped => b.started)
          /\ (b.kind # "none" => i \in ToSet(order'))
      <3>1. KindOf[i] # "none"
        BY TranslatorAssumption DEF Kinds
      <3> QED
        BY <3>1 DEF DataInv, KindKept, Grows
    <2> QED
      BY <1>2, <2>1 DEF DataInv, KindKept
  <1>4. \A y \in ToSet(todo') : y.op \in FirstOps /\ (y.i \in OutIdx => y.i = i)
    BY DoInjective, TranslatorAssumption DEF FirstOps, Start
  <1>5. \A y \in ToSet(todo') : b.kind # "none"
    <2>1. KindOf[i] # "none"
      BY TranslatorAssumption DEF Kinds
    <2>2. todo' = <<>> => ToSet(todo') = {}
      BY StackSets
    <2> QED
      BY <2>1, <2>2
  <1>6. \A op : \A j \in OutIdx : Has(op, j)' => j = i
    BY DoInjective, TranslatorAssumption DEF Has, Start
  <1>7. ASSUME NEW j \in OutIdx PROVE Grows(blk'[j], blk[j], Has("push", j)')
    <2>1. CASE j = i
      BY <1>2, <2>1
    <2>2. CASE j # i
      BY <1>2, <1>6, <2>2 DEF Grows
    <2> QED
      BY <2>1, <2>2
  <1>8. None \notin OutIdx /\ frame'.i = None /\ up' = up
    BY <1>1, TranslatorAssumption DEF NoFrame
  <1>9. Has("done", i)' => Sealed(i)'
    BY <1>2, <1>8 DEF Sealed
  <1>10. \A j \in OutIdx : Has("done", j)' => Sealed(j)'
    BY <1>6, <1>9
  <1>11. ASSUME NEW j \in OutIdx, blk[j].stopped \/ blk[j].done PROVE Sealed(j)'
    <2>1. CASE j # i
      BY <1>1, <1>2, <1>8, <1>11, <2>1 DEF Sealed
    <2>2. CASE j = i
      <3>1. up[i] = "gone"
        <4>1. KindOf[i] \in Kinds
          BY TranslatorAssumption
        <4> QED
          BY <1>1, <1>11, <2>2, <4>1, LifecycleFacts
      <3> QED
        BY <1>1, <1>2, <1>8, <1>11, <2>2, <3>1 DEF Sealed
    <2> QED
      BY <2>1, <2>2
  <1> QED
    BY <1>1, <1>2, <1>3, <1>4, <1>5, <1>7, <1>10, <1>11, BeginData

\* What an item's handler finds: the block blockFor returns, and where the item is.
LEMMA Found ==
    ASSUME Running, DataInv, NEW type \in ItemTypes, Take(type)
    PROVE  \E i \in OutIdx, c \in Blocks, m \in Blocks :
               /\ i = frame.i /\ c = blk[i] /\ m = BlockFor(i, KindOf[i])
               /\ m.kind = KindOf[i] /\ (m.dropped => m.kind = "thinking")
               /\ m.started = c.started /\ m.stopped = c.stopped /\ m.done = c.done
               /\ m.closing = c.closing /\ m.pending = c.pending /\ m.sent = c.sent
               /\ m.got = c.got /\ m.fullArgs = c.fullArgs /\ (c.dropped => m.dropped)
               /\ c.stopped => m = c
               /\ c.stopped => type \in {"messageDone", "toolDone"} /\ (KindOf[i] = "tool" => c.fullArgs)
               /\ c.kind # "none" => m = c
               /\ \E s \in Stages : <<s, type, up[i]>> \in Lifecycle[KindOf[i]]
               /\ KindOf[i] \in Kinds
               /\ type = "argsDone" => frame.has = {"args"}
  <1>1. PICK i \in OutIdx, c \in Blocks :
               /\ i = frame.i /\ c = blk[i] /\ c.kind \in {"none", KindOf[i]}
               /\ \E s \in Stages : <<s, type, up[i]>> \in Lifecycle[KindOf[i]]
               /\ c.stopped \/ c.done => type \in {"messageDone", "toolDone"}
               /\ c.stopped \/ c.done => (KindOf[i] = "tool" => c.fullArgs)
               /\ type = "argsDone" => frame.has = {"args"}
    BY TakenInOrder
  <1>2. PICK k \in Kinds : k = KindOf[i]
    BY TranslatorAssumption
  <1>3. PICK m \in Blocks : m = BlockFor(i, k)
    BY BlockForFacts DEF Running
  <1>4. CASE c.kind # "none"
    <2>1. m = c
      BY <1>1, <1>3, <1>4 DEF BlockFor
    <2>2. m.dropped => m.kind = "thinking"
      BY <1>1, <2>1 DEF DataInv, KindKept
    <2> QED
      BY <1>1, <1>2, <1>3, <1>4, <2>1, <2>2
  <1>5. CASE c.kind = "none"
    <2>1. c = Unseen
      BY <1>1, <1>5 DEF DataInv, KindKept
    <2>2. PICK drop : drop = (k = "thinking" /\ opt.drop)
      OBVIOUS
    <2>3. m = [c EXCEPT !.kind = k, !.dropped = drop]
      BY <1>1, <1>3, <1>5, <2>1, <2>2 DEF BlockFor
    <2>4. /\ m.kind = k /\ m.dropped = drop
          /\ m.started = c.started /\ m.stopped = c.stopped /\ m.done = c.done
          /\ m.closing = c.closing /\ m.pending = c.pending /\ m.sent = c.sent
          /\ m.got = c.got /\ m.fullArgs = c.fullArgs
      BY <2>3 DEF Blocks
    <2>5. ~c.dropped /\ ~c.stopped
      BY <2>1 DEF Unseen
    <2>6. m.dropped => m.kind = "thinking"
      BY <2>2, <2>4
    <2> QED
      BY <1>1, <1>2, <1>3, <1>5, <2>4, <2>5, <2>6
  <1> QED
    BY <1>4, <1>5

\* The handler of a frame that makes or finds its block, and updates it to n.
LEMMA RegisterData ==
    ASSUME Running, DataInv, NEW type \in ItemTypes, Take(type), NEW i \in OutIdx, i = frame.i,
           NEW n, Register(i, n),
           LET m == BlockFor(i, KindOf[i]) IN
               /\ n.kind = m.kind /\ n.dropped = m.dropped /\ n.started = m.started
               /\ n.stopped = m.stopped /\ n.done = m.done /\ n.closing = m.closing
               /\ n.pending = m.pending /\ n.sent = m.sent
               /\ n.got = (IF Has("push", i)' THEN m.got + 1 ELSE m.got)
               /\ (m.fullArgs => n.fullArgs)
               /\ (type = "toolDone" => n.enc = m.enc /\ n.argsSeen = m.argsSeen),
           type = "messageDone" => n = BlockFor(i, KindOf[i]),
           Has("push", i)' => type \notin {"messageDone", "toolDone"},
           ToSet(todo') \subseteq {Start, Do("open", i), Do("push", i), Do("done", i)},
           Has("done", i)' => /\ up[i] \in {"closed", "gone"}
                              /\ KindOf[i] = "tool" => n.fullArgs \/ up[i] = "gone"
    PROVE  DataInv'
  <1>1. PICK c \in Blocks, m \in Blocks :
               /\ c = blk[i] /\ m = BlockFor(i, KindOf[i])
               /\ m.kind = KindOf[i] /\ (m.dropped => m.kind = "thinking")
               /\ m.started = c.started /\ m.stopped = c.stopped /\ m.done = c.done
               /\ m.closing = c.closing /\ m.pending = c.pending /\ m.sent = c.sent
               /\ m.got = c.got /\ m.fullArgs = c.fullArgs /\ (c.dropped => m.dropped)
               /\ c.stopped => m = c
               /\ c.stopped => type \in {"messageDone", "toolDone"} /\ (KindOf[i] = "tool" => c.fullArgs)
               /\ \E s \in Stages : <<s, type, up[i]>> \in Lifecycle[KindOf[i]]
               /\ KindOf[i] \in Kinds
    BY Found
  <1>2. ToSet(order) \subseteq ToSet(order') /\ i \in ToSet(order')
    <2>1. order \in Seq(OutIdx) /\ (c.kind # "none" => i \in ToSet(order))
      BY <1>1 DEF Running, Typed, DataInv, KindKept
    <2>2. order' = IF c.kind = "none" THEN Append(order, i) ELSE order
      BY <1>1 DEF Register
    <2> QED
      BY <2>1, <2>2, AppendSet
  <1>3. ASSUME c.stopped PROVE Closing(n) = Closing(c) /\ n.kind = c.kind
    <2>1. CASE type = "messageDone"
      BY <1>1, <1>3, <2>1
    <2>2. CASE type = "toolDone"
      <3>1. KindOf[i] = "tool"
        BY <1>1, <2>2, LifecycleFacts
      <3>2. n.kind = "tool" /\ c.kind = "tool" /\ n.argsSeen = c.argsSeen /\ n.fullArgs /\ c.fullArgs
        BY <1>1, <1>3, <2>2, <3>1
      <3> QED
        BY <3>2 DEF Closing
    <2> QED
      BY <1>1, <1>3, <2>1, <2>2
  <1>4. Grows(n, c, Has("push", i)')
    BY <1>1, <1>3 DEF Grows
  <1>5. n.kind = KindOf[i] /\ (n.dropped => n.kind = "thinking") /\ (c.fullArgs => n.fullArgs)
    BY <1>1
  <1>6. blk' = [blk EXCEPT ![i] = n]
    BY DEF Register
  <1> QED
    BY <1>1, <1>2, <1>4, <1>5, <1>6, HandlerData

\* The stacks that the handlers of an item leave.
LEMMA FirstSets ==
    ASSUME NEW i \in OutIdx
    PROVE  /\ todo' = <<>> \/ todo' = <<Start>> \/ todo' = OpenIfFree(i) =>
                 /\ ToSet(todo') \subseteq {Start, Do("open", i)}
                 /\ ~Has("push", i)' /\ ~Has("done", i)'
           /\ todo' = <<Start, Do("push", i)>> =>
                 /\ ToSet(todo') = {Start, Do("push", i)}
                 /\ Has("push", i)' /\ ~Has("done", i)'
           /\ todo' = <<Do("done", i)>> =>
                 ToSet(todo') = {Do("done", i)} /\ ~Has("push", i)' /\ Has("done", i)'
  <1>1. /\ Start \in Cmds /\ Do("open", i) \in Cmds /\ Do("push", i) \in Cmds
        /\ Do("done", i) \in Cmds
    BY DoTypes DEF Ops, Start
  <1>2. /\ ToSet(<<>>) = {} /\ ToSet(<<Start>>) = {Start}
        /\ ToSet(<<Start, Do("open", i)>>) = {Start, Do("open", i)}
        /\ ToSet(<<Start, Do("push", i)>>) = {Start, Do("push", i)}
        /\ ToSet(<<Do("done", i)>>) = {Do("done", i)}
    BY <1>1, StackSets
  <1>3. /\ Do("push", i) \notin {Start, Do("open", i), Do("done", i)}
        /\ Do("done", i) \notin {Start, Do("open", i), Do("push", i)}
    BY DoInjective DEF Start
  <1>4. OpenIfFree(i) \in {<<Start>>, <<Start, Do("open", i)>>}
    BY DEF OpenIfFree
  <1>5. ASSUME todo' \in {<<>>, <<Start>>, <<Start, Do("open", i)>>}
        PROVE  ToSet(todo') \subseteq {Start, Do("open", i)} /\ ~Has("push", i)' /\ ~Has("done", i)'
    <2>1. ToSet(todo') \subseteq {Start, Do("open", i)}
      BY <1>2, <1>5, Zenon
    <2> QED
      BY <1>3, <2>1, Zenon DEF Has
  <1>6. ASSUME todo' = <<Start, Do("push", i)>>
        PROVE  ToSet(todo') = {Start, Do("push", i)} /\ Has("push", i)' /\ ~Has("done", i)'
    <2>1. ToSet(todo') = {Start, Do("push", i)}
      BY <1>2, <1>6, Zenon
    <2> QED
      BY <1>3, <2>1, Zenon DEF Has
  <1>7. ASSUME todo' = <<Do("done", i)>>
        PROVE  ToSet(todo') = {Do("done", i)} /\ ~Has("push", i)' /\ Has("done", i)'
    <2>1. ToSet(todo') = {Do("done", i)}
      BY <1>2, <1>7, Zenon
    <2> QED
      BY <1>3, <2>1, Zenon DEF Has
  <1> QED
    BY <1>4, <1>5, <1>6, <1>7, Zenon

\* The parts that open a block.
LEMMA PartData == ASSUME Running, DataInv, OnPartAdded \/ OnReasoningPart PROVE DataInv'
  <1>1. PICK type \in {"partAdded", "reasoningPart"}, kind \in {"text", "thinking"} :
           /\ Take(type) /\ (type = "partAdded" <=> kind = "text")
           /\ Register(frame.i, BlockFor(frame.i, kind))
           /\ todo' = <<Start>> \/ todo' = OpenIfFree(frame.i)
    BY DEF OnPartAdded, OnReasoningPart
  <1>2. type \in ItemTypes
    BY DEF ItemTypes
  <1>3. PICK i \in OutIdx, m \in Blocks :
           /\ i = frame.i /\ m = BlockFor(i, KindOf[i]) /\ KindOf[i] \in Kinds
           /\ \E s \in Stages : <<s, type, up[i]>> \in Lifecycle[KindOf[i]]
    BY <1>1, <1>2, Found
  <1>4. KindOf[i] = kind
    BY <1>1, <1>3, LifecycleFacts
  <1>5. /\ ToSet(todo') \subseteq {Start, Do("open", i)} /\ ~Has("push", i)' /\ ~Has("done", i)'
    BY <1>1, <1>3, FirstSets
  <1>6. Register(i, m)
    BY <1>1, <1>3, <1>4
  <1>7. m.got = IF Has("push", i)' THEN m.got + 1 ELSE m.got
    BY <1>5, Zenon
  <1> QED
    BY <1>1, <1>2, <1>3, <1>5, <1>6, <1>7, RegisterData

\* A delta of an item.
LEMMA OnDeltaData ==
    ASSUME Running, DataInv, NEW type, NEW kind,
           \/ type = "textDelta" /\ kind = "text"
           \/ type = "reasoningDelta" /\ kind = "thinking"
           \/ type = "argsDelta" /\ kind = "tool",
           OnDelta(type, kind)
    PROVE  DataInv'
  <1>1. Take(type) /\ type \in ItemTypes /\ todo' = <<Start, Do("push", frame.i)>>
    BY DEF OnDelta, ItemTypes
  <1>2. PICK i \in OutIdx, m \in Blocks :
           /\ i = frame.i /\ m = BlockFor(i, KindOf[i]) /\ KindOf[i] \in Kinds
           /\ \E s \in Stages : <<s, type, up[i]>> \in Lifecycle[KindOf[i]]
    BY <1>1, Found
  <1>3. KindOf[i] = kind
    BY <1>2, LifecycleFacts
  <1>4. ToSet(todo') = {Start, Do("push", i)} /\ Has("push", i)' /\ ~Has("done", i)'
    BY <1>1, <1>2, FirstSets
  <1>5. PICK g, a : g = m.got + 1 /\ a = (m.argsSeen \/ kind = "tool")
    OBVIOUS
  <1>6. PICK n : n = [m EXCEPT !.got = g, !.argsSeen = a]
    OBVIOUS
  <1>7. Register(i, n)
    BY <1>2, <1>3, <1>5, <1>6 DEF OnDelta
  <1>8. /\ n.kind = m.kind /\ n.dropped = m.dropped /\ n.started = m.started
        /\ n.stopped = m.stopped /\ n.done = m.done /\ n.closing = m.closing
        /\ n.pending = m.pending /\ n.sent = m.sent /\ n.got = g /\ n.fullArgs = m.fullArgs
    BY <1>6 DEF Blocks
  <1>9. n.got = IF Has("push", i)' THEN m.got + 1 ELSE m.got
    BY <1>4, <1>5, <1>8, Zenon
  <1> QED
    BY <1>1, <1>2, <1>4, <1>7, <1>8, <1>9, RegisterData

\* The end of a text.
LEMMA OnTextDoneData == ASSUME Running, DataInv, OnTextDone PROVE DataInv'
  <1>1. /\ Take("textDone") /\ "textDone" \in ItemTypes /\ todo' = <<Do("done", frame.i)>>
        /\ Register(frame.i, BlockFor(frame.i, "text"))
    BY DEF OnTextDone, ItemTypes
  <1>2. PICK i \in OutIdx, m \in Blocks :
           /\ i = frame.i /\ m = BlockFor(i, KindOf[i]) /\ KindOf[i] \in Kinds
           /\ \E s \in Stages : <<s, "textDone", up[i]>> \in Lifecycle[KindOf[i]]
    BY <1>1, Found
  <1>3. KindOf[i] = "text" /\ up[i] = "closed"
    BY <1>2, LifecycleFacts
  <1>4. ToSet(todo') = {Do("done", i)} /\ ~Has("push", i)'
    BY <1>1, <1>2, FirstSets
  <1>5. Register(i, m)
    BY <1>1, <1>2, <1>3
  <1>6. m.got = IF Has("push", i)' THEN m.got + 1 ELSE m.got
    BY <1>4, Zenon
  <1> QED
    BY <1>1, <1>2, <1>3, <1>4, <1>5, <1>6, RegisterData

\* A tool call is announced.
LEMMA OnToolAddedData == ASSUME Running, DataInv, OnToolAdded PROVE DataInv'
  <1>1. Take("toolAdded") /\ "toolAdded" \in ItemTypes
    BY DEF OnToolAdded, ItemTypes
  <1>2. PICK i \in OutIdx, m \in Blocks :
           /\ i = frame.i /\ m = BlockFor(i, KindOf[i]) /\ KindOf[i] \in Kinds
           /\ \E s \in Stages : <<s, "toolAdded", up[i]>> \in Lifecycle[KindOf[i]]
    BY <1>1, Found
  <1>3. KindOf[i] = "tool"
    BY <1>2, LifecycleFacts
  <1>4. PICK d, f : d = (m.ident \/ "ident" \in frame.has) /\ f = (m.fullArgs \/ "args" \in frame.has)
    OBVIOUS
  <1>5. PICK n : n = [m EXCEPT !.ident = d, !.fullArgs = f]
    OBVIOUS
  <1>6. Register(i, n) /\ (todo' = <<Start>> \/ todo' = OpenIfFree(i))
    BY <1>2, <1>3, <1>4, <1>5 DEF OnToolAdded
  <1>7. ToSet(todo') \subseteq {Start, Do("open", i)} /\ ~Has("push", i)' /\ ~Has("done", i)'
    BY <1>6, FirstSets
  <1>8. /\ n.kind = m.kind /\ n.dropped = m.dropped /\ n.started = m.started
        /\ n.stopped = m.stopped /\ n.done = m.done /\ n.closing = m.closing
        /\ n.pending = m.pending /\ n.sent = m.sent /\ n.got = m.got /\ n.fullArgs = f
    BY <1>5 DEF Blocks
  <1>9. n.got = IF Has("push", i)' THEN m.got + 1 ELSE m.got
    BY <1>7, <1>8, Zenon
  <1>10. m.fullArgs => n.fullArgs
    BY <1>4, <1>8
  <1> QED
    BY <1>1, <1>2, <1>6, <1>7, <1>8, <1>9, <1>10, RegisterData

\* The end of a tool call's arguments carries them in full.
LEMMA OnArgsDoneData == ASSUME Running, DataInv, OnArgsDone PROVE DataInv'
  <1>1. Take("argsDone") /\ "argsDone" \in ItemTypes /\ todo' = <<Do("done", frame.i)>>
    BY DEF OnArgsDone, ItemTypes
  <1>2. PICK i \in OutIdx, m \in Blocks :
           /\ i = frame.i /\ m = BlockFor(i, KindOf[i]) /\ KindOf[i] \in Kinds
           /\ \E s \in Stages : <<s, "argsDone", up[i]>> \in Lifecycle[KindOf[i]]
           /\ frame.has = {"args"}
    BY <1>1, Found
  <1>3. KindOf[i] = "tool" /\ up[i] = "closed"
    BY <1>2, LifecycleFacts
  <1>4. PICK f : f = (m.fullArgs \/ "args" \in frame.has)
    OBVIOUS
  <1>5. PICK n : n = [m EXCEPT !.fullArgs = f, !.argsDone = TRUE]
    OBVIOUS
  <1>6. Register(i, n)
    BY <1>2, <1>3, <1>4, <1>5 DEF OnArgsDone
  <1>7. ToSet(todo') = {Do("done", i)} /\ ~Has("push", i)'
    BY <1>1, <1>2, FirstSets
  <1>8. /\ n.kind = m.kind /\ n.dropped = m.dropped /\ n.started = m.started
        /\ n.stopped = m.stopped /\ n.done = m.done /\ n.closing = m.closing
        /\ n.pending = m.pending /\ n.sent = m.sent /\ n.got = m.got /\ n.fullArgs = f
    BY <1>5 DEF Blocks
  <1>9. n.got = IF Has("push", i)' THEN m.got + 1 ELSE m.got
    BY <1>7, <1>8, Zenon
  <1>10. n.fullArgs
    BY <1>2, <1>4, <1>8
  <1> QED
    BY <1>1, <1>2, <1>3, <1>6, <1>7, <1>8, <1>9, <1>10, RegisterData

\* A tool call is complete.
LEMMA OnToolDoneData == ASSUME Running, DataInv, OnToolDone PROVE DataInv'
  <1>1. Take("toolDone") /\ "toolDone" \in ItemTypes /\ todo' = <<Do("done", frame.i)>>
    BY DEF OnToolDone, ItemTypes
  <1>2. PICK i \in OutIdx, m \in Blocks :
           /\ i = frame.i /\ m = BlockFor(i, KindOf[i]) /\ KindOf[i] \in Kinds
           /\ \E s \in Stages : <<s, "toolDone", up[i]>> \in Lifecycle[KindOf[i]]
    BY <1>1, Found
  <1>3. KindOf[i] = "tool" /\ up[i] = "gone"
    BY <1>2, LifecycleFacts
  <1>4. PICK d, f : d = (m.ident \/ "ident" \in frame.has) /\ f = (m.fullArgs \/ "args" \in frame.has)
    OBVIOUS
  <1>5. PICK n : n = [m EXCEPT !.ident = d, !.fullArgs = f, !.argsDone = TRUE]
    OBVIOUS
  <1>6. Register(i, n)
    BY <1>2, <1>3, <1>4, <1>5 DEF OnToolDone
  <1>7. ToSet(todo') = {Do("done", i)} /\ ~Has("push", i)'
    BY <1>1, <1>2, FirstSets
  <1>8. /\ n.kind = m.kind /\ n.dropped = m.dropped /\ n.started = m.started
        /\ n.stopped = m.stopped /\ n.done = m.done /\ n.closing = m.closing
        /\ n.pending = m.pending /\ n.sent = m.sent /\ n.got = m.got /\ n.fullArgs = f
        /\ n.enc = m.enc /\ n.argsSeen = m.argsSeen
    BY <1>5 DEF Blocks
  <1>9. n.got = IF Has("push", i)' THEN m.got + 1 ELSE m.got
    BY <1>7, <1>8, Zenon
  <1>10. m.fullArgs => n.fullArgs
    BY <1>4, <1>8
  <1> QED
    BY <1>1, <1>2, <1>3, <1>6, <1>7, <1>8, <1>9, <1>10, RegisterData

\* Nothing about a block changes.
LEMMA LeftAlone ==
    ASSUME Running, DataInv, NEW type \in ItemTypes, Take(type), UNCHANGED <<blk, order>>,
           \/ todo' = <<>>
           \/ /\ todo' = <<Do("done", frame.i)>> /\ blk[frame.i].kind # "none"
              /\ KindOf[frame.i] # "tool" /\ up[frame.i] \in {"closed", "gone"}
    PROVE  DataInv'
  <1>1. PICK i \in OutIdx, c \in Blocks : i = frame.i /\ c = blk[i]
    BY Found
  <1>2. blk' = [blk EXCEPT ![i] = c]
    BY <1>1 DEF Running, Typed
  <1>3. ~Has("push", i)' /\ ToSet(todo') \subseteq {Start, Do("open", i), Do("push", i), Do("done", i)}
    BY <1>1, FirstSets
  <1>4. Grows(c, c, Has("push", i)')
    BY <1>3 DEF Grows
  <1>5. Has("done", i)' => up[i] \in {"closed", "gone"} /\ (KindOf[i] = "tool" => c.fullArgs \/ up[i] = "gone")
    <2>1. todo' = <<>> => ~Has("done", i)'
      BY FirstSets
    <2> QED
      BY <1>1, <2>1
  <1> QED
    BY <1>1, <1>2, <1>3, <1>4, <1>5, HandlerData

\* A reasoning item is complete: its encrypted content comes before its close.
LEMMA OnReasoningDoneData == ASSUME Running, DataInv, OnReasoningDone PROVE DataInv'
  <1>1. Take("reasoningDone") /\ "reasoningDone" \in ItemTypes
    BY DEF OnReasoningDone, ItemTypes
  <1>2. PICK i \in OutIdx, m \in Blocks :
           /\ i = frame.i /\ m = BlockFor(i, KindOf[i]) /\ KindOf[i] \in Kinds
           /\ \E s \in Stages : <<s, "reasoningDone", up[i]>> \in Lifecycle[KindOf[i]]
    BY <1>1, Found
  <1>3. KindOf[i] = "thinking" /\ up[i] = "gone"
    BY <1>2, LifecycleFacts
  <1>4. todo = <<>>
    BY <1>1 DEF Take, Selecting
  <1>5. CASE UNCHANGED <<blk, order, todo>>
    BY <1>1, <1>4, <1>5, LeftAlone
  <1>6. CASE ~UNCHANGED <<blk, order, todo>>
    <2>1. PICK e : e = (m.enc \/ "enc" \in frame.has)
      OBVIOUS
    <2>2. PICK n : n = [m EXCEPT !.enc = e]
      OBVIOUS
    <2>3. Register(i, n) /\ todo' = <<Do("done", i)>>
      BY <1>2, <1>3, <1>6, <2>1, <2>2 DEF OnReasoningDone
    <2>4. ToSet(todo') = {Do("done", i)} /\ ~Has("push", i)'
      BY <2>3, FirstSets
    <2>5. /\ n.kind = m.kind /\ n.dropped = m.dropped /\ n.started = m.started
          /\ n.stopped = m.stopped /\ n.done = m.done /\ n.closing = m.closing
          /\ n.pending = m.pending /\ n.sent = m.sent /\ n.got = m.got /\ n.fullArgs = m.fullArgs
      BY <2>2 DEF Blocks
    <2>6. n.got = IF Has("push", i)' THEN m.got + 1 ELSE m.got
      BY <2>4, <2>5, Zenon
    <2> QED
      BY <1>1, <1>2, <1>3, <2>3, <2>4, <2>5, <2>6, RegisterData
  <1> QED
    BY <1>5, <1>6

\* The end of a summary text, and of a message item.
LEMMA OtherItemData == ASSUME Running, DataInv, OnReasoningTextDone \/ OnMessageDone PROVE DataInv'
  <1>1. CASE OnReasoningTextDone
    <2>1. /\ Take("reasoningTextDone") /\ "reasoningTextDone" \in ItemTypes
          /\ UNCHANGED <<blk, order>> /\ todo' = <<>>
      BY <1>1 DEF OnReasoningTextDone, ItemTypes, Take, Selecting
    <2> QED
      BY <2>1, LeftAlone
  <1>2. CASE OnMessageDone
    <2>1. Take("messageDone") /\ "messageDone" \in ItemTypes /\ UNCHANGED <<blk, order>>
      BY <1>2 DEF OnMessageDone, ItemTypes
    <2>2. PICK i \in OutIdx :
             /\ i = frame.i /\ KindOf[i] \in Kinds
             /\ \E s \in Stages : <<s, "messageDone", up[i]>> \in Lifecycle[KindOf[i]]
      BY <2>1, Found
    <2>3. KindOf[i] = "text" /\ up[i] = "gone"
      BY <2>2, LifecycleFacts
    <2>4. todo' = IF blk[i].kind = "none" THEN <<>> ELSE <<Do("done", i)>>
      BY <1>2, <2>2 DEF OnMessageDone
    <2> QED
      BY <2>1, <2>2, <2>3, <2>4, LeftAlone
  <1> QED
    BY <1>1, <1>2

\* The stacks of what is about no block.
LEMMA FirstAlone ==
    ASSUME NEW op \in {"ping", "clean", "abort"},
           todo' \in {<<>>, <<Start>>, <<Start, Do("clean", None)>>, <<Do(op, None)>>}
    PROVE  \A y \in ToSet(todo') : y.op \in {"start", "clean", "abort", "ping"} /\ y.i = None
  <1>1. Start \in Cmds /\ Do("clean", None) \in Cmds /\ Do(op, None) \in Cmds
    BY DoTypes DEF Ops, Start
  <1>2. /\ ToSet(<<>>) = {} /\ ToSet(<<Start>>) = {Start}
        /\ ToSet(<<Start, Do("clean", None)>>) = {Start, Do("clean", None)}
        /\ ToSet(<<Do(op, None)>>) = {Do(op, None)}
    BY <1>1, StackSets
  <1>3. ToSet(todo') \subseteq {Start, Do("clean", None), Do(op, None)}
    <2>1. CASE todo' = <<>>
      BY <1>2, <2>1, Zenon
    <2>2. CASE todo' = <<Start>>
      BY <1>2, <2>2, Zenon
    <2>3. CASE todo' = <<Start, Do("clean", None)>>
      BY <1>2, <2>3, Zenon
    <2>4. CASE todo' = <<Do(op, None)>>
      BY <1>2, <2>4, Zenon
    <2> QED
      BY <2>1, <2>2, <2>3, <2>4, Zenon
  <1> QED
    BY <1>3, DoInjective DEF Start

\* The frames that are about no item.
LEMMA StreamFrameData ==
    ASSUME Running, DataInv, OnIgnored \/ OnCreated \/ OnCompleted
    PROVE  DataInv'
  <1>1. PICK type : Take(type)
    BY DEF OnIgnored, OnCreated, OnCompleted
  <1>2. Selecting /\ frame' = NoFrame /\ UNCHANGED <<up, terminus, ended, blk, order>>
    BY <1>1 DEF Take, OnIgnored, OnCreated, OnCompleted
  <1>3. todo' \in {<<>>, <<Start>>, <<Start, Do("clean", None)>>}
    BY <1>2 DEF Selecting, OnIgnored, OnCreated, OnCompleted
  <1>4. \A y \in ToSet(todo') : y.op \in {"start", "clean", "abort", "ping"} /\ y.i = None
    BY <1>3, FirstAlone
  <1> QED
    BY <1>2, <1>4, NoBlockData

\* A failure, an end, silence and the heartbeat.
LEMMA EndingData ==
    ASSUME Running, DataInv, OnFailed \/ OnEnd \/ OnIdle \/ Heartbeat
    PROVE  DataInv'
  <1>1. CASE Selecting /\ FailUnstarted
    BY <1>1, EndData
  <1>2. ASSUME Selecting, UNCHANGED <<up, terminus, ended, blk, order>>, frame' \in {frame, NoFrame},
               NEW op \in {"ping", "clean", "abort"}, todo' = <<Do(op, None)>>
        PROVE  DataInv'
    <2>1. \A y \in ToSet(todo') : y.op \in {"start", "clean", "abort", "ping"} /\ y.i = None
      BY <1>2, FirstAlone
    <2> QED
      BY <1>2, <2>1, NoBlockData
  <1>3. CASE OnFailed
    <2>1. CASE started /\ Take("failed") /\ todo' = <<Do("abort", None)>> /\ UNCHANGED <<blk, order>>
      BY <1>2, <2>1 DEF Take
    <2> QED
      BY <1>1, <1>3, <2>1 DEF OnFailed
  <1>4. CASE Heartbeat
    BY <1>2, <1>4 DEF Heartbeat, core, loop
  <1>5. CASE OnEnd \/ OnIdle
    <2>1. PICK clean \in BOOLEAN : Selecting /\ HandleEnd(clean)
      BY <1>5 DEF OnEnd, OnIdle
    <2>2. CASE started
      <3>1. PICK op \in {"clean", "abort"} : todo' = <<Do(op, None)>>
        BY <2>1, <2>2 DEF HandleEnd
      <3>2. UNCHANGED <<up, terminus, ended, blk, order, frame>>
        BY <2>1, <2>2 DEF HandleEnd, core, loop
      <3> QED
        BY <1>2, <2>1, <3>1, <3>2
    <2>3. CASE ~started
      BY <1>1, <2>1, <2>3 DEF HandleEnd
    <2> QED
      BY <2>2, <2>3
  <1> QED
    BY <1>3, <1>4, <1>5

\* The upstream and the idle timer leave the translator alone.
LEMMA OfferData ==
    ASSUME DataInv, UNCHANGED <<blk, order, todo, ended, terminus>>, FrameInOrder',
           \A j \in OutIdx : Sealed(j) => Sealed(j)'
    PROVE  DataInv'
  <1>1. KindKept' /\ Known'
    BY DEF DataInv, KindKept, Known
  <1>2. Sealing'
    BY DEF DataInv, Sealing, Closes, Doomed, Has
  <1>3. Signing' /\ Whole' /\ Told' /\ AllSent'
    BY DEF DataInv, Signing, Signed, Erring, Whole, Told, AllSent, Has
  <1>4. Flowing'
    BY DEF DataInv, Flowing, InHand, Has
  <1> QED
    BY <1>1, <1>2, <1>3, <1>4 DEF DataInv

\* An orderly upstream says nothing of a sealed item but that it is complete.
LEMMA UpstreamData ==
    ASSUME Orderly, Running, DataInv, Upstream \/ IdleFires
    PROVE  DataInv'
  <1>1. UNCHANGED <<blk, order, todo, ended, terminus>>
    BY DEF Upstream, IdleFires, ReadItemFrame, ReadStreamFrame, ReadEnd, ReadFrame, core
  <1>2. CASE ReadEnd \/ IdleFires
    <2>1. UNCHANGED <<up, frame>>
      BY <1>2 DEF ReadEnd, IdleFires
    <2>2. FrameInOrder' /\ \A j \in OutIdx : Sealed(j) => Sealed(j)'
      BY <1>1, <2>1 DEF DataInv, FrameInOrder, Sealed
    <2> QED
      BY <1>1, <2>2, OfferData
  <1>3. CASE ReadStreamFrame
    <2>1. PICK type \in StreamTypes : ReadFrame(type, None) /\ UNCHANGED up
      BY <1>3 DEF ReadStreamFrame
    <2>2. frame'.type = type /\ frame'.i = None
      BY <2>1 DEF ReadFrame
    <2>3. FrameInOrder'
      BY <2>1, <2>2 DEF DataInv, FrameInOrder, StreamTypes, ItemTypes
    <2>4. \A j \in OutIdx : Sealed(j) => Sealed(j)'
      BY <1>1, <2>1, <2>2, TranslatorAssumption DEF Sealed
    <2> QED
      BY <1>1, <2>3, <2>4, OfferData
  <1>4. CASE ReadItemFrame
    <2>1. PICK type \in ItemTypes, i \in OutIdx, s \in {"open", "closed", "gone"} :
             /\ ReadFrame(type, i) /\ <<up[i], type, s>> \in Lifecycle[KindOf[i]]
             /\ up' = [up EXCEPT ![i] = s]
      BY <1>4 DEF ReadItemFrame
    <2>2. /\ frame'.type = type /\ frame'.i = i /\ (type = "argsDone" => frame'.has = {"args"})
          /\ frame = NoFrame
      BY <2>1 DEF ReadFrame
    <2>3. /\ up \in [OutIdx -> Stages] /\ up' \in [OutIdx -> Stages] /\ up'[i] = s
          /\ \A j \in OutIdx \ {i} : up'[j] = up[j]
      BY <2>1 DEF DataInv, FrameInOrder, Stages
    <2>4. KindOf[i] \in Kinds
      BY TranslatorAssumption
    <2>5. FrameInOrder'
      <3>1. \E z \in Stages : <<z, type, s>> \in Lifecycle[KindOf[i]]
        BY <2>1, <2>3
      <3> QED
        BY <2>2, <2>3, <3>1 DEF FrameInOrder
    <2>6. up[i] = "closed" => type \in {"messageDone", "toolDone"} /\ s = "gone"
      BY <2>1, <2>4, LifecycleFacts
    <2>7. up[i] # "gone"
      BY <2>1, <2>4, LifecycleFacts
    <2>8. ASSUME NEW j \in OutIdx, Sealed(j) PROVE Sealed(j)'
      <3>1. CASE j # i
        BY <1>1, <2>2, <2>3, <2>8, <3>1 DEF Sealed
      <3>2. CASE j = i
        BY <1>1, <2>2, <2>3, <2>6, <2>7, <2>8, <3>2 DEF Sealed
      <3> QED
        BY <3>1, <3>2
    <2> QED
      BY <1>1, <2>5, <2>8, OfferData
  <1> QED
    BY <1>2, <1>3, <1>4 DEF Upstream

-----------------------------------------------------------------------------
(* Theorems *)

LEMMA InitData == Init => DataInv
  <1> SUFFICES ASSUME Init PROVE DataInv
    OBVIOUS
  <1>1. /\ \A i \in OutIdx : blk[i] = Unseen
        /\ todo = <<>> /\ order = <<>> /\ ended = "no" /\ terminus = "none" /\ frame = NoFrame
        /\ up = [i \in OutIdx |-> "new"]
    BY DEF Init
  <1>2. ToSet(todo) = {}
    BY <1>1, StackSets
  <1>3. \A op, i : ~Has(op, i)
    BY <1>2 DEF Has
  <1>4. KindKept
    <2>1. Unseen.kind = "none" /\ ~Unseen.dropped /\ ~Unseen.stopped
      BY DEF Unseen
    <2> QED
      BY <1>1, <2>1 DEF KindKept
  <1>5. Known
    BY <1>2 DEF Known
  <1>6. FrameInOrder
    BY <1>1 DEF FrameInOrder, NoFrame, ItemTypes, Stages
  <1>7. Sealing
    BY <1>1, <1>3 DEF Sealing, Closes, Unseen
  <1>8. Signing
    BY <1>1, <1>3 DEF Signing, Unseen
  <1>9. Whole /\ Told /\ AllSent
    BY <1>1, <1>3 DEF Whole, Told, AllSent
  <1>10. Flowing
    <2>1. \A i \in OutIdx : ~InHand(i)
      BY <1>3 DEF InHand
    <2>2. Unseen.sent = 0 /\ Unseen.got = 0 /\ Unseen.pending = <<>>
      BY DEF Unseen
    <2>3. Flow(Unseen, 0)
      BY <2>2, FlowEmpty
    <2>4. ASSUME NEW i \in OutIdx
          PROVE  Flow(blk[i], IF InHand(i) THEN blk[i].got - 1 ELSE blk[i].got)
      BY <1>1, <2>1, <2>2, <2>3, <2>4, Zenon
    <2> QED
      BY <1>1, <2>1, <2>2, <2>4 DEF Flowing
  <1> QED
    BY <1>4, <1>5, <1>6, <1>7, <1>8, <1>9, <1>10 DEF DataInv

\* One step per function.
LEMMA HandleData == ASSUME Running, DataInv, Handle PROVE DataInv'
  <1>1. CASE EnsureStarted \/ SayPing \/ SayMessageDelta
    BY <1>1, PlainData
  <1>2. CASE OpenBlock
    BY <1>2, OpenBlockData
  <1>3. CASE FlushPending
    BY <1>3, FlushPendingData
  <1>4. CASE PushDelta
    BY <1>4, PushDeltaData
  <1>5. CASE EmitDelta
    BY <1>5, EmitDeltaData
  <1>6. CASE MarkDoneOrClose
    BY <1>6, MarkDoneOrCloseData
  <1>7. CASE StopBlock
    BY <1>7, StopBlockData
  <1>8. CASE SayClosing
    BY <1>8, SayClosingData
  <1>9. CASE SayBlockStop
    BY <1>9, SayBlockStopData
  <1>10. CASE DrainNext
    BY <1>10, DrainNextData
  <1>11. CASE FinalizeAllBlocks
    BY <1>11, FinalizeAllBlocksData
  <1>12. CASE FinalizeClean
    BY <1>12, FinalizeCleanData
  <1>13. CASE SayMessageStop
    BY <1>13, SayMessageStopData
  <1>14. CASE EmitMidStreamError
    BY <1>14, EmitMidStreamErrorData
  <1>15. CASE SayError
    BY <1>15, SayErrorData
  <1> QED
    BY <1>1, <1>2, <1>3, <1>4, <1>5, <1>6, <1>7, <1>8, <1>9, <1>10, <1>11, <1>12, <1>13, <1>14,
       <1>15 DEF Handle

\* One step per handler of the select loop.
LEMMA SelectData == ASSUME Running, DataInv, Select PROVE DataInv'
  <1>1. CASE OnIgnored \/ OnCreated \/ OnCompleted
    BY <1>1, StreamFrameData
  <1>2. CASE OnReasoningTextDone \/ OnMessageDone
    BY <1>2, OtherItemData
  <1>3. CASE OnPartAdded \/ OnReasoningPart
    BY <1>3, PartData
  <1>4. CASE OnDelta("textDelta", "text") \/ OnDelta("reasoningDelta", "thinking")
             \/ OnDelta("argsDelta", "tool")
    BY <1>4, OnDeltaData
  <1>5. CASE OnTextDone
    BY <1>5, OnTextDoneData
  <1>6. CASE OnToolAdded
    BY <1>6, OnToolAddedData
  <1>7. CASE OnArgsDone
    BY <1>7, OnArgsDoneData
  <1>8. CASE OnToolDone
    BY <1>8, OnToolDoneData
  <1>9. CASE OnReasoningDone
    BY <1>9, OnReasoningDoneData
  <1>10. CASE OnFailed \/ OnEnd \/ OnIdle
    BY <1>10, EndingData
  <1>11. CASE Return
    BY <1>11, EndData
  <1> QED
    BY <1>1, <1>2, <1>3, <1>4, <1>5, <1>6, <1>7, <1>8, <1>9, <1>10, <1>11 DEF Select

\* Every step of an orderly stream keeps DataInv.
LEMMA StepData ==
    ASSUME Orderly, TranslatorInv, DataInv, [Next]_vars
    PROVE  DataInv'
  <1>1. CASE UNCHANGED vars
    <2>1. UNCHANGED <<blk, order, todo, ended, terminus, up, frame>>
      BY <1>1 DEF vars, core, loop
    <2>2. FrameInOrder' /\ \A j \in OutIdx : Sealed(j) => Sealed(j)'
      BY <2>1 DEF DataInv, FrameInOrder, Sealed
    <2> QED
      BY <2>1, <2>2, OfferData
  <1>2. CASE Upstream \/ IdleFires
    <2>1. ended = "no"
      BY <1>2 DEF Upstream, IdleFires, ReadItemFrame, ReadStreamFrame, ReadEnd, ReadFrame, Live
    <2> QED
      BY <1>2, <2>1, UpstreamData DEF TranslatorInv
  <1>3. CASE Heartbeat
    BY <1>3, EndingData DEF TranslatorInv, Heartbeat, Selecting
  <1>4. CASE Interrupt
    BY <1>4, EndData DEF TranslatorInv, Interrupt, Selecting
  <1>5. CASE Select
    <2>1. ended = "no"
      BY <1>5 DEF Select, OnIgnored, OnReasoningTextDone, OnCreated, OnPartAdded, OnReasoningPart,
                  OnDelta, OnTextDone, OnToolAdded, OnArgsDone, OnToolDone, OnReasoningDone,
                  OnMessageDone, OnCompleted, OnFailed, OnEnd, OnIdle, Return, Take, Selecting
    <2> QED
      BY <1>5, <2>1, SelectData DEF TranslatorInv
  <1>6. CASE Handle
    <2>1. ended = "no"
      BY <1>6 DEF Handle, EnsureStarted, OpenBlock, FlushPending, PushDelta, EmitDelta, MarkDoneOrClose,
                  StopBlock, SayClosing, SayBlockStop, DrainNext, FinalizeAllBlocks, FinalizeClean,
                  SayMessageDelta, SayMessageStop, EmitMidStreamError, SayError, SayPing, At
    <2> QED
      BY <1>6, <2>1, HandleData DEF TranslatorInv
  <1>7. CASE SinkFails
    BY <1>7, EndData DEF TranslatorInv, SinkFails
  <1> QED
    BY <1>1, <1>2, <1>3, <1>4, <1>5, <1>6, <1>7 DEF Next

\* The inductive argument, for an orderly upstream.
LEMMA DataInvariant ==
    ASSUME Orderly
    PROVE  Spec => [](TranslatorInv /\ DataInv)
  <1>1. Init => TranslatorInv /\ DataInv
    BY InitSimulated, InitData
  <1>2. TranslatorInv /\ DataInv /\ [Next]_vars => TranslatorInv' /\ DataInv'
    BY TranslatorStep, StepData
  <1> QED
    BY <1>1, <1>2, PTL DEF Spec

\* However its items interleave, what a block of an orderly stream holds back is
\* what came and has not gone out, in order; and a stream that ends cleanly has
\* told everything (pushDelta, flushPending, finalizeAllBlocks).
THEOREM StreamLosesNothing ==
    ASSUME Orderly
    PROVE  Spec => []NothingLost
  <1>1. DataInv => NothingLost
    <2> SUFFICES ASSUME DataInv PROVE NothingLost
      OBVIOUS
    <2>1. ASSUME NEW i \in OutIdx, ~blk[i].dropped
          PROVE  \E n \in {blk[i].got - 1, blk[i].got} : Flow(blk[i], n)
      <3>1. CASE ended = "no"
        <4>1. Flow(blk[i], IF InHand(i) THEN blk[i].got - 1 ELSE blk[i].got)
          BY <2>1, <3>1 DEF DataInv, Flowing
        <4> QED
          BY <4>1, Zenon
      <3>2. CASE ended # "no"
        BY <2>1, <3>2 DEF DataInv, Flowing
      <3> QED
        BY <3>1, <3>2
    <2>2. terminus = "clean" =>
             \A i \in OutIdx : \/ blk[i].kind = "none" \/ blk[i].dropped
                               \/ (blk[i].stopped /\ blk[i].sent = blk[i].got)
      BY DEF DataInv, AllSent
    <2> QED
      BY <2>1, <2>2 DEF NothingLost, Flow
  <1> QED
    BY <1>1, DataInvariant, PTL

\* A stream that ends cleanly presents no tool call cut off inside its arguments,
\* and one whose arguments came only in full carries them (finalizeClean, stopBlock).
THEOREM StreamArgumentsWhole == Spec => []ArgumentsWhole
  <1>1. CASE Orderly
    <2>1. DataInv => ArgumentsWhole
      <3> SUFFICES ASSUME DataInv, terminus = "clean", NEW i \in OutIdx, blk[i].kind = "tool"
                   PROVE  IF blk[i].argsSeen THEN blk[i].argsDone
                          ELSE blk[i].fullArgs => blk[i].closing = "full"
        BY DEF ArgumentsWhole
      <3>1. blk[i].argsSeen => blk[i].argsDone
        BY DEF DataInv, Whole, PartialTool
      <3>2. ASSUME ~blk[i].argsSeen, blk[i].fullArgs PROVE blk[i].closing = "full"
        <4>1. blk[i].stopped /\ ~Has("error", None)
          BY DEF DataInv, AllSent, KindKept
        <4>2. ~Erring
          BY <4>1 DEF Erring
        <4>3. Closing(blk[i]) = "full"
          BY <3>2 DEF Closing
        <4>4. Signed(i)
          BY <4>1 DEF DataInv, Signing
        <4> QED
          BY <4>2, <4>3, <4>4 DEF Signed
      <3> QED
        BY <3>1, <3>2
    <2> QED
      BY <1>1, <2>1, DataInvariant, PTL
  <1>2. CASE ~Orderly
    <2>1. ArgumentsWhole
      BY <1>2 DEF ArgumentsWhole
    <2> QED
      BY <2>1, PTL
  <1> QED
    BY <1>1, <1>2

\* The encrypted content of a reasoning item goes out in the signature of its
\* block, which is never closed before it came (onItemDone, stopBlock).
THEOREM StreamSignaturesCarryContent == Spec => []SignatureCarriesContent
  <1>1. CASE Orderly
    <2>1. DataInv => SignatureCarriesContent
      <3> SUFFICES ASSUME DataInv, NEW i \in OutIdx,
                          blk[i].kind = "thinking", blk[i].stopped, blk[i].enc
                   PROVE  blk[i].closing = "enc"
        BY DEF SignatureCarriesContent
      <3>1. Closing(blk[i]) = "enc"
        BY DEF Closing
      <3>2. Signed(i)
        BY DEF DataInv, Signing
      <3> QED
        BY <3>1, <3>2 DEF Signed
    <2> QED
      BY <1>1, <2>1, DataInvariant, PTL
  <1>2. CASE ~Orderly
    <2>1. SignatureCarriesContent
      BY <1>2 DEF SignatureCarriesContent
    <2> QED
      BY <2>1, PTL
  <1> QED
    BY <1>1, <1>2

=============================================================================
