--------------------------- MODULE ConversationProof ---------------------------
(***************************************************************************)
(* What goes upstream, for any conversation: of any length, any number of  *)
(* changes of model, and any tools, turns and tool changes the constants   *)
(* offer.                                                                  *)
(*                                                                         *)
(* A request is a function of the history, so the inductive invariant is   *)
(* about the history (HistoryInv: its messages are not empty and every     *)
(* result follows its call), about the calls it leaves open being the last *)
(* answer's (LeftInv) and about the request under way being made from it   *)
(* (SentInv).  The rest is what each leg's loops compute, proved           *)
(* by induction over the sequence they walk:                               *)
(*   Strip     the relays take out exactly the blocks they mean to         *)
(*   WalkOK    the walk of translateMessages has said all that the blocks  *)
(*             it took say, in order, has no result without its call and   *)
(*             leaves open what they leave open                            *)
(*   SetOK     the tool set says of each name what the blocks read so far  *)
(*             declare and take away                                       *)
(* CachedPrefixMatches needs one more pair, SeenInv and KeyInv: what the   *)
(* Codex model has seen is what some first part of the history says.       *)
(***************************************************************************)
EXTENDS Conversation, SequenceTheorems, WellFoundedInduction, TLAPS

-----------------------------------------------------------------------------
(* Induction.  The library's induction theorems take a predicate, which the  *)
(* provers cannot instantiate; over sets they can be cited.                  *)

\* A set of numbers that is not empty has a least one.
LEMMA LeastNat ==
    ASSUME NEW T, T \subseteq Nat, T # {}
    PROVE  \E m \in T : \A k \in T : m <= k
  <1>1. PICK x \in T : \A y \in T : ~ (<<y, x>> \in OpToRel(<, Nat))
    BY WFMin, NatLessThanWellFounded
  <1>2. \A y \in T : ~ (y < x)
    BY <1>1 DEF OpToRel
  <1> QED
    BY <1>2

\* A set that holds 0 and, with a number, the next one holds them all.
LEMMA NatSetInduction ==
    ASSUME NEW T, 0 \in T, \A k \in Nat : k \in T => k + 1 \in T
    PROVE  \A k \in Nat : k \in T
  <1> SUFFICES ASSUME NEW n \in Nat, n \notin T PROVE FALSE
    OBVIOUS
  <1>1. PICK m \in {k \in Nat : k \notin T} : \A k \in {j \in Nat : j \notin T} : m <= k
    BY LeastNat
  <1>2. m # 0 /\ m - 1 \in Nat
    BY <1>1
  <1>3. m - 1 \in T
    BY <1>1, <1>2
  <1>4. (m - 1) + 1 \in T
    BY <1>2, <1>3
  <1> QED
    BY <1>1, <1>2, <1>4

\* The same up to a bound.
LEMMA UpToInduction ==
    ASSUME NEW N \in Nat, NEW T, 0 \in T, \A k \in 0..(N - 1) : k \in T => k + 1 \in T
    PROVE  \A k \in 0..N : k \in T
  <1> DEFINE U == {k \in Nat : k <= N => k \in T}
  <1>1. 0 \in U
    OBVIOUS
  <1>2. \A k \in Nat : k \in U => k + 1 \in U
    OBVIOUS
  <1> HIDE DEF U
  <1>3. \A k \in Nat : k \in U
    BY <1>1, <1>2, NatSetInduction
  <1> QED
    BY <1>3 DEF U

\* A set that holds the empty sequence and, with a sequence, each one that is
\* longer by an element holds them all.
LEMMA SeqSetInduction ==
    ASSUME NEW S, NEW T, <<>> \in T,
           \A s \in Seq(S), x \in S : s \in T => Append(s, x) \in T
    PROVE  \A s \in Seq(S) : s \in T
  <1> DEFINE U == {n \in Nat : \A s \in Seq(S) : Len(s) = n => s \in T}
  <1>1. 0 \in U
    BY EmptySeq
  <1>2. \A k \in Nat : k \in U => k + 1 \in U
    <2> SUFFICES ASSUME NEW k \in Nat, k \in U, NEW s \in Seq(S), Len(s) = k + 1
                 PROVE  s \in T
      OBVIOUS
    <2>1. s # <<>>
      OBVIOUS
    <2>2. PICK t \in Seq(S), x \in S : s = Append(t, x)
      BY <2>1, SequenceEmptyOrAppend
    <2>3. Len(t) = k
      BY <2>2
    <2> QED
      BY <2>2, <2>3
  <1> HIDE DEF U
  <1>3. \A k \in Nat : k \in U
    BY <1>1, <1>2, NatSetInduction
  <1> QED
    BY <1>3 DEF U

-----------------------------------------------------------------------------
(* Loops: what each is for the empty sequence and for one more element.     *)

\* Without looks at one element after the other.
LEMMA WithoutStep ==
    ASSUME NEW S, NEW s \in Seq(S), NEW x \in S, NEW gone
    PROVE  /\ Without(<<>>, gone) = <<>>
           /\ Without(Append(s, x), gone) = IF x \in gone THEN Without(s, gone) ELSE Append(Without(s, gone), x)
  <1> DEFINE Step(v, e) == IF e \in gone THEN v ELSE Append(v, e)
             Loop(f, t, n) == f = [i \in 0..n |-> IF i = 0 THEN <<>> ELSE Step(f[i - 1], t[i])]
             Run(t) == CHOOSE f : Loop(f, t, Len(t))
  <1>0. \A t : Without(t, gone) = Run(t)[Len(t)]
    BY DEF Without
  <1> HIDE DEF Step
  <1>1. ASSUME NEW t, NEW n \in Nat PROVE \E f : Loop(f, t, n)
    <2> DEFINE T == {k \in Nat : \E f : Loop(f, t, k)}
    <2>1. 0 \in T
      <3>1. Loop([i \in 0..0 |-> <<>>], t, 0)
        OBVIOUS
      <3> QED
        BY <3>1
    <2>2. ASSUME NEW k \in Nat, k \in T PROVE k + 1 \in T
      <3>1. PICK f : Loop(f, t, k)
        BY <2>2
      <3> DEFINE g == [i \in 0..(k + 1) |-> IF i = k + 1 THEN Step(f[k], t[k + 1]) ELSE f[i]]
                 h == [i \in 0..(k + 1) |-> IF i = 0 THEN <<>> ELSE Step(g[i - 1], t[i])]
      <3>2. ASSUME NEW i \in 0..(k + 1) PROVE g[i] = h[i]
        <4>1. CASE i = 0
          BY <3>1, <4>1
        <4>2. CASE i = k + 1
          <5>1. i - 1 = k /\ i # 0 /\ k \in 0..(k + 1) /\ k # k + 1
            BY <4>2
          <5> QED
            BY <4>2, <5>1
        <4>3. CASE i # 0 /\ i # k + 1
          <5>1. i \in 0..k /\ i - 1 \in 0..(k + 1) /\ i - 1 # k + 1
            BY <4>3
          <5>2. f[i] = Step(f[i - 1], t[i])
            BY <3>1, <4>3, <5>1
          <5> QED
            BY <4>3, <5>1, <5>2
        <4> QED
          BY <4>1, <4>2, <4>3
      <3>3. g = h
        BY <3>2
      <3>4. Loop(g, t, k + 1)
        BY <3>3
      <3> HIDE DEF g
      <3> QED
        BY <3>4
    <2> HIDE DEF T
    <2>3. n \in T
      BY <2>1, <2>2, NatSetInduction
    <2> QED
      BY <2>3 DEF T
  <1>2. \A t : Len(t) \in Nat => Loop(Run(t), t, Len(t))
    BY <1>1, Zenon
  <1> HIDE DEF Loop, Run
  <1>3. /\ Len(<<>>) = 0 /\ Len(s) \in Nat /\ Len(Append(s, x)) = Len(s) + 1
        /\ Append(s, x)[Len(s) + 1] = x
        /\ \A i \in 1..Len(s) : Append(s, x)[i] = s[i]
    OBVIOUS
  <1>4. Without(<<>>, gone) = <<>>
    <2>1. Loop(Run(<<>>), <<>>, 0)
      BY <1>2, <1>3
    <2> QED
      BY <2>1, <1>0, <1>3 DEF Loop
  <1>5. Without(Append(s, x), gone) = Step(Without(s, gone), x)
    <2> DEFINE a == Run(s)
               t == Append(s, x)
               b == Run(t)
               n == Len(s)
    <2>1. Loop(a, s, n) /\ Loop(b, t, n + 1)
      <3>1. Len(t) \in Nat
        BY <1>3
      <3>2. Loop(Run(s), s, Len(s)) /\ Loop(Run(t), t, Len(t))
        BY <1>2, <1>3, <3>1, Zenon
      <3> QED
        BY <3>2, <1>3
    <2>2. /\ n \in Nat /\ t[n + 1] = x /\ Len(t) = n + 1
          /\ \A i \in 1..n : t[i] = s[i]
      BY <1>3
    <2>3. Without(t, gone) = b[n + 1] /\ Without(s, gone) = a[n]
      BY <1>0, <1>3, Zenon
    <2> HIDE DEF a, b, t, n
    <2> DEFINE T == {i \in 0..n : a[i] = b[i]}
    <2>4. 0 \in T
      BY <2>1, <2>2 DEF Loop
    <2>5. ASSUME NEW k \in 0..(n - 1), k \in T PROVE k + 1 \in T
      <3>1. /\ k + 1 \in 0..n /\ k + 1 \in 0..(n + 1) /\ k + 1 # 0 /\ (k + 1) - 1 = k
            /\ k + 1 \in 1..n
        BY <2>2, <2>5
      <3>2. a[k + 1] = Step(a[k], s[k + 1]) /\ b[k + 1] = Step(b[k], t[k + 1])
        BY <2>1, <3>1 DEF Loop
      <3> QED
        BY <2>2, <2>5, <3>1, <3>2
    <2> HIDE DEF T
    <2>6. n \in T
      <3>1. \A k \in 0..(n - 1) : k \in T => k + 1 \in T
        BY <2>5
      <3>2. \A k \in 0..n : k \in T
        BY <2>2, <2>4, <3>1, UpToInduction
      <3> QED
        BY <2>2, <3>2
    <2>7. a[n] = b[n]
      BY <2>6 DEF T
    <2>8. b[n + 1] = Step(b[n], t[n + 1])
      <3>1. n + 1 \in 0..(n + 1) /\ n + 1 # 0 /\ (n + 1) - 1 = n
        BY <2>2
      <3> QED
        BY <2>1, <3>1 DEF Loop
    <2> QED
      BY <2>2, <2>3, <2>7, <2>8 DEF t
  <1> QED
    BY <1>4, <1>5 DEF Step

\* So does the walk over the blocks of a message,
LEMMA TakeBlocksStep ==
    ASSUME NEW S, NEW s \in Seq(S), NEW x \in S, NEW w, NEW role
    PROVE  /\ TakeBlocks(w, role, <<>>) = w
           /\ TakeBlocks(w, role, Append(s, x)) = TakeBlock(TakeBlocks(w, role, s), role, x)
  <1> DEFINE Step(v, e) == TakeBlock(v, role, e)
             Loop(f, t, n) == f = [i \in 0..n |-> IF i = 0 THEN w ELSE Step(f[i - 1], t[i])]
             Run(t) == CHOOSE f : Loop(f, t, Len(t))
  <1>0. \A t : TakeBlocks(w, role, t) = Run(t)[Len(t)]
    BY DEF TakeBlocks
  <1> HIDE DEF Step
  <1>1. ASSUME NEW t, NEW n \in Nat PROVE \E f : Loop(f, t, n)
    <2> DEFINE T == {k \in Nat : \E f : Loop(f, t, k)}
    <2>1. 0 \in T
      <3>1. Loop([i \in 0..0 |-> w], t, 0)
        OBVIOUS
      <3> QED
        BY <3>1
    <2>2. ASSUME NEW k \in Nat, k \in T PROVE k + 1 \in T
      <3>1. PICK f : Loop(f, t, k)
        BY <2>2
      <3> DEFINE g == [i \in 0..(k + 1) |-> IF i = k + 1 THEN Step(f[k], t[k + 1]) ELSE f[i]]
                 h == [i \in 0..(k + 1) |-> IF i = 0 THEN w ELSE Step(g[i - 1], t[i])]
      <3>2. ASSUME NEW i \in 0..(k + 1) PROVE g[i] = h[i]
        <4>1. CASE i = 0
          BY <3>1, <4>1
        <4>2. CASE i = k + 1
          <5>1. i - 1 = k /\ i # 0 /\ k \in 0..(k + 1) /\ k # k + 1
            BY <4>2
          <5> QED
            BY <4>2, <5>1
        <4>3. CASE i # 0 /\ i # k + 1
          <5>1. i \in 0..k /\ i - 1 \in 0..(k + 1) /\ i - 1 # k + 1
            BY <4>3
          <5>2. f[i] = Step(f[i - 1], t[i])
            BY <3>1, <4>3, <5>1
          <5> QED
            BY <4>3, <5>1, <5>2
        <4> QED
          BY <4>1, <4>2, <4>3
      <3>3. g = h
        BY <3>2
      <3>4. Loop(g, t, k + 1)
        BY <3>3
      <3> HIDE DEF g
      <3> QED
        BY <3>4
    <2> HIDE DEF T
    <2>3. n \in T
      BY <2>1, <2>2, NatSetInduction
    <2> QED
      BY <2>3 DEF T
  <1>2. \A t : Len(t) \in Nat => Loop(Run(t), t, Len(t))
    BY <1>1, Zenon
  <1> HIDE DEF Loop, Run
  <1>3. /\ Len(<<>>) = 0 /\ Len(s) \in Nat /\ Len(Append(s, x)) = Len(s) + 1
        /\ Append(s, x)[Len(s) + 1] = x
        /\ \A i \in 1..Len(s) : Append(s, x)[i] = s[i]
    OBVIOUS
  <1>4. TakeBlocks(w, role, <<>>) = w
    <2>1. Loop(Run(<<>>), <<>>, 0)
      BY <1>2, <1>3
    <2> QED
      BY <2>1, <1>0, <1>3 DEF Loop
  <1>5. TakeBlocks(w, role, Append(s, x)) = Step(TakeBlocks(w, role, s), x)
    <2> DEFINE a == Run(s)
               t == Append(s, x)
               b == Run(t)
               n == Len(s)
    <2>1. Loop(a, s, n) /\ Loop(b, t, n + 1)
      <3>1. Len(t) \in Nat
        BY <1>3
      <3>2. Loop(Run(s), s, Len(s)) /\ Loop(Run(t), t, Len(t))
        BY <1>2, <1>3, <3>1, Zenon
      <3> QED
        BY <3>2, <1>3
    <2>2. /\ n \in Nat /\ t[n + 1] = x /\ Len(t) = n + 1
          /\ \A i \in 1..n : t[i] = s[i]
      BY <1>3
    <2>3. TakeBlocks(w, role, t) = b[n + 1] /\ TakeBlocks(w, role, s) = a[n]
      BY <1>0, <1>3, Zenon
    <2> HIDE DEF a, b, t, n
    <2> DEFINE T == {i \in 0..n : a[i] = b[i]}
    <2>4. 0 \in T
      BY <2>1, <2>2 DEF Loop
    <2>5. ASSUME NEW k \in 0..(n - 1), k \in T PROVE k + 1 \in T
      <3>1. /\ k + 1 \in 0..n /\ k + 1 \in 0..(n + 1) /\ k + 1 # 0 /\ (k + 1) - 1 = k
            /\ k + 1 \in 1..n
        BY <2>2, <2>5
      <3>2. a[k + 1] = Step(a[k], s[k + 1]) /\ b[k + 1] = Step(b[k], t[k + 1])
        BY <2>1, <3>1 DEF Loop
      <3> QED
        BY <2>2, <2>5, <3>1, <3>2
    <2> HIDE DEF T
    <2>6. n \in T
      <3>1. \A k \in 0..(n - 1) : k \in T => k + 1 \in T
        BY <2>5
      <3>2. \A k \in 0..n : k \in T
        BY <2>2, <2>4, <3>1, UpToInduction
      <3> QED
        BY <2>2, <3>2
    <2>7. a[n] = b[n]
      BY <2>6 DEF T
    <2>8. b[n + 1] = Step(b[n], t[n + 1])
      <3>1. n + 1 \in 0..(n + 1) /\ n + 1 # 0 /\ (n + 1) - 1 = n
        BY <2>2
      <3> QED
        BY <2>1, <3>1 DEF Loop
    <2> QED
      BY <2>2, <2>3, <2>7, <2>8 DEF t
  <1> QED
    BY <1>4, <1>5 DEF Step

\* the walk over the messages,
LEMMA TranslateStep ==
    ASSUME NEW S, NEW s \in Seq(S), NEW x \in S
    PROVE  /\ translateMessages(<<>>) = NewWalk
           /\ translateMessages(Append(s, x)) = TakeMessage(translateMessages(s), x)
  <1> DEFINE Step(v, e) == TakeMessage(v, e)
             Loop(f, t, n) == f = [i \in 0..n |-> IF i = 0 THEN NewWalk ELSE Step(f[i - 1], t[i])]
             Run(t) == CHOOSE f : Loop(f, t, Len(t))
  <1>0. \A t : translateMessages(t) = Run(t)[Len(t)]
    BY DEF translateMessages
  <1> HIDE DEF Step
  <1>1. ASSUME NEW t, NEW n \in Nat PROVE \E f : Loop(f, t, n)
    <2> DEFINE T == {k \in Nat : \E f : Loop(f, t, k)}
    <2>1. 0 \in T
      <3>1. Loop([i \in 0..0 |-> NewWalk], t, 0)
        OBVIOUS
      <3> QED
        BY <3>1
    <2>2. ASSUME NEW k \in Nat, k \in T PROVE k + 1 \in T
      <3>1. PICK f : Loop(f, t, k)
        BY <2>2
      <3> DEFINE g == [i \in 0..(k + 1) |-> IF i = k + 1 THEN Step(f[k], t[k + 1]) ELSE f[i]]
                 h == [i \in 0..(k + 1) |-> IF i = 0 THEN NewWalk ELSE Step(g[i - 1], t[i])]
      <3>2. ASSUME NEW i \in 0..(k + 1) PROVE g[i] = h[i]
        <4>1. CASE i = 0
          BY <3>1, <4>1
        <4>2. CASE i = k + 1
          <5>1. i - 1 = k /\ i # 0 /\ k \in 0..(k + 1) /\ k # k + 1
            BY <4>2
          <5> QED
            BY <4>2, <5>1
        <4>3. CASE i # 0 /\ i # k + 1
          <5>1. i \in 0..k /\ i - 1 \in 0..(k + 1) /\ i - 1 # k + 1
            BY <4>3
          <5>2. f[i] = Step(f[i - 1], t[i])
            BY <3>1, <4>3, <5>1
          <5> QED
            BY <4>3, <5>1, <5>2
        <4> QED
          BY <4>1, <4>2, <4>3
      <3>3. g = h
        BY <3>2
      <3>4. Loop(g, t, k + 1)
        BY <3>3
      <3> HIDE DEF g
      <3> QED
        BY <3>4
    <2> HIDE DEF T
    <2>3. n \in T
      BY <2>1, <2>2, NatSetInduction
    <2> QED
      BY <2>3 DEF T
  <1>2. \A t : Len(t) \in Nat => Loop(Run(t), t, Len(t))
    BY <1>1, Zenon
  <1> HIDE DEF Loop, Run
  <1>3. /\ Len(<<>>) = 0 /\ Len(s) \in Nat /\ Len(Append(s, x)) = Len(s) + 1
        /\ Append(s, x)[Len(s) + 1] = x
        /\ \A i \in 1..Len(s) : Append(s, x)[i] = s[i]
    OBVIOUS
  <1>4. translateMessages(<<>>) = NewWalk
    <2>1. Loop(Run(<<>>), <<>>, 0)
      BY <1>2, <1>3
    <2> QED
      BY <2>1, <1>0, <1>3 DEF Loop
  <1>5. translateMessages(Append(s, x)) = Step(translateMessages(s), x)
    <2> DEFINE a == Run(s)
               t == Append(s, x)
               b == Run(t)
               n == Len(s)
    <2>1. Loop(a, s, n) /\ Loop(b, t, n + 1)
      <3>1. Len(t) \in Nat
        BY <1>3
      <3>2. Loop(Run(s), s, Len(s)) /\ Loop(Run(t), t, Len(t))
        BY <1>2, <1>3, <3>1, Zenon
      <3> QED
        BY <3>2, <1>3
    <2>2. /\ n \in Nat /\ t[n + 1] = x /\ Len(t) = n + 1
          /\ \A i \in 1..n : t[i] = s[i]
      BY <1>3
    <2>3. translateMessages(t) = b[n + 1] /\ translateMessages(s) = a[n]
      BY <1>0, <1>3, Zenon
    <2> HIDE DEF a, b, t, n
    <2> DEFINE T == {i \in 0..n : a[i] = b[i]}
    <2>4. 0 \in T
      BY <2>1, <2>2 DEF Loop
    <2>5. ASSUME NEW k \in 0..(n - 1), k \in T PROVE k + 1 \in T
      <3>1. /\ k + 1 \in 0..n /\ k + 1 \in 0..(n + 1) /\ k + 1 # 0 /\ (k + 1) - 1 = k
            /\ k + 1 \in 1..n
        BY <2>2, <2>5
      <3>2. a[k + 1] = Step(a[k], s[k + 1]) /\ b[k + 1] = Step(b[k], t[k + 1])
        BY <2>1, <3>1 DEF Loop
      <3> QED
        BY <2>2, <2>5, <3>1, <3>2
    <2> HIDE DEF T
    <2>6. n \in T
      <3>1. \A k \in 0..(n - 1) : k \in T => k + 1 \in T
        BY <2>5
      <3>2. \A k \in 0..n : k \in T
        BY <2>2, <2>4, <3>1, UpToInduction
      <3> QED
        BY <2>2, <3>2
    <2>7. a[n] = b[n]
      BY <2>6 DEF T
    <2>8. b[n + 1] = Step(b[n], t[n + 1])
      <3>1. n + 1 \in 0..(n + 1) /\ n + 1 # 0 /\ (n + 1) - 1 = n
        BY <2>2
      <3> QED
        BY <2>1, <3>1 DEF Loop
    <2> QED
      BY <2>2, <2>3, <2>7, <2>8 DEF t
  <1> QED
    BY <1>4, <1>5 DEF Step

\* the relays' removal of blocks,
LEMMA StripStep ==
    ASSUME NEW S, NEW s \in Seq(S), NEW x \in S, NEW gone
    PROVE  /\ Strip(<<>>, gone) = <<>>
           /\ Strip(Append(s, x), gone) = Stripped(Strip(s, gone), x, gone)
  <1> DEFINE Step(v, e) == Stripped(v, e, gone)
             Loop(f, t, n) == f = [i \in 0..n |-> IF i = 0 THEN <<>> ELSE Step(f[i - 1], t[i])]
             Run(t) == CHOOSE f : Loop(f, t, Len(t))
  <1>0. \A t : Strip(t, gone) = Run(t)[Len(t)]
    BY DEF Strip
  <1> HIDE DEF Step
  <1>1. ASSUME NEW t, NEW n \in Nat PROVE \E f : Loop(f, t, n)
    <2> DEFINE T == {k \in Nat : \E f : Loop(f, t, k)}
    <2>1. 0 \in T
      <3>1. Loop([i \in 0..0 |-> <<>>], t, 0)
        OBVIOUS
      <3> QED
        BY <3>1
    <2>2. ASSUME NEW k \in Nat, k \in T PROVE k + 1 \in T
      <3>1. PICK f : Loop(f, t, k)
        BY <2>2
      <3> DEFINE g == [i \in 0..(k + 1) |-> IF i = k + 1 THEN Step(f[k], t[k + 1]) ELSE f[i]]
                 h == [i \in 0..(k + 1) |-> IF i = 0 THEN <<>> ELSE Step(g[i - 1], t[i])]
      <3>2. ASSUME NEW i \in 0..(k + 1) PROVE g[i] = h[i]
        <4>1. CASE i = 0
          BY <3>1, <4>1
        <4>2. CASE i = k + 1
          <5>1. i - 1 = k /\ i # 0 /\ k \in 0..(k + 1) /\ k # k + 1
            BY <4>2
          <5> QED
            BY <4>2, <5>1
        <4>3. CASE i # 0 /\ i # k + 1
          <5>1. i \in 0..k /\ i - 1 \in 0..(k + 1) /\ i - 1 # k + 1
            BY <4>3
          <5>2. f[i] = Step(f[i - 1], t[i])
            BY <3>1, <4>3, <5>1
          <5> QED
            BY <4>3, <5>1, <5>2
        <4> QED
          BY <4>1, <4>2, <4>3
      <3>3. g = h
        BY <3>2
      <3>4. Loop(g, t, k + 1)
        BY <3>3
      <3> HIDE DEF g
      <3> QED
        BY <3>4
    <2> HIDE DEF T
    <2>3. n \in T
      BY <2>1, <2>2, NatSetInduction
    <2> QED
      BY <2>3 DEF T
  <1>2. \A t : Len(t) \in Nat => Loop(Run(t), t, Len(t))
    BY <1>1, Zenon
  <1> HIDE DEF Loop, Run
  <1>3. /\ Len(<<>>) = 0 /\ Len(s) \in Nat /\ Len(Append(s, x)) = Len(s) + 1
        /\ Append(s, x)[Len(s) + 1] = x
        /\ \A i \in 1..Len(s) : Append(s, x)[i] = s[i]
    OBVIOUS
  <1>4. Strip(<<>>, gone) = <<>>
    <2>1. Loop(Run(<<>>), <<>>, 0)
      BY <1>2, <1>3
    <2> QED
      BY <2>1, <1>0, <1>3 DEF Loop
  <1>5. Strip(Append(s, x), gone) = Step(Strip(s, gone), x)
    <2> DEFINE a == Run(s)
               t == Append(s, x)
               b == Run(t)
               n == Len(s)
    <2>1. Loop(a, s, n) /\ Loop(b, t, n + 1)
      <3>1. Len(t) \in Nat
        BY <1>3
      <3>2. Loop(Run(s), s, Len(s)) /\ Loop(Run(t), t, Len(t))
        BY <1>2, <1>3, <3>1, Zenon
      <3> QED
        BY <3>2, <1>3
    <2>2. /\ n \in Nat /\ t[n + 1] = x /\ Len(t) = n + 1
          /\ \A i \in 1..n : t[i] = s[i]
      BY <1>3
    <2>3. Strip(t, gone) = b[n + 1] /\ Strip(s, gone) = a[n]
      BY <1>0, <1>3, Zenon
    <2> HIDE DEF a, b, t, n
    <2> DEFINE T == {i \in 0..n : a[i] = b[i]}
    <2>4. 0 \in T
      BY <2>1, <2>2 DEF Loop
    <2>5. ASSUME NEW k \in 0..(n - 1), k \in T PROVE k + 1 \in T
      <3>1. /\ k + 1 \in 0..n /\ k + 1 \in 0..(n + 1) /\ k + 1 # 0 /\ (k + 1) - 1 = k
            /\ k + 1 \in 1..n
        BY <2>2, <2>5
      <3>2. a[k + 1] = Step(a[k], s[k + 1]) /\ b[k + 1] = Step(b[k], t[k + 1])
        BY <2>1, <3>1 DEF Loop
      <3> QED
        BY <2>2, <2>5, <3>1, <3>2
    <2> HIDE DEF T
    <2>6. n \in T
      <3>1. \A k \in 0..(n - 1) : k \in T => k + 1 \in T
        BY <2>5
      <3>2. \A k \in 0..n : k \in T
        BY <2>2, <2>4, <3>1, UpToInduction
      <3> QED
        BY <2>2, <3>2
    <2>7. a[n] = b[n]
      BY <2>6 DEF T
    <2>8. b[n + 1] = Step(b[n], t[n + 1])
      <3>1. n + 1 \in 0..(n + 1) /\ n + 1 # 0 /\ (n + 1) - 1 = n
        BY <2>2
      <3> QED
        BY <2>1, <3>1 DEF Loop
    <2> QED
      BY <2>2, <2>3, <2>7, <2>8 DEF t
  <1> QED
    BY <1>4, <1>5 DEF Step

\* and the tool set.
LEMMA ResolveStep ==
    ASSUME NEW S, NEW s \in Seq(S), NEW x \in S, NEW tools
    PROVE  /\ ResolveToolChanges(<<>>, tools) = NewToolSet(tools)
           /\ ResolveToolChanges(Append(s, x), tools) = Apply(ResolveToolChanges(s, tools), x)
  <1> DEFINE Step(v, e) == Apply(v, e)
             Loop(f, t, n) == f = [i \in 0..n |-> IF i = 0 THEN NewToolSet(tools) ELSE Step(f[i - 1], t[i])]
             Run(t) == CHOOSE f : Loop(f, t, Len(t))
  <1>0. \A t : ResolveToolChanges(t, tools) = Run(t)[Len(t)]
    BY DEF ResolveToolChanges
  <1> HIDE DEF Step
  <1>1. ASSUME NEW t, NEW n \in Nat PROVE \E f : Loop(f, t, n)
    <2> DEFINE T == {k \in Nat : \E f : Loop(f, t, k)}
    <2>1. 0 \in T
      <3>1. Loop([i \in 0..0 |-> NewToolSet(tools)], t, 0)
        OBVIOUS
      <3> QED
        BY <3>1
    <2>2. ASSUME NEW k \in Nat, k \in T PROVE k + 1 \in T
      <3>1. PICK f : Loop(f, t, k)
        BY <2>2
      <3> DEFINE g == [i \in 0..(k + 1) |-> IF i = k + 1 THEN Step(f[k], t[k + 1]) ELSE f[i]]
                 h == [i \in 0..(k + 1) |-> IF i = 0 THEN NewToolSet(tools) ELSE Step(g[i - 1], t[i])]
      <3>2. ASSUME NEW i \in 0..(k + 1) PROVE g[i] = h[i]
        <4>1. CASE i = 0
          BY <3>1, <4>1
        <4>2. CASE i = k + 1
          <5>1. i - 1 = k /\ i # 0 /\ k \in 0..(k + 1) /\ k # k + 1
            BY <4>2
          <5> QED
            BY <4>2, <5>1
        <4>3. CASE i # 0 /\ i # k + 1
          <5>1. i \in 0..k /\ i - 1 \in 0..(k + 1) /\ i - 1 # k + 1
            BY <4>3
          <5>2. f[i] = Step(f[i - 1], t[i])
            BY <3>1, <4>3, <5>1
          <5> QED
            BY <4>3, <5>1, <5>2
        <4> QED
          BY <4>1, <4>2, <4>3
      <3>3. g = h
        BY <3>2
      <3>4. Loop(g, t, k + 1)
        BY <3>3
      <3> HIDE DEF g
      <3> QED
        BY <3>4
    <2> HIDE DEF T
    <2>3. n \in T
      BY <2>1, <2>2, NatSetInduction
    <2> QED
      BY <2>3 DEF T
  <1>2. \A t : Len(t) \in Nat => Loop(Run(t), t, Len(t))
    BY <1>1, Zenon
  <1> HIDE DEF Loop, Run
  <1>3. /\ Len(<<>>) = 0 /\ Len(s) \in Nat /\ Len(Append(s, x)) = Len(s) + 1
        /\ Append(s, x)[Len(s) + 1] = x
        /\ \A i \in 1..Len(s) : Append(s, x)[i] = s[i]
    OBVIOUS
  <1>4. ResolveToolChanges(<<>>, tools) = NewToolSet(tools)
    <2>1. Loop(Run(<<>>), <<>>, 0)
      BY <1>2, <1>3
    <2> QED
      BY <2>1, <1>0, <1>3 DEF Loop
  <1>5. ResolveToolChanges(Append(s, x), tools) = Step(ResolveToolChanges(s, tools), x)
    <2> DEFINE a == Run(s)
               t == Append(s, x)
               b == Run(t)
               n == Len(s)
    <2>1. Loop(a, s, n) /\ Loop(b, t, n + 1)
      <3>1. Len(t) \in Nat
        BY <1>3
      <3>2. Loop(Run(s), s, Len(s)) /\ Loop(Run(t), t, Len(t))
        BY <1>2, <1>3, <3>1, Zenon
      <3> QED
        BY <3>2, <1>3
    <2>2. /\ n \in Nat /\ t[n + 1] = x /\ Len(t) = n + 1
          /\ \A i \in 1..n : t[i] = s[i]
      BY <1>3
    <2>3. ResolveToolChanges(t, tools) = b[n + 1] /\ ResolveToolChanges(s, tools) = a[n]
      BY <1>0, <1>3, Zenon
    <2> HIDE DEF a, b, t, n
    <2> DEFINE T == {i \in 0..n : a[i] = b[i]}
    <2>4. 0 \in T
      BY <2>1, <2>2 DEF Loop
    <2>5. ASSUME NEW k \in 0..(n - 1), k \in T PROVE k + 1 \in T
      <3>1. /\ k + 1 \in 0..n /\ k + 1 \in 0..(n + 1) /\ k + 1 # 0 /\ (k + 1) - 1 = k
            /\ k + 1 \in 1..n
        BY <2>2, <2>5
      <3>2. a[k + 1] = Step(a[k], s[k + 1]) /\ b[k + 1] = Step(b[k], t[k + 1])
        BY <2>1, <3>1 DEF Loop
      <3> QED
        BY <2>2, <2>5, <3>1, <3>2
    <2> HIDE DEF T
    <2>6. n \in T
      <3>1. \A k \in 0..(n - 1) : k \in T => k + 1 \in T
        BY <2>5
      <3>2. \A k \in 0..n : k \in T
        BY <2>2, <2>4, <3>1, UpToInduction
      <3> QED
        BY <2>2, <3>2
    <2>7. a[n] = b[n]
      BY <2>6 DEF T
    <2>8. b[n + 1] = Step(b[n], t[n + 1])
      <3>1. n + 1 \in 0..(n + 1) /\ n + 1 # 0 /\ (n + 1) - 1 = n
        BY <2>2
      <3> QED
        BY <2>1, <3>1 DEF Loop
    <2> QED
      BY <2>2, <2>3, <2>7, <2>8 DEF t
  <1> QED
    BY <1>4, <1>5 DEF Step

\* FlattenSeq: the last sequence comes last.
LEMMA FlattenStep ==
    ASSUME NEW S, NEW ss \in Seq(Seq(S)), NEW x \in Seq(S)
    PROVE  /\ FlattenSeq(<<>>) = <<>>
           /\ FlattenSeq(Append(ss, x)) = FlattenSeq(ss) \o x
           /\ FlattenSeq(ss) \in Seq(S)
  <1> DEFINE Loop(f, t, n) == f = [i \in 1..n |-> IF i = 1 THEN t[i] ELSE f[i - 1] \o t[i]]
             Run(t) == CHOOSE f : Loop(f, t, Len(t))
  <1>0. \A t : FlattenSeq(t) = IF Len(t) = 0 THEN t ELSE Run(t)[Len(t)]
    BY DEF FlattenSeq
  <1>1. ASSUME NEW t, NEW n \in Nat PROVE \E f : Loop(f, t, n)
    <2> DEFINE T == {k \in Nat : \E f : Loop(f, t, k)}
    <2>1. 0 \in T
      <3>1. Loop([i \in 1..0 |-> t], t, 0)
        OBVIOUS
      <3> QED
        BY <3>1
    <2>2. ASSUME NEW k \in Nat, k \in T PROVE k + 1 \in T
      <3>1. PICK f : Loop(f, t, k)
        BY <2>2
      <3> DEFINE g == [i \in 1..(k + 1) |->
                          IF i = k + 1 THEN IF k = 0 THEN t[1] ELSE f[k] \o t[k + 1] ELSE f[i]]
                 h == [i \in 1..(k + 1) |-> IF i = 1 THEN t[i] ELSE g[i - 1] \o t[i]]
      <3>2. ASSUME NEW i \in 1..(k + 1) PROVE g[i] = h[i]
        <4>1. CASE i = k + 1 /\ k = 0
          BY <4>1
        <4>2. CASE i = k + 1 /\ k # 0
          <5>1. i - 1 = k /\ i # 1 /\ k \in 1..(k + 1) /\ k # k + 1
            BY <4>2
          <5> QED
            BY <4>2, <5>1
        <4>3. CASE i # k + 1 /\ i = 1
          BY <3>1, <4>3
        <4>4. CASE i # k + 1 /\ i # 1
          <5>1. i \in 1..k /\ i - 1 \in 1..(k + 1) /\ i - 1 # k + 1
            BY <4>4
          <5>2. f[i] = f[i - 1] \o t[i]
            BY <3>1, <4>4, <5>1
          <5> QED
            BY <4>4, <5>1, <5>2
        <4> QED
          BY <4>1, <4>2, <4>3, <4>4
      <3>3. g = h
        BY <3>2
      <3>4. Loop(g, t, k + 1)
        BY <3>3
      <3> HIDE DEF g, Loop
      <3> QED
        BY <3>4
    <2> HIDE DEF T
    <2>3. n \in T
      BY <2>1, <2>2, NatSetInduction
    <2> QED
      BY <2>3 DEF T
  <1>2. \A t : Len(t) \in Nat => Loop(Run(t), t, Len(t))
    BY <1>1, Zenon
  <1> HIDE DEF Loop, Run
  <1>3. /\ Len(<<>>) = 0 /\ Len(ss) \in Nat /\ Len(Append(ss, x)) = Len(ss) + 1
        /\ Append(ss, x)[Len(ss) + 1] = x
        /\ \A i \in 1..Len(ss) : Append(ss, x)[i] = ss[i] /\ ss[i] \in Seq(S)
    OBVIOUS
  <1>4. FlattenSeq(<<>>) = <<>>
    BY <1>0, <1>3
  <1> DEFINE a == Run(ss)
             t == Append(ss, x)
             b == Run(t)
             n == Len(ss)
  <1>5. Loop(a, ss, n) /\ Loop(b, t, n + 1)
    <2>1. Len(t) \in Nat
      BY <1>3
    <2>2. Loop(Run(ss), ss, Len(ss)) /\ Loop(Run(t), t, Len(t))
      BY <1>2, <1>3, <2>1, Zenon
    <2> QED
      BY <2>2, <1>3
  <1>6. /\ n \in Nat /\ t[n + 1] = x /\ Len(t) = n + 1
        /\ \A i \in 1..n : t[i] = ss[i] /\ ss[i] \in Seq(S)
    BY <1>3
  <1>7. /\ FlattenSeq(t) = b[n + 1]
        /\ FlattenSeq(ss) = IF n = 0 THEN ss ELSE a[n]
        /\ n = 0 => ss = <<>>
    <2>1. Len(t) # 0
      BY <1>3
    <2>2. FlattenSeq(t) = Run(t)[Len(t)]
      BY <1>0, <2>1, Zenon
    <2> QED
      BY <1>0, <1>3, <2>2
  <1> HIDE DEF a, b, t, n
  <1> DEFINE T == {i \in 0..n : i # 0 => a[i] = b[i] /\ a[i] \in Seq(S)}
  <1>8. 0 \in T
    BY <1>6
  <1>9. ASSUME NEW k \in 0..(n - 1), k \in T PROVE k + 1 \in T
    <2>1. /\ k + 1 \in 0..n /\ k + 1 \in 1..(n + 1) /\ k + 1 \in 1..n /\ (k + 1) - 1 = k
          /\ (k + 1 = 1 <=> k = 0)
      BY <1>6, <1>9
    <2>2. /\ a[k + 1] = IF k = 0 THEN ss[k + 1] ELSE a[k] \o ss[k + 1]
          /\ b[k + 1] = IF k = 0 THEN t[k + 1] ELSE b[k] \o t[k + 1]
      BY <1>5, <2>1 DEF Loop
    <2>3. a[k + 1] = b[k + 1]
      BY <1>6, <1>9, <2>1, <2>2
    <2>4. a[k + 1] \in Seq(S)
      <3>1. ss[k + 1] \in Seq(S)
        BY <1>6, <2>1
      <3>2. k # 0 => a[k] \in Seq(S)
        BY <1>9
      <3> QED
        BY <2>2, <3>1, <3>2
    <2> QED
      BY <2>1, <2>3, <2>4
  <1> HIDE DEF T
  <1>10. n \in T
    <2>1. \A k \in 0..(n - 1) : k \in T => k + 1 \in T
      BY <1>9
    <2>2. \A k \in 0..n : k \in T
      BY <1>6, <1>8, <2>1, UpToInduction
    <2> QED
      BY <1>6, <2>2
  <1>11. b[n + 1] = IF n = 0 THEN x ELSE b[n] \o x
    <2>1. n + 1 \in 1..(n + 1) /\ (n + 1 = 1 <=> n = 0) /\ (n + 1) - 1 = n
      BY <1>6
    <2> QED
      BY <1>5, <1>6, <2>1 DEF Loop
  <1>12. FlattenSeq(ss) \in Seq(S)
    BY <1>6, <1>7, <1>10, EmptySeq DEF T
  <1>13. FlattenSeq(t) = FlattenSeq(ss) \o x
    <2>1. CASE n = 0
      BY <1>7, <1>11, <2>1, ConcatEmptySeq
    <2>2. CASE n # 0
      BY <1>7, <1>10, <1>11, <2>2 DEF T
    <2> QED
      BY <2>1, <2>2
  <1> QED
    BY <1>4, <1>12, <1>13 DEF t

-----------------------------------------------------------------------------
(* What the client may hold.                                                 *)

\* A numbered block: nobody mints a redacted thought, a tool change names a tool.
Blk ==
    {b \in [kind : Kinds, n : Nat, tag : Tags, tool : Names \cup {None} \cup Nat] :
        /\ b.kind = "redacted_thinking" => b.tag = "genuine"
        /\ IsChange(b) => b.tool \in Names}

\* Histories are sequences of these.
Msgs == [role : {"user", "assistant", "system"}, blocks : Seq(Blk)]

Reblocked(m, blocks) == [m EXCEPT !.blocks = blocks]

\* Messages made of messages.
LEMMA MsgFacts ==
    /\ \A m \in Msgs : m.blocks \in Seq(Blk)
    /\ \A m \in Msgs, b \in Seq(Blk) : Reblocked(m, b) \in Msgs /\ Reblocked(m, b).blocks = b
    /\ \A b \in Seq(Blk), r \in {"user", "assistant", "system"} :
          LET m == [role |-> r, blocks |-> b] IN m \in Msgs /\ m.blocks = b
  <1> DEFINE B == Seq(Blk)
  <1> HIDE DEF B
  <1>1. Msgs = [role : {"user", "assistant", "system"}, blocks : B]
    BY DEF Msgs, B
  <1>2. /\ \A m \in Msgs : m.blocks \in B
        /\ \A m \in Msgs, b \in B : Reblocked(m, b) \in Msgs /\ Reblocked(m, b).blocks = b
        /\ \A b \in B, r \in {"user", "assistant", "system"} :
              LET m == [role |-> r, blocks |-> b] IN m \in Msgs /\ m.blocks = b
    BY <1>1 DEF Reblocked
  <1> QED
    BY <1>2 DEF B

\* A comprehension over a sequence grows with it.
LEMMA BlocksStep ==
    ASSUME NEW ms \in Seq(Msgs), NEW m \in Msgs
    PROVE  /\ BlocksOf(<<>>) = <<>>
           /\ BlocksOf(Append(ms, m)) = BlocksOf(ms) \o m.blocks
           /\ BlocksOf(ms) \in Seq(Blk)
  <1> DEFINE F(t) == [i \in DOMAIN t |-> t[i].blocks]
  <1>1. F(<<>>) = <<>>
    OBVIOUS
  <1>0. \A k \in Msgs : k.blocks \in Seq(Blk)
    BY MsgFacts
  <1>2. F(ms) \in Seq(Seq(Blk)) /\ m.blocks \in Seq(Blk)
    <2>1. \A i \in 1..Len(ms) : ms[i].blocks \in Seq(Blk)
      <3>1. \A i \in 1..Len(ms) : ms[i] \in Msgs
        BY ElementOfSeq
      <3> QED
        BY <1>0, <3>1
    <2>2. F(ms) = [i \in 1..Len(ms) |-> ms[i].blocks]
      OBVIOUS
    <2> QED
      BY <1>0, <2>1, <2>2, IsASeq
  <1>3. F(Append(ms, m)) = Append(F(ms), m.blocks)
    <2>1. DOMAIN ms = 1..Len(ms) /\ DOMAIN Append(ms, m) = 1..(Len(ms) + 1)
      OBVIOUS
    <2>2. Len(F(ms)) = Len(ms)
      BY <1>2, <2>1, LenProperties
    <2>3. ASSUME NEW i \in 1..(Len(ms) + 1)
          PROVE  F(Append(ms, m))[i] = Append(F(ms), m.blocks)[i]
      BY <1>2, <2>1, <2>2
    <2>4. Append(F(ms), m.blocks) \in Seq(Seq(Blk)) /\ Len(Append(F(ms), m.blocks)) = Len(ms) + 1
      BY <1>2, <2>2
    <2> QED
      BY <2>1, <2>3, <2>4
  <1> HIDE DEF F
  <1> QED
    <2>1. BlocksOf(<<>>) = FlattenSeq(F(<<>>)) /\ BlocksOf(ms) = FlattenSeq(F(ms))
          /\ BlocksOf(Append(ms, m)) = FlattenSeq(F(Append(ms, m)))
      BY DEF BlocksOf, F
    <2> QED
      BY <1>1, <1>2, <1>3, <2>1, FlattenStep

\* The loops over nothing.
LEMMA LoopsEmpty ==
    /\ ToSet(<<>>) = {}
    /\ BlocksOf(<<>>) = <<>>
    /\ FlattenSeq(<<>>) = <<>>
    /\ translateMessages(<<>>) = NewWalk
    /\ \A gone : Without(<<>>, gone) = <<>> /\ Strip(<<>>, gone) = <<>>
    /\ \A w, role : TakeBlocks(w, role, <<>>) = w
    /\ \A tools : ResolveToolChanges(<<>>, tools) = NewToolSet(tools)
  <1> DEFINE S == {1}
             s == <<>>
             x == 1
  <1>1. s \in Seq(S) /\ x \in S /\ s \in Seq(Seq(S))
    BY EmptySeq
  <1> HIDE DEF S, x
  <1>2. \A gone : Without(<<>>, gone) = <<>>
    BY <1>1, WithoutStep
  <1>3. \A gone : Strip(<<>>, gone) = <<>>
    BY <1>1, StripStep
  <1>4. \A w, role : TakeBlocks(w, role, <<>>) = w
    BY <1>1, TakeBlocksStep
  <1>5. \A tools : ResolveToolChanges(<<>>, tools) = NewToolSet(tools)
    BY <1>1, ResolveStep
  <1>6. translateMessages(<<>>) = NewWalk
    BY <1>1, TranslateStep
  <1>7. FlattenSeq(<<>>) = <<>>
    BY <1>1, FlattenStep
  <1>8. BlocksOf(<<>>) = <<>>
    <2>1. [i \in DOMAIN <<>> |-> <<>>[i].blocks] = <<>>
      OBVIOUS
    <2> QED
      BY <1>7, <2>1 DEF BlocksOf
  <1>9. ToSet(<<>>) = {}
    BY DEF ToSet
  <1> QED
    BY <1>2, <1>3, <1>4, <1>5, <1>6, <1>7, <1>8, <1>9

-----------------------------------------------------------------------------
(* Sequences and what is taken out of them.                                  *)

\* The elements of a sequence, as it grows.
LEMMA ToSetFacts ==
    ASSUME NEW S, NEW s \in Seq(S), NEW x \in S
    PROVE  /\ ToSet(<<>>) = {}
           /\ ToSet(Append(s, x)) = ToSet(s) \cup {x}
           /\ ToSet(s) \subseteq S
           /\ \A y : y \in ToSet(s) <=> \E i \in 1..Len(s) : s[i] = y
  <1>1. ToSet(<<>>) = {}
    BY DEF ToSet
  <1>2. DOMAIN s = 1..Len(s) /\ Len(s) \in Nat /\ DOMAIN Append(s, x) = 1..(Len(s) + 1)
    OBVIOUS
  <1>3. \A y : y \in ToSet(s) <=> \E i \in 1..Len(s) : s[i] = y
    BY <1>2 DEF ToSet
  <1>4. ToSet(s) \subseteq S
    BY <1>3, ElementOfSeq
  <1>5. \A y : y \in ToSet(Append(s, x)) <=> \E i \in 1..(Len(s) + 1) : Append(s, x)[i] = y
    BY <1>2 DEF ToSet
  <1>6. /\ \A i \in 1..Len(s) : Append(s, x)[i] = s[i]
        /\ Append(s, x)[Len(s) + 1] = x
    OBVIOUS
  <1>7. \A i \in 1..(Len(s) + 1) : i \in 1..Len(s) \/ i = Len(s) + 1
    BY <1>2
  <1>8. 1..Len(s) \subseteq 1..(Len(s) + 1) /\ Len(s) + 1 \in 1..(Len(s) + 1)
    BY <1>2
  <1>9. \A y : y \in ToSet(Append(s, x)) <=> y \in ToSet(s) \/ y = x
    BY <1>3, <1>5, <1>6, <1>7, <1>8
  <1> QED
    BY <1>1, <1>3, <1>4, <1>9

\* One more element after a concatenation.
LEMMA ConcatStep ==
    ASSUME NEW S, NEW s \in Seq(S), NEW t \in Seq(S), NEW x \in S
    PROVE  /\ s \o <<>> = s /\ <<>> \o s = s
           /\ s \o Append(t, x) = Append(s \o t, x)
           /\ s \o t \in Seq(S)
  OBVIOUS

\* What is left are the elements that were not to go.
LEMMA WithoutFacts ==
    ASSUME NEW S, NEW s \in Seq(S), NEW gone
    PROVE  /\ Without(s, gone) \in Seq(S)
           /\ ToSet(Without(s, gone)) = ToSet(s) \ gone
  <1> DEFINE T == {t \in Seq(S) : /\ Without(t, gone) \in Seq(S)
                                  /\ ToSet(Without(t, gone)) = ToSet(t) \ gone}
  <1>1. <<>> \in T
    <2>1. Without(<<>>, gone) = <<>> /\ ToSet(<<>>) = {}
      BY LoopsEmpty
    <2> QED
      BY <2>1, EmptySeq
  <1>2. ASSUME NEW t \in Seq(S), NEW x \in S, t \in T PROVE Append(t, x) \in T
    <2>1. Without(Append(t, x), gone) = IF x \in gone THEN Without(t, gone) ELSE Append(Without(t, gone), x)
      BY WithoutStep
    <2>2. Without(t, gone) \in Seq(S) /\ ToSet(Without(t, gone)) = ToSet(t) \ gone
      BY <1>2
    <2>3. ToSet(Append(t, x)) = ToSet(t) \cup {x} /\ Append(t, x) \in Seq(S)
      BY ToSetFacts
    <2>4. CASE x \in gone
      BY <2>1, <2>2, <2>3, <2>4
    <2>5. CASE x \notin gone
      <3>1. /\ Append(Without(t, gone), x) \in Seq(S)
            /\ ToSet(Append(Without(t, gone), x)) = ToSet(Without(t, gone)) \cup {x}
        BY <2>2, ToSetFacts
      <3> QED
        BY <2>1, <2>2, <2>3, <2>5, <3>1
    <2> QED
      BY <2>4, <2>5
  <1> HIDE DEF T
  <1>3. s \in T
    BY <1>1, <1>2, SeqSetInduction
  <1> QED
    BY <1>3 DEF T

\* Taking out works piece by piece,
LEMMA WithoutConcat ==
    ASSUME NEW S, NEW s \in Seq(S), NEW t \in Seq(S), NEW gone
    PROVE  Without(s \o t, gone) = Without(s, gone) \o Without(t, gone)
  <1> DEFINE T == {u \in Seq(S) : Without(s \o u, gone) = Without(s, gone) \o Without(u, gone)}
  <1>0. Without(s, gone) \in Seq(S)
    BY WithoutFacts
  <1>1. <<>> \in T
    <2>1. Without(<<>>, gone) = <<>>
      BY LoopsEmpty
    <2>2. s \o <<>> = s /\ Without(s, gone) \o <<>> = Without(s, gone)
      BY <1>0, ConcatEmptySeq
    <2> QED
      BY <2>1, <2>2, EmptySeq
  <1>2. ASSUME NEW u \in Seq(S), NEW x \in S, u \in T PROVE Append(u, x) \in T
    <2>1. /\ Without(u, gone) \in Seq(S)
          /\ s \o u \in Seq(S)
          /\ s \o Append(u, x) = Append(s \o u, x)
          /\ Append(u, x) \in Seq(S)
      BY WithoutFacts, ConcatStep
    <2> DEFINE su == s \o u
    <2>2. Without(Append(su, x), gone) = IF x \in gone THEN Without(su, gone) ELSE Append(Without(su, gone), x)
      <3>1. su \in Seq(S)
        BY <2>1
      <3> HIDE DEF su
      <3> QED
        BY <3>1, WithoutStep
    <2>6. Without(Append(u, x), gone) = IF x \in gone THEN Without(u, gone) ELSE Append(Without(u, gone), x)
      BY WithoutStep
    <2>3. Without(s, gone) \o Append(Without(u, gone), x) = Append(Without(s, gone) \o Without(u, gone), x)
      BY <1>0, <2>1, ConcatStep
    <2>4. Without(s \o u, gone) = Without(s, gone) \o Without(u, gone)
      BY <1>2
    <2>5. Without(s \o Append(u, x), gone) = Without(s, gone) \o Without(Append(u, x), gone)
      BY <2>1, <2>2, <2>3, <2>4, <2>6
    <2> QED
      BY <2>1, <2>5
  <1> HIDE DEF T
  <1>3. t \in T
    BY <1>1, <1>2, SeqSetInduction
  <1> QED
    BY <1>3 DEF T

\* and looks at nothing but the elements there are.
LEMMA WithoutSame ==
    ASSUME NEW S, NEW s \in Seq(S), NEW gone, NEW others,
           \A x \in ToSet(s) : x \in gone <=> x \in others
    PROVE  Without(s, gone) = Without(s, others)
  <1> DEFINE T == {u \in Seq(S) : (\A x \in ToSet(u) : x \in gone <=> x \in others)
                                   => Without(u, gone) = Without(u, others)}
  <1>1. <<>> \in T
    <2>1. Without(<<>>, gone) = <<>> /\ Without(<<>>, others) = <<>>
      BY LoopsEmpty
    <2> QED
      BY <2>1, EmptySeq
  <1>2. ASSUME NEW u \in Seq(S), NEW x \in S, u \in T PROVE Append(u, x) \in T
    <2>1. ToSet(Append(u, x)) = ToSet(u) \cup {x} /\ Append(u, x) \in Seq(S)
      BY ToSetFacts
    <2>2. /\ Without(Append(u, x), gone) = IF x \in gone THEN Without(u, gone) ELSE Append(Without(u, gone), x)
          /\ Without(Append(u, x), others) = IF x \in others THEN Without(u, others) ELSE Append(Without(u, others), x)
      BY WithoutStep
    <2> QED
      BY <1>2, <2>1, <2>2
  <1> HIDE DEF T
  <1>3. s \in T
    BY <1>1, <1>2, SeqSetInduction
  <1> QED
    BY <1>3 DEF T

\* The blocks of the stripped messages are the messages' blocks without those
\* taken out, and no message has become empty.
LEMMA StripFacts ==
    ASSUME NEW messages \in Seq(Msgs), NEW gone
    PROVE  /\ Strip(messages, gone) \in Seq(Msgs)
           /\ BlocksOf(Strip(messages, gone)) = Without(BlocksOf(messages), gone)
           /\ (\A m \in ToSet(messages) : m.blocks # <<>>)
                 => \A m \in ToSet(Strip(messages, gone)) : m.blocks # <<>>
  <1> DEFINE Full(ms) == \A m \in ToSet(ms) : m.blocks # <<>>
             Good(ms) == /\ Strip(ms, gone) \in Seq(Msgs)
                         /\ BlocksOf(Strip(ms, gone)) = Without(BlocksOf(ms), gone)
                         /\ Full(ms) => Full(Strip(ms, gone))
             T == {ms \in Seq(Msgs) : Good(ms)}
  <1>1. <<>> \in T
    <2>1. Strip(<<>>, gone) = <<>> /\ Without(<<>>, gone) = <<>> /\ BlocksOf(<<>>) = <<>>
      BY LoopsEmpty
    <2> QED
      BY <2>1, EmptySeq
  <1>2. ASSUME NEW ms \in Seq(Msgs), NEW m \in Msgs, ms \in T PROVE Append(ms, m) \in T
    <2> DEFINE rest == Without(m.blocks, gone)
               kept == Strip(ms, gone)
               cut == Reblocked(m, rest)
    <2>0. Good(ms)
      BY <1>2
    <2>1. m.blocks \in Seq(Blk) /\ rest \in Seq(Blk)
      BY MsgFacts, WithoutFacts
    <2>2. cut \in Msgs /\ cut.blocks = rest
      BY <2>1, MsgFacts
    <2>3. Strip(Append(ms, m), gone) = IF rest = <<>> /\ m.blocks # <<>> THEN kept ELSE Append(kept, cut)
      <3>1. Strip(Append(ms, m), gone) = Stripped(Strip(ms, gone), m, gone)
        BY StripStep
      <3> QED
        BY <3>1, Zenon DEF Stripped, Reblocked
    <2>4. /\ BlocksOf(Append(ms, m)) = BlocksOf(ms) \o m.blocks
          /\ BlocksOf(ms) \in Seq(Blk)
      BY BlocksStep
    <2>5. Without(BlocksOf(Append(ms, m)), gone) = Without(BlocksOf(ms), gone) \o rest
      BY <2>1, <2>4, WithoutConcat
    <2>6. ToSet(Append(ms, m)) = ToSet(ms) \cup {m} /\ Append(ms, m) \in Seq(Msgs)
      BY ToSetFacts
    <2>7. Without(BlocksOf(ms), gone) \in Seq(Blk)
      BY <2>4, WithoutFacts
    <2> HIDE DEF rest, kept, cut
    <2>8. kept \in Seq(Msgs) /\ BlocksOf(kept) = Without(BlocksOf(ms), gone) /\ (Full(ms) => Full(kept))
      BY <2>0 DEF kept
    <2>9. CASE rest = <<>> /\ m.blocks # <<>>
      <3>1. Without(BlocksOf(ms), gone) \o rest = Without(BlocksOf(ms), gone)
        BY <2>7, <2>9, ConcatEmptySeq
      <3>2. Full(Append(ms, m)) => Full(ms)
        BY <2>6
      <3>3. Strip(Append(ms, m), gone) = kept
        BY <2>3, <2>9
      <3>4. Without(BlocksOf(Append(ms, m)), gone) = BlocksOf(kept)
        BY <2>5, <2>8, <3>1
      <3> HIDE DEF Full
      <3>5. Good(Append(ms, m))
        BY <2>8, <3>2, <3>3, <3>4, Zenon
      <3> HIDE DEF Good
      <3> QED
        BY <2>6, <3>5
    <2>10. CASE ~(rest = <<>> /\ m.blocks # <<>>)
      <3>1. /\ BlocksOf(Append(kept, cut)) = BlocksOf(kept) \o rest
            /\ Append(kept, cut) \in Seq(Msgs)
        <4>0. kept \in Seq(Msgs) /\ cut \in Msgs
          BY <2>2, <2>8, Zenon
        <4>1. BlocksOf(Append(kept, cut)) = BlocksOf(kept) \o cut.blocks
          BY <4>0, BlocksStep
        <4> QED
          BY <2>2, <2>8, <4>1
      <3>2. ToSet(Append(kept, cut)) = ToSet(kept) \cup {cut}
        BY <2>2, <2>8, ToSetFacts
      <3>3. Full(Append(ms, m)) => Full(ms) /\ m.blocks # <<>>
        BY <2>6
      <3>4. Full(kept) /\ rest # <<>> => Full(Append(kept, cut))
        BY <2>2, <3>2
      <3>5. Strip(Append(ms, m), gone) = Append(kept, cut)
        BY <2>3, <2>10
      <3>6. Without(BlocksOf(Append(ms, m)), gone) = BlocksOf(Append(kept, cut))
        BY <2>5, <2>8, <3>1
      <3> HIDE DEF Full
      <3>7. Full(Append(ms, m)) => Full(Append(kept, cut))
        BY <2>8, <2>10, <3>3, <3>4
      <3>8. Good(Append(ms, m))
        BY <3>1, <3>5, <3>6, <3>7, Zenon
      <3> HIDE DEF Good
      <3> QED
        BY <2>6, <3>8
    <2> QED
      BY <2>9, <2>10
  <1> HIDE DEF T
  <1>3. messages \in T
    BY <1>1, <1>2, SeqSetInduction
  <1> QED
    BY <1>3 DEF T

-----------------------------------------------------------------------------
(* Calls and their results.                                                  *)

\* Whatever is of kind answer has something of kind call, with its tool, before it.
PairedBy(seq, answer, call) ==
    \A i \in DOMAIN seq :
        seq[i].kind = answer =>
            \E j \in 1..(i - 1) : seq[j].kind = call /\ seq[j].tool = seq[i].tool

\* PairedBy over one more element.
LEMMA PairedByStep ==
    ASSUME NEW S, NEW s \in Seq(S), NEW x \in S, NEW answer, NEW call
    PROVE  /\ PairedBy(<<>>, answer, call)
           /\ PairedBy(Append(s, x), answer, call) <=>
                 /\ PairedBy(s, answer, call)
                 /\ x.kind = answer => \E c \in ToSet(s) : c.kind = call /\ c.tool = x.tool
  <1>1. PairedBy(<<>>, answer, call)
    BY DEF PairedBy
  <1> DEFINE t == Append(s, x)
             n == Len(s)
  <1>2. /\ n \in Nat /\ DOMAIN s = 1..n /\ DOMAIN t = 1..(n + 1)
        /\ \A i \in 1..n : t[i] = s[i]
        /\ t[n + 1] = x
    OBVIOUS
  <1>3. \A c : c \in ToSet(s) <=> \E j \in 1..n : s[j] = c
    BY ToSetFacts
  <1> HIDE DEF t, n
  <1>4. PairedBy(t, answer, call) => PairedBy(s, answer, call)
    <2> SUFFICES ASSUME PairedBy(t, answer, call), NEW i \in 1..n, s[i].kind = answer
                 PROVE  \E j \in 1..(i - 1) : s[j].kind = call /\ s[j].tool = s[i].tool
      BY <1>2 DEF PairedBy
    <2>1. i \in DOMAIN t /\ t[i] = s[i]
      BY <1>2
    <2>2. PICK j \in 1..(i - 1) : t[j].kind = call /\ t[j].tool = t[i].tool
      BY <2>1 DEF PairedBy
    <2>3. j \in 1..n
      BY <1>2
    <2> QED
      BY <1>2, <2>1, <2>2, <2>3
  <1>5. PairedBy(t, answer, call) /\ x.kind = answer => \E c \in ToSet(s) : c.kind = call /\ c.tool = x.tool
    <2> SUFFICES ASSUME PairedBy(t, answer, call), x.kind = answer
                 PROVE  \E c \in ToSet(s) : c.kind = call /\ c.tool = x.tool
      OBVIOUS
    <2>1. n + 1 \in DOMAIN t /\ (n + 1) - 1 = n
      BY <1>2
    <2>2. PICK j \in 1..n : t[j].kind = call /\ t[j].tool = t[n + 1].tool
      BY <1>2, <2>1 DEF PairedBy
    <2> QED
      BY <1>2, <1>3, <2>2
  <1>6. ASSUME PairedBy(s, answer, call),
               x.kind = answer => \E c \in ToSet(s) : c.kind = call /\ c.tool = x.tool
        PROVE  PairedBy(t, answer, call)
    <2> SUFFICES ASSUME NEW i \in 1..(n + 1), t[i].kind = answer
                 PROVE  \E j \in 1..(i - 1) : t[j].kind = call /\ t[j].tool = t[i].tool
      BY <1>2 DEF PairedBy
    <2>1. CASE i \in 1..n
      <3>1. PICK j \in 1..(i - 1) : s[j].kind = call /\ s[j].tool = s[i].tool
        BY <1>2, <1>6, <2>1 DEF PairedBy
      <3>2. j \in 1..n
        BY <1>2, <2>1
      <3> QED
        BY <1>2, <2>1, <3>1, <3>2
    <2>2. CASE i = n + 1
      <3>1. PICK c \in ToSet(s) : c.kind = call /\ c.tool = x.tool
        BY <1>2, <1>6, <2>2
      <3>2. PICK j \in 1..n : s[j] = c
        BY <1>3
      <3>3. j \in 1..(i - 1)
        BY <1>2, <2>2
      <3> QED
        BY <1>2, <2>2, <3>1, <3>2, <3>3
    <2> QED
      BY <1>2, <2>1, <2>2
  <1> QED
    BY <1>1, <1>4, <1>5, <1>6 DEF t

\* A result is one of a call somewhere before it.
Follows(blocks) == PairedBy(blocks, "tool_result", "tool_use")

\* c is the call that b answers.
Calls(b, c) == c.kind = "tool_use" /\ c.tool = b.tool

\* The same of a conversation's blocks.
LEMMA PairedStep ==
    ASSUME NEW S, NEW s \in Seq(S), NEW x \in S
    PROVE  /\ Follows(<<>>)
           /\ Follows(Append(s, x)) <=>
                 Follows(s) /\ (x.kind = "tool_result" => \E c \in ToSet(s) : Calls(x, c))
  BY PairedByStep DEF Follows, Calls

\* Results of calls that came before, and anything else, may follow.
LEMMA PairedConcat ==
    ASSUME NEW S, NEW s \in Seq(S), NEW t \in Seq(S), Follows(s),
           \A x \in ToSet(t) : x.kind = "tool_result" => \E c \in ToSet(s) : Calls(x, c)
    PROVE  Follows(s \o t) /\ ToSet(s \o t) = ToSet(s) \cup ToSet(t)
  <1> DEFINE Fits(u) == \A x \in ToSet(u) : x.kind = "tool_result" => \E c \in ToSet(s) : Calls(x, c)
             Good(u) == /\ ToSet(s \o u) = ToSet(s) \cup ToSet(u)
                        /\ Fits(u) => Follows(s \o u)
             T == {u \in Seq(S) : Good(u)}
  <1>1. <<>> \in T
    <2>1. s \o <<>> = s /\ ToSet(<<>>) = {}
      BY ConcatEmptySeq, LoopsEmpty
    <2> QED
      BY <2>1, EmptySeq
  <1>2. ASSUME NEW u \in Seq(S), NEW x \in S, u \in T PROVE Append(u, x) \in T
    <2> DEFINE su == s \o u
    <2>1. su \in Seq(S) /\ s \o Append(u, x) = Append(su, x) /\ Append(u, x) \in Seq(S)
      BY ConcatStep
    <2>2. ToSet(su) = ToSet(s) \cup ToSet(u) /\ (Fits(u) => Follows(su))
      BY <1>2
    <2> HIDE DEF su
    <2>3. ToSet(Append(u, x)) = ToSet(u) \cup {x} /\ ToSet(Append(su, x)) = ToSet(su) \cup {x}
      BY <2>1, ToSetFacts
    <2>4. Follows(Append(su, x)) <=>
             Follows(su) /\ (x.kind = "tool_result" => \E c \in ToSet(su) : Calls(x, c))
      BY <2>1, PairedStep
    <2>5. Fits(Append(u, x)) =>
             Fits(u) /\ (x.kind = "tool_result" => \E c \in ToSet(s) : Calls(x, c))
      BY <2>3
    <2> HIDE DEF Fits
    <2>6. Good(Append(u, x))
      BY <2>1, <2>2, <2>3, <2>4, <2>5
    <2> QED
      BY <2>1, <2>6
  <1> HIDE DEF T
  <1>3. t \in T
    BY <1>1, <1>2, SeqSetInduction
  <1> QED
    BY <1>3 DEF T

\* Taking out other blocks than calls leaves every result its call.
LEMMA PairedWithout ==
    ASSUME NEW S, NEW s \in Seq(S), NEW gone, Follows(s),
           \A b \in gone : b.kind # "tool_use"
    PROVE  Follows(Without(s, gone))
  <1> DEFINE T == {u \in Seq(S) : Follows(u) => Follows(Without(u, gone))}
  <1>1. <<>> \in T
    <2>1. Without(<<>>, gone) = <<>>
      BY LoopsEmpty
    <2> QED
      BY <2>1, EmptySeq
  <1>2. ASSUME NEW u \in Seq(S), NEW x \in S, u \in T PROVE Append(u, x) \in T
    <2> DEFINE left == Without(u, gone)
    <2>1. left \in Seq(S) /\ ToSet(left) = ToSet(u) \ gone
      BY WithoutFacts
    <2>2. Without(Append(u, x), gone) = IF x \in gone THEN left ELSE Append(left, x)
      BY WithoutStep
    <2>3. Follows(u) => Follows(left)
      BY <1>2
    <2> HIDE DEF left
    <2>4. Follows(Append(u, x)) <=>
             Follows(u) /\ (x.kind = "tool_result" => \E c \in ToSet(u) : Calls(x, c))
      BY PairedStep
    <2>5. Follows(Append(left, x)) <=>
             Follows(left) /\ (x.kind = "tool_result" => \E c \in ToSet(left) : Calls(x, c))
      BY <2>1, PairedStep
    <2>6. \A c \in ToSet(u) : Calls(x, c) => c \in ToSet(left)
      BY <2>1 DEF Calls
    <2>7. Append(u, x) \in Seq(S)
      OBVIOUS
    <2>8. Follows(Append(u, x)) => Follows(Without(Append(u, x), gone))
      BY <2>2, <2>3, <2>4, <2>5, <2>6
    <2> QED
      BY <2>7, <2>8
  <1> HIDE DEF T
  <1>3. s \in T
    BY <1>1, <1>2, SeqSetInduction
  <1> QED
    BY <1>3 DEF T

\* The tools of the calls that nothing later answers.
Left(seq, call, answer) ==
    {seq[k].tool : k \in {i \in DOMAIN seq :
        /\ seq[i].kind = call
        /\ \A j \in (i + 1)..Len(seq) : ~(seq[j].kind = answer /\ seq[j].tool = seq[i].tool)}}
Unanswered(blocks) == Left(blocks, "tool_use", "tool_result")
Open(items) == Left(items, "function_call", "function_call_output")

\* What one more element leaves open: an answer closes, a call opens.
LEMMA LeftStep ==
    ASSUME NEW S, NEW s \in Seq(S), NEW x \in S, NEW call, NEW answer
    PROVE  /\ Left(<<>>, call, answer) = {}
           /\ Left(Append(s, x), call, answer) =
                 (IF x.kind = answer THEN Left(s, call, answer) \ {x.tool} ELSE Left(s, call, answer))
                 \cup (IF x.kind = call THEN {x.tool} ELSE {})
  <1>1. Left(<<>>, call, answer) = {}
    BY DEF Left
  <1> DEFINE t == Append(s, x)
             n == Len(s)
             Hangs(u, i) == /\ u[i].kind = call
                            /\ \A j \in (i + 1)..Len(u) : ~(u[j].kind = answer /\ u[j].tool = u[i].tool)
  <1>2. /\ n \in Nat /\ DOMAIN s = 1..n /\ DOMAIN t = 1..(n + 1) /\ Len(t) = n + 1
        /\ \A i \in 1..n : t[i] = s[i]
        /\ t[n + 1] = x
    OBVIOUS
  <1>3. /\ Left(s, call, answer) = {s[i].tool : i \in {k \in 1..n : Hangs(s, k)}}
        /\ Left(t, call, answer) = {t[i].tool : i \in {k \in 1..(n + 1) : Hangs(t, k)}}
    BY <1>2 DEF Left
  <1>4. Hangs(t, n + 1) <=> x.kind = call
    BY <1>2
  <1>5. ASSUME NEW i \in 1..n
        PROVE  Hangs(t, i) <=> Hangs(s, i) /\ ~(x.kind = answer /\ x.tool = s[i].tool)
    <2>1. \A j : j \in (i + 1)..(n + 1) <=> j \in (i + 1)..n \/ j = n + 1
      BY <1>2
    <2>2. \A j \in (i + 1)..n : j \in 1..n
      BY <1>2
    <2> QED
      BY <1>2, <2>1, <2>2
  <1> HIDE DEF t, n, Hangs
  <1>6. \A k : k \in 1..(n + 1) <=> k \in 1..n \/ k = n + 1
    BY <1>2
  <1> QED
    BY <1>1, <1>2, <1>3, <1>4, <1>5, <1>6 DEF t

\* Every call is answered and every answer follows its call: nothing is left.
LEMMA LeftNone ==
    ASSUME NEW S, NEW s \in Seq(S), NEW call, NEW answer,
           PairedBy(s, answer, call), Left(s, call, answer) = {}
    PROVE  Paired(s, call, answer)
  <1>1. \A i \in DOMAIN s : s[i].kind = call =>
            \E j \in (i + 1)..Len(s) : s[j].kind = answer /\ s[j].tool = s[i].tool
    BY DEF Left
  <1> QED
    BY <1>1 DEF Paired, PairedBy

\* What more blocks leave open at most.
LEMMA LeftConcat ==
    ASSUME NEW S, NEW s \in Seq(S), NEW t \in Seq(S)
    PROVE  \A c \in Unanswered(s \o t) :
              \/ c \in Unanswered(s) /\ \A x \in ToSet(t) : ~(x.kind = "tool_result" /\ x.tool = c)
              \/ \E x \in ToSet(t) : x.kind = "tool_use" /\ x.tool = c
  <1> DEFINE May(u, c) ==
                 \/ c \in Unanswered(s) /\ \A x \in ToSet(u) : ~(x.kind = "tool_result" /\ x.tool = c)
                 \/ \E x \in ToSet(u) : x.kind = "tool_use" /\ x.tool = c
             T == {u \in Seq(S) : \A c \in Unanswered(s \o u) : May(u, c)}
  <1>1. <<>> \in T
    <2>1. s \o <<>> = s /\ ToSet(<<>>) = {}
      BY ConcatEmptySeq, LoopsEmpty
    <2> QED
      BY <2>1, EmptySeq
  <1>2. ASSUME NEW u \in Seq(S), NEW x \in S, u \in T PROVE Append(u, x) \in T
    <2> DEFINE su == s \o u
    <2>1. su \in Seq(S) /\ s \o Append(u, x) = Append(su, x) /\ Append(u, x) \in Seq(S)
      BY ConcatStep
    <2>2. \A c \in Unanswered(su) : May(u, c)
      BY <1>2
    <2> HIDE DEF su
    <2>3. ToSet(Append(u, x)) = ToSet(u) \cup {x}
      BY ToSetFacts
    <2>4. Unanswered(Append(su, x)) =
             (IF x.kind = "tool_result" THEN Unanswered(su) \ {x.tool} ELSE Unanswered(su))
             \cup (IF x.kind = "tool_use" THEN {x.tool} ELSE {})
      BY <2>1, LeftStep DEF Unanswered
    <2>5. ASSUME NEW c \in Unanswered(Append(su, x)) PROVE May(Append(u, x), c)
      <3>1. CASE x.kind = "tool_use" /\ x.tool = c
        BY <2>3, <3>1
      <3>2. CASE c \in Unanswered(su) /\ ~(x.kind = "tool_result" /\ x.tool = c)
        BY <2>2, <2>3, <3>2
      <3> QED
        BY <2>4, <3>1, <3>2
    <2> HIDE DEF May
    <2> QED
      BY <2>1, <2>5
  <1> HIDE DEF T
  <1>3. t \in T
    BY <1>1, <1>2, SeqSetInduction
  <1> QED
    BY <1>3 DEF T

\* Taking out neither calls nor results leaves as much open.
LEMMA LeftWithout ==
    ASSUME NEW S, NEW s \in Seq(S), NEW gone,
           \A b \in gone : b.kind \notin {"tool_use", "tool_result"}
    PROVE  Unanswered(Without(s, gone)) = Unanswered(s)
  <1> DEFINE T == {u \in Seq(S) : Unanswered(Without(u, gone)) = Unanswered(u)}
  <1>1. <<>> \in T
    <2>1. Without(<<>>, gone) = <<>>
      BY LoopsEmpty
    <2> QED
      BY <2>1, EmptySeq
  <1>2. ASSUME NEW u \in Seq(S), NEW x \in S, u \in T PROVE Append(u, x) \in T
    <2> DEFINE rest == Without(u, gone)
    <2>1. rest \in Seq(S)
      BY WithoutFacts
    <2>2. Without(Append(u, x), gone) = IF x \in gone THEN rest ELSE Append(rest, x)
      BY WithoutStep
    <2>3. Unanswered(rest) = Unanswered(u)
      BY <1>2
    <2> HIDE DEF rest
    <2>4. Unanswered(Append(u, x)) =
             (IF x.kind = "tool_result" THEN Unanswered(u) \ {x.tool} ELSE Unanswered(u))
             \cup (IF x.kind = "tool_use" THEN {x.tool} ELSE {})
      BY LeftStep DEF Unanswered
    <2>5. Unanswered(Append(rest, x)) =
             (IF x.kind = "tool_result" THEN Unanswered(rest) \ {x.tool} ELSE Unanswered(rest))
             \cup (IF x.kind = "tool_use" THEN {x.tool} ELSE {})
      BY <2>1, LeftStep DEF Unanswered
    <2>6. Append(u, x) \in Seq(S)
      OBVIOUS
    <2>7. Unanswered(Without(Append(u, x), gone)) = Unanswered(Append(u, x))
      BY <2>2, <2>3, <2>4, <2>5
    <2> QED
      BY <2>6, <2>7
  <1> HIDE DEF T
  <1>3. s \in T
    BY <1>1, <1>2, SeqSetInduction
  <1> QED
    BY <1>3 DEF T

-----------------------------------------------------------------------------
(* Numbering.                                                                *)

\* What a turn is made of before it is numbered.
AnyShape == Shapes \cup {BlockShape(item) : item \in OutputItems}

\* Numbering one block.
LEMMA NumberedBlock ==
    ASSUME NEW b \in AnyShape, NEW k \in Nat
    PROVE  LET c == IF b.kind = "tool_use" THEN [b EXCEPT !.n = k, !.tool = k]
                    ELSE [b EXCEPT !.n = k]
           IN  c \in Blk /\ c.kind = b.kind /\ c.tag = b.tag /\ c.n = k /\ c.kind # "tool_result"
  <1>1. /\ b \in [kind : Kinds, n : {0}, tag : Tags, tool : Names \cup {None}]
        /\ b.kind # "tool_result"
        /\ b.kind = "redacted_thinking" => b.tag = "genuine"
        /\ IsChange(b) => b.tool \in Names
    <2>1. CASE b \in Shapes
      BY <2>1 DEF Shapes
    <2>2. CASE b \notin Shapes
      <3>1. PICK item \in OutputItems : b = BlockShape(item)
        BY <2>2 DEF AnyShape
      <3>2. \/ b = Block("thinking", 0, "payload", None) \/ b = Block("thinking", 0, "bare", None)
            \/ b = Block("text", 0, "plain", None) \/ b = Block("tool_use", 0, "plain", None)
        BY <3>1 DEF OutputItems, BlockShape
      <3>3. {"thinking", "text", "tool_use"} \subseteq Kinds /\ {"payload", "bare", "plain"} \subseteq Tags
        BY DEF Kinds, Tags
      <3> HIDE DEF Kinds, Tags
      <3> QED
        BY <3>2, <3>3 DEF Block, IsChange
    <2> QED
      BY <2>1, <2>2
  <1> DEFINE called == [b EXCEPT !.n = k, !.tool = k]
             other == [b EXCEPT !.n = k]
  <1>2. /\ called \in [kind : Kinds, n : Nat, tag : Tags, tool : Names \cup {None} \cup Nat]
        /\ called.kind = b.kind /\ called.tag = b.tag /\ called.n = k
    BY <1>1
  <1>3. /\ other \in [kind : Kinds, n : Nat, tag : Tags, tool : Names \cup {None} \cup Nat]
        /\ other.kind = b.kind /\ other.tag = b.tag /\ other.n = k /\ other.tool = b.tool
    BY <1>1
  <1> HIDE DEF called, other
  <1>4. CASE b.kind = "tool_use"
    <2>1. called \in Blk
      BY <1>1, <1>2, <1>4 DEF Blk, IsChange
    <2> QED
      BY <1>1, <1>2, <1>4, <2>1 DEF called
  <1>5. CASE b.kind # "tool_use"
    <2>1. other \in Blk
      BY <1>1, <1>3, <1>5 DEF Blk, IsChange
    <2> QED
      BY <1>1, <1>3, <1>5, <2>1 DEF other
  <1> QED
    BY <1>4, <1>5

\* The elements of a concatenation.
LEMMA ToSetConcat ==
    ASSUME NEW S, NEW s \in Seq(S), NEW t \in Seq(S)
    PROVE  ToSet(s \o t) = ToSet(s) \cup ToSet(t)
  <1> DEFINE T == {u \in Seq(S) : ToSet(s \o u) = ToSet(s) \cup ToSet(u)}
  <1>1. <<>> \in T
    <2>1. s \o <<>> = s /\ ToSet(<<>>) = {}
      BY ConcatEmptySeq, LoopsEmpty
    <2> QED
      BY <2>1, EmptySeq
  <1>2. ASSUME NEW u \in Seq(S), NEW x \in S, u \in T PROVE Append(u, x) \in T
    <2> DEFINE su == s \o u
    <2>1. su \in Seq(S) /\ s \o Append(u, x) = Append(su, x) /\ Append(u, x) \in Seq(S)
      BY ConcatStep
    <2>2. ToSet(su) = ToSet(s) \cup ToSet(u)
      BY <1>2
    <2> HIDE DEF su
    <2>3. ToSet(Append(u, x)) = ToSet(u) \cup {x} /\ ToSet(Append(su, x)) = ToSet(su) \cup {x}
      BY <2>1, ToSetFacts
    <2>4. ToSet(s \o Append(u, x)) = ToSet(s) \cup ToSet(Append(u, x))
      BY <2>1, <2>2, <2>3
    <2> QED
      BY <2>1, <2>4
  <1> HIDE DEF T
  <1>3. t \in T
    BY <1>1, <1>2, SeqSetInduction
  <1> QED
    BY <1>3 DEF T

\* Numbering a message.
LEMMA NumberedFacts ==
    ASSUME NEW shapes \in Seq(AnyShape), made \in Nat
    PROVE  /\ Numbered(shapes) \in Seq(Blk)
           /\ Len(Numbered(shapes)) = Len(shapes)
           /\ \A i \in 1..Len(shapes) : /\ Numbered(shapes)[i].kind = shapes[i].kind
                                        /\ Numbered(shapes)[i].tag = shapes[i].tag
                                        /\ Numbered(shapes)[i].n = made + i
           /\ \A b \in ToSet(Numbered(shapes)) : b.kind # "tool_result"
  <1> DEFINE num == Numbered(shapes)
  <1>1. DOMAIN shapes = 1..Len(shapes) /\ Len(shapes) \in Nat
        /\ \A i \in 1..Len(shapes) : shapes[i] \in AnyShape
    BY ElementOfSeq
  <1>2. \A i \in 1..Len(shapes) : made + i \in Nat
    BY <1>1
  <1>3. DOMAIN num = 1..Len(shapes)
    BY <1>1 DEF Numbered
  <1>4. ASSUME NEW i \in 1..Len(shapes)
        PROVE  /\ num[i] \in Blk /\ num[i].kind = shapes[i].kind /\ num[i].tag = shapes[i].tag
               /\ num[i].n = made + i /\ num[i].kind # "tool_result"
    <2>1. num[i] = IF shapes[i].kind = "tool_use"
                   THEN [shapes[i] EXCEPT !.n = made + i, !.tool = made + i]
                   ELSE [shapes[i] EXCEPT !.n = made + i]
      BY <1>1 DEF Numbered
    <2> DEFINE b == shapes[i]
               k == made + i
               c == IF b.kind = "tool_use" THEN [b EXCEPT !.n = k, !.tool = k]
                    ELSE [b EXCEPT !.n = k]
    <2>2. b \in AnyShape /\ k \in Nat
      BY <1>1, <1>2
    <2>3. num[i] = c
      BY <2>1
    <2> HIDE DEF b, k, num
    <2>4. c \in Blk /\ c.kind = b.kind /\ c.tag = b.tag /\ c.n = k /\ c.kind # "tool_result"
      BY <2>2, NumberedBlock
    <2> HIDE DEF c
    <2>5. num[i] \in Blk /\ num[i].kind = b.kind /\ num[i].tag = b.tag /\ num[i].n = k
          /\ num[i].kind # "tool_result"
      BY <2>3, <2>4, Zenon
    <2> QED
      BY <2>5 DEF b, k
  <1>5. num = [i \in 1..Len(shapes) |-> num[i]]
    BY <1>1 DEF Numbered
  <1> HIDE DEF num
  <1>6. num \in [1..Len(shapes) -> Blk]
    BY <1>4, <1>5
  <1>7. num \in Seq(Blk) /\ Len(num) = Len(shapes)
    BY <1>1, <1>6, LenProperties
  <1>8. \A b \in ToSet(num) : b.kind # "tool_result"
    BY <1>3, <1>4 DEF ToSet
  <1> QED
    BY <1>4, <1>7, <1>8 DEF num

\* The last message's blocks are the conversation's.
LEMMA LastMessage ==
    ASSUME NEW ms \in Seq(Msgs), ms # <<>>
    PROVE  /\ ms[Len(ms)] \in Msgs
           /\ ToSet(ms[Len(ms)].blocks) \subseteq ToSet(BlocksOf(ms))
  <1>1. PICK front \in Seq(Msgs), last \in Msgs : ms = Append(front, last)
    BY SequenceEmptyOrAppend
  <1>2. ms[Len(ms)] = last
    BY <1>1
  <1>3. BlocksOf(ms) = BlocksOf(front) \o last.blocks /\ BlocksOf(front) \in Seq(Blk)
    BY <1>1, BlocksStep
  <1>4. last.blocks \in Seq(Blk)
    BY MsgFacts
  <1> DEFINE early == BlocksOf(front)
             late == last.blocks
  <1> HIDE DEF early, late
  <1>5. ToSet(early \o late) = ToSet(early) \cup ToSet(late)
    BY <1>3, <1>4, ToSetConcat DEF early, late
  <1> QED
    BY <1>2, <1>3, <1>5 DEF early, late

\* The client answers calls that were made.
LEMMA ResultsFacts ==
    ASSUME history \in Seq(Msgs), made \in Nat, NEW tag \in ResultTags
    PROVE  /\ Outstanding \in Seq(Blk)
           /\ Results(tag) \in Seq(Blk)
           /\ Len(Results(tag)) = Len(Outstanding)
           /\ \A x \in ToSet(Results(tag)) : \E c \in ToSet(BlocksOf(history)) : Calls(x, c)
           /\ \A x \in ToSet(Results(tag)) : x.kind = "tool_result"
           /\ \A c \in ToSet(Outstanding) : \E x \in ToSet(Results(tag)) : x.tool = c.tool
  <1> DEFINE res == Results(tag)
             n == Len(Outstanding)
             blocks == history[Len(history)].blocks
             gone == {b \in ToSet(blocks) : b.kind # "tool_use"}
  <1>1. /\ Outstanding \in Seq(Blk)
        /\ \A c \in ToSet(Outstanding) : c.kind = "tool_use" /\ c \in ToSet(BlocksOf(history))
    <2>1. CASE history = <<>>
      BY <2>1, EmptySeq, LoopsEmpty DEF Outstanding
    <2>2. CASE history # <<>>
      <3>1. /\ blocks \in Seq(Blk)
            /\ ToSet(blocks) \subseteq ToSet(BlocksOf(history))
        BY <2>2, LastMessage, MsgFacts
      <3>2. Outstanding = Without(blocks, gone)
        BY <2>2 DEF Outstanding
      <3>3. Without(blocks, gone) \in Seq(Blk) /\ ToSet(Without(blocks, gone)) = ToSet(blocks) \ gone
        BY <3>1, WithoutFacts
      <3> QED
        BY <3>1, <3>2, <3>3
    <2> QED
      BY <2>1, <2>2
  <1>2. /\ DOMAIN Outstanding = 1..n /\ n \in Nat
        /\ \A i \in 1..n : Outstanding[i] \in Blk /\ Outstanding[i] \in ToSet(Outstanding)
    BY <1>1, ElementOfSeq DEF ToSet
  <1>3. \A i \in 1..n : made + i \in Nat
    BY <1>2
  <1>4. DOMAIN res = 1..n
    BY <1>2 DEF Results
  <1>5. \A i \in 1..n : res[i] = Block("tool_result", made + i, tag, Outstanding[i].tool)
    BY <1>2 DEF Results
  <1>6. "tool_result" \in Kinds /\ tag \in Tags
    BY DEF Kinds, Tags, ResultTags
  <1>7. ASSUME NEW i \in 1..n
        PROVE  res[i] \in Blk /\ res[i].tool = Outstanding[i].tool /\ res[i].kind = "tool_result"
    <2> DEFINE carried == Outstanding[i].tool
    <2>1. carried \in Names \cup {None} \cup Nat
      BY <1>2 DEF Blk
    <2> HIDE DEF carried
    <2>2. res[i] = [kind |-> "tool_result", n |-> made + i, tag |-> tag, tool |-> carried]
      BY <1>5 DEF Block, carried
    <2>3. res[i] \in [kind : Kinds, n : Nat, tag : Tags, tool : Names \cup {None} \cup Nat]
      BY <1>3, <1>6, <2>1, <2>2
    <2> QED
      BY <2>2, <2>3 DEF Blk, IsChange, carried
  <1>8. res = [i \in 1..n |-> res[i]]
    BY <1>2 DEF Results
  <1> HIDE DEF res, n
  <1>9. res \in [1..n -> Blk]
    BY <1>7, <1>8
  <1>10. res \in Seq(Blk) /\ Len(res) = n
    BY <1>2, <1>9, LenProperties
  <1>11. ASSUME NEW x \in ToSet(res) PROVE \E c \in ToSet(BlocksOf(history)) : Calls(x, c)
    <2>1. PICK i \in 1..n : x = res[i]
      BY <1>4 DEF ToSet
    <2>2. Calls(x, Outstanding[i]) /\ Outstanding[i] \in ToSet(BlocksOf(history))
      BY <1>1, <1>2, <1>7, <2>1 DEF Calls
    <2> QED
      BY <2>2
  <1>12. \A x \in ToSet(res) : x.kind = "tool_result"
    BY <1>4, <1>7 DEF ToSet
  <1>13. ASSUME NEW c \in ToSet(Outstanding) PROVE \E x \in ToSet(res) : x.tool = c.tool
    <2>1. PICK i \in 1..n : c = Outstanding[i]
      BY <1>2 DEF ToSet
    <2>2. res[i] \in ToSet(res) /\ res[i].tool = c.tool
      BY <1>4, <1>7, <2>1 DEF ToSet
    <2> QED
      BY <2>2
  <1> QED
    BY <1>1, <1>10, <1>11, <1>12, <1>13 DEF res, n

-----------------------------------------------------------------------------
(* The inductive invariant, first part: what the client holds and what went  *)
(* upstream.                                                                 *)

\* Messages of blocks, none empty, and every result has its call.
HistoryOK(messages) ==
    /\ messages \in Seq(Msgs)
    /\ \A m \in ToSet(messages) : m.blocks # <<>>
    /\ Follows(BlocksOf(messages))

\* The history part of the inductive invariant.
HistoryInv == HistoryOK(history) /\ made \in Nat

\* The request out was made of the history as it still is.
SentInv ==
    phase = "sent" =>
        \/ \E turn : sent = Translate(history, turn)
        \/ \E images \in BOOLEAN : sent = rewriteRequest(history, images)
        \/ sent = Forward(history)

\* What a message may bring to a history.
Brings(messages, m) ==
    /\ m \in Msgs /\ m.blocks # <<>>
    /\ \A x \in ToSet(m.blocks) :
          x.kind = "tool_result" => \E c \in ToSet(BlocksOf(messages)) : Calls(x, c)

\* A history stays well formed when a message it may bring is appended.
LEMMA GrownHistory ==
    ASSUME NEW h, HistoryOK(h), NEW m, Brings(h, m)
    PROVE  /\ HistoryOK(Append(h, m))
           /\ BlocksOf(Append(h, m)) = BlocksOf(h) \o m.blocks
           /\ BlocksOf(h) \in Seq(Blk) /\ m.blocks \in Seq(Blk)
  <1>1. h \in Seq(Msgs) /\ m \in Msgs /\ m.blocks \in Seq(Blk)
    BY MsgFacts DEF HistoryOK, Brings
  <1>2. BlocksOf(Append(h, m)) = BlocksOf(h) \o m.blocks /\ BlocksOf(h) \in Seq(Blk)
    BY <1>1, BlocksStep
  <1>3. ToSet(Append(h, m)) = ToSet(h) \cup {m} /\ Append(h, m) \in Seq(Msgs)
    BY <1>1, ToSetFacts
  <1> DEFINE early == BlocksOf(h)
             late == m.blocks
  <1>4. /\ early \in Seq(Blk) /\ late \in Seq(Blk) /\ Follows(early)
        /\ \A x \in ToSet(late) : x.kind = "tool_result" => \E c \in ToSet(early) : Calls(x, c)
    BY <1>1, <1>2 DEF HistoryOK, Brings
  <1> HIDE DEF early, late
  <1>5. Follows(early \o late)
    BY <1>4, PairedConcat
  <1> QED
    BY <1>1, <1>2, <1>3, <1>5 DEF HistoryOK, Brings, early, late

\* The history Init starts from.
LEMMA EmptyHistory == HistoryOK(<<>>)
  <1>1. Follows(<<>>)
    BY DEF Follows, PairedBy
  <1> QED
    BY <1>1, EmptySeq, LoopsEmpty DEF HistoryOK

\* A numbered turn of any kind is a message the history may take.
LEMMA NumberedBrings ==
    ASSUME HistoryInv, NEW shapes \in Seq(AnyShape), shapes # <<>>,
           NEW r \in {"user", "assistant", "system"}
    PROVE  /\ Brings(history, [role |-> r, blocks |-> Numbered(shapes)])
           /\ Len(Numbered(shapes)) \in Nat /\ Len(shapes) \in Nat
  <1> DEFINE b == Numbered(shapes)
             m == [role |-> r, blocks |-> b]
  <1>1. b \in Seq(Blk) /\ Len(b) = Len(shapes) /\ \A x \in ToSet(b) : x.kind # "tool_result"
    BY NumberedFacts DEF HistoryInv
  <1> HIDE DEF b
  <1>2. m \in Msgs /\ m.blocks = b
    BY <1>1, MsgFacts
  <1>3. b # <<>> /\ Len(b) \in Nat /\ Len(shapes) \in Nat
    <2>1. Len(shapes) # 0 /\ Len(shapes) \in Nat
      BY EmptySeq
    <2> QED
      BY <1>1, <2>1
  <1> HIDE DEF m
  <1>4. Brings(history, m)
    BY <1>1, <1>2, <1>3 DEF Brings
  <1> QED
    BY <1>3, <1>4 DEF b, m

\* Every turn the constants offer is a sequence of shapes that may be numbered.
LEMMA ShapesAny ==
    /\ \A turn \in ClaudeTurns \cup DeepSeekTurns \cup Asks \cup Changes :
          turn \in Seq(AnyShape) /\ turn # <<>>
    /\ \A turn \in CodexTurns :
          LET shapes == [i \in DOMAIN turn |-> BlockShape(turn[i])]
          IN  shapes \in Seq(AnyShape) /\ shapes # <<>> /\ Len(shapes) = Len(turn)
  <1>1. Seq(Shapes) \subseteq Seq(AnyShape)
    <2>1. Shapes \subseteq AnyShape
      BY DEF AnyShape
    <2> QED
      BY <2>1, SeqMonotonic
  <1>2. ASSUME NEW turn \in CodexTurns
        PROVE  LET shapes == [i \in DOMAIN turn |-> BlockShape(turn[i])]
               IN  shapes \in Seq(AnyShape) /\ shapes # <<>> /\ Len(shapes) = Len(turn)
    <2> DEFINE shapes == [i \in DOMAIN turn |-> BlockShape(turn[i])]
    <2>1. turn \in Seq(OutputItems) /\ turn # <<>>
      BY ShapesAssumption
    <2>2. DOMAIN turn = 1..Len(turn) /\ Len(turn) \in Nat /\ Len(turn) # 0
          /\ \A i \in 1..Len(turn) : turn[i] \in OutputItems
      BY <2>1, ElementOfSeq, EmptySeq
    <2>3. \A i \in 1..Len(turn) : BlockShape(turn[i]) \in AnyShape
      BY <2>2 DEF AnyShape
    <2>4. shapes \in [1..Len(turn) -> AnyShape]
      BY <2>2, <2>3
    <2> HIDE DEF shapes
    <2>5. shapes \in Seq(AnyShape) /\ Len(shapes) = Len(turn)
      BY <2>2, <2>4, LenProperties
    <2>6. shapes # <<>>
      BY <2>2, <2>5
    <2> QED
      BY <2>5, <2>6 DEF shapes
  <1> QED
    BY <1>1, <1>2, ShapesAssumption

\* What a step does to the history: nothing, or one more message, or a fresh start.
Kept == history' = history /\ made' = made
GrownBy(m) == Brings(history, m) /\ history' = Append(history, m) /\ made' \in Nat
Fresh(m) == Brings(<<>>, m) /\ history' = Append(<<>>, m) /\ made' \in Nat

\* Say appends its message and numbers on.
LEMMA SayGrows ==
    ASSUME HistoryInv, NEW m, Brings(history, m), NEW k \in Nat, Say(<<m>>, k)
    PROVE  GrownBy(m)
  <1>1. history' = Append(history, m)
    <2>1. history \in Seq(Msgs) /\ m \in Msgs
      BY DEF HistoryInv, HistoryOK, Brings
    <2> QED
      BY <2>1, AppendIsConcat DEF Say
  <1>2. made' \in Nat
    BY DEF Say, HistoryInv
  <1> QED
    BY <1>1, <1>2 DEF GrownBy

\* What the user or the client says is a message of new blocks or of results for calls made.
LEMMA AskGrows == HistoryInv /\ Ask => \E m : GrownBy(m) /\ UNCHANGED <<seen, lastKey>> /\ phase' = "ready"
  <1> SUFFICES ASSUME HistoryInv, Ask PROVE (\E m : GrownBy(m)) /\ UNCHANGED <<seen, lastKey>> /\ phase' = "ready"
    OBVIOUS
  <1>1. CASE \E shapes \in Asks : Say(<<[role |-> "user", blocks |-> Numbered(shapes)]>>, Len(shapes))
    <2>1. PICK shapes \in Asks : Say(<<[role |-> "user", blocks |-> Numbered(shapes)]>>, Len(shapes))
      BY <1>1
    <2>2. shapes \in Seq(AnyShape) /\ shapes # <<>>
      BY ShapesAny
    <2> DEFINE m == [role |-> "user", blocks |-> Numbered(shapes)]
    <2>3. Brings(history, m) /\ Len(shapes) \in Nat
      BY <2>2, NumberedBrings
    <2> HIDE DEF m
    <2>4. GrownBy(m)
      BY <2>1, <2>3, SayGrows DEF m
    <2> QED
      BY <2>4 DEF Ask, Say
  <1>2. CASE /\ Outstanding # <<>>
             /\ \E tag \in ResultTags :
                   Say(<<[role |-> "user", blocks |-> Results(tag)]>>, Len(Outstanding))
    <2>1. PICK tag \in ResultTags : Say(<<[role |-> "user", blocks |-> Results(tag)]>>, Len(Outstanding))
      BY <1>2
    <2> DEFINE b == Results(tag)
               m == [role |-> "user", blocks |-> b]
    <2>2. /\ b \in Seq(Blk) /\ Len(b) = Len(Outstanding) /\ Outstanding \in Seq(Blk)
          /\ \A x \in ToSet(b) : \E c \in ToSet(BlocksOf(history)) : Calls(x, c)
      BY ResultsFacts DEF HistoryInv, HistoryOK
    <2>3. b # <<>> /\ Len(Outstanding) \in Nat
      <3>1. Len(Outstanding) # 0 /\ Len(Outstanding) \in Nat
        BY <1>2, <2>2, EmptySeq
      <3> HIDE DEF b
      <3> QED
        BY <2>2, <3>1
    <2> HIDE DEF b
    <2>4. m \in Msgs /\ m.blocks = b
      BY <2>2, MsgFacts
    <2> HIDE DEF m
    <2>5. Brings(history, m)
      BY <2>2, <2>3, <2>4 DEF Brings
    <2>6. GrownBy(m)
      BY <2>1, <2>3, <2>5, SayGrows DEF m, b
    <2> QED
      BY <2>6 DEF Ask, Say
  <1> QED
    BY <1>1, <1>2 DEF Ask

\* So is a system message.
LEMMA InterjectGrows ==
    HistoryInv /\ Interject => \E m : GrownBy(m) /\ UNCHANGED <<seen, lastKey>> /\ phase' = "ready"
  <1> SUFFICES ASSUME HistoryInv, Interject
               PROVE (\E m : GrownBy(m)) /\ UNCHANGED <<seen, lastKey>> /\ phase' = "ready"
    OBVIOUS
  <1>1. PICK shapes \in Changes : Say(<<[role |-> "system", blocks |-> Numbered(shapes)]>>, Len(shapes))
    BY DEF Interject
  <1>2. shapes \in Seq(AnyShape) /\ shapes # <<>>
    BY ShapesAny
  <1> DEFINE m == [role |-> "system", blocks |-> Numbered(shapes)]
  <1>3. Brings(history, m) /\ Len(shapes) \in Nat
    BY <1>2, NumberedBrings
  <1> HIDE DEF m
  <1>4. GrownBy(m)
    BY <1>1, <1>3, SayGrows DEF m
  <1> QED
    BY <1>4 DEF Interject, Say

\* Compaction starts the history anew.
LEMMA CompactFresh == HistoryInv /\ Compact => \E m : Fresh(m)
  <1> SUFFICES ASSUME HistoryInv, Compact PROVE \E m : Fresh(m)
    OBVIOUS
  <1> DEFINE b == Block("text", made + 1, "plain", None)
             m == [role |-> "user", blocks |-> <<b>>]
  <1>1. b \in Blk /\ b.kind = "text"
    <2>1. "text" \in Kinds /\ "plain" \in Tags /\ made + 1 \in Nat
      BY DEF Kinds, Tags, HistoryInv
    <2> QED
      BY <2>1 DEF Block, Blk, IsChange
  <1>2. history' = <<m>> /\ made' = made + 1
    BY DEF Compact
  <1> HIDE DEF b
  <1>3. <<b>> \in Seq(Blk) /\ <<b>> # <<>> /\ ToSet(<<b>>) = {b}
    <2>1. <<b>> = Append(<<>>, b) /\ <<>> \in Seq(Blk)
      BY <1>1
    <2>2. ToSet(Append(<<>>, b)) = ToSet(<<>>) \cup {b} /\ ToSet(<<>>) = {}
      BY <1>1, <2>1, ToSetFacts
    <2> QED
      BY <1>1, <2>1, <2>2
  <1>4. m \in Msgs /\ m.blocks = <<b>>
    BY <1>3, MsgFacts
  <1> HIDE DEF m
  <1>5. Brings(<<>>, m)
    BY <1>1, <1>3, <1>4 DEF Brings
  <1>6. <<m>> = Append(<<>>, m) /\ made' \in Nat
    BY <1>2 DEF HistoryInv
  <1> QED
    BY <1>2, <1>5, <1>6 DEF Fresh

\* An answer of any upstream grows the history by its blocks.
LEMMA AnsweredGrows ==
    ASSUME HistoryInv, NEW shapes \in Seq(AnyShape), shapes # <<>>, Answered(Numbered(shapes))
    PROVE  GrownBy([role |-> "assistant", blocks |-> Numbered(shapes)]) /\ phase' = "asking"
  <1> DEFINE b == Numbered(shapes)
             m == [role |-> "assistant", blocks |-> b]
  <1>1. Brings(history, m) /\ Len(b) \in Nat
    BY NumberedBrings, Zenon
  <1>2. history' = Append(history, m) /\ made' = made + Len(b) /\ phase' = "asking"
    BY DEF Answered
  <1> HIDE DEF b, m
  <1>3. GrownBy(m)
    BY <1>1, <1>2 DEF GrownBy, HistoryInv
  <1> QED
    BY <1>2, <1>3 DEF b, m

\* The Codex model took its turn.
Spoke(turn) ==
    LET shapes == [i \in DOMAIN turn |-> BlockShape(turn[i])]
    IN  /\ GrownBy([role |-> "assistant", blocks |-> Numbered(shapes)])
        /\ seen' = Read(sent.items)
                   \o FlattenSeq([i \in DOMAIN turn |-> Wrote(turn[i], made + i)])
        /\ lastKey' = [key |-> sent.key, tools |-> sent.tools]

\* An answer of the Codex model does so with the blocks of its items.
LEMMA CodexGrows ==
    HistoryInv /\ CodexAnswers => phase' = "asking" /\ \E turn \in CodexTurns : Spoke(turn)
  <1> SUFFICES ASSUME HistoryInv, CodexAnswers
               PROVE  phase' = "asking" /\ \E turn \in CodexTurns : Spoke(turn)
    OBVIOUS
  <1>1. PICK turn \in CodexTurns :
          /\ Answered(Numbered([i \in DOMAIN turn |-> BlockShape(turn[i])]))
          /\ seen' = Read(sent.items)
                     \o FlattenSeq([i \in DOMAIN turn |-> Wrote(turn[i], made + i)])
          /\ lastKey' = [key |-> sent.key, tools |-> sent.tools]
    BY DEF CodexAnswers
  <1> DEFINE shapes == [i \in DOMAIN turn |-> BlockShape(turn[i])]
  <1>2. shapes \in Seq(AnyShape) /\ shapes # <<>>
    BY ShapesAny
  <1>3. Answered(Numbered(shapes))
    BY <1>1
  <1> HIDE DEF shapes
  <1>4. GrownBy([role |-> "assistant", blocks |-> Numbered(shapes)]) /\ phase' = "asking"
    BY <1>2, <1>3, AnsweredGrows
  <1> QED
    BY <1>1, <1>4 DEF shapes, Spoke

\* An answer of Claude or DeepSeek does so and touches nothing of Codex's.
LEMMA OtherGrows ==
    HistoryInv /\ OtherAnswers => \E m : GrownBy(m) /\ UNCHANGED <<seen, lastKey>> /\ phase' = "asking"
  <1> SUFFICES ASSUME HistoryInv, OtherAnswers
               PROVE (\E m : GrownBy(m)) /\ UNCHANGED <<seen, lastKey>> /\ phase' = "asking"
    OBVIOUS
  <1>1. PICK turn \in ClaudeTurns \cup DeepSeekTurns : Answered(Numbered(turn))
    BY DEF OtherAnswers
  <1>2. turn \in Seq(AnyShape) /\ turn # <<>>
    BY ShapesAny
  <1>3. GrownBy([role |-> "assistant", blocks |-> Numbered(turn)]) /\ phase' = "asking"
    BY <1>1, <1>2, AnsweredGrows
  <1> QED
    BY <1>3 DEF OtherAnswers

\* Every step keeps both.
LEMMA NextHistory ==
    HistoryInv /\ [Next]_vars =>
        \/ Kept /\ UNCHANGED <<seen, lastKey>>
        \/ \E m : GrownBy(m) /\ UNCHANGED <<seen, lastKey>>
        \/ \E m : Fresh(m) /\ seen' = <<>> /\ lastKey' = NoKey
        \/ sent.leg = "codex" /\ ~Rejected /\ phase = "sent" /\ \E turn \in CodexTurns : Spoke(turn)
  <1> SUFFICES ASSUME HistoryInv, [Next]_vars
               PROVE  \/ Kept /\ UNCHANGED <<seen, lastKey>>
                      \/ \E m : GrownBy(m) /\ UNCHANGED <<seen, lastKey>>
                      \/ \E m : Fresh(m) /\ seen' = <<>> /\ lastKey' = NoKey
                      \/ sent.leg = "codex" /\ ~Rejected /\ phase = "sent"
                         /\ \E turn \in CodexTurns : Spoke(turn)
    OBVIOUS
  <1>1. CASE Ask
    BY <1>1, AskGrows
  <1>2. CASE Interject
    BY <1>2, InterjectGrows
  <1>3. CASE Compact
    BY <1>3, CompactFresh DEF Compact
  <1>4. CASE SendCodex \/ SendDeepSeek \/ SendAnthropic
    BY <1>4 DEF SendCodex, SendDeepSeek, SendAnthropic, Send, Kept
  <1>5. CASE Refused
    BY <1>5 DEF Refused, Kept
  <1>6. CASE CodexAnswers
    BY <1>6, CodexGrows DEF CodexAnswers, Answered
  <1>7. CASE OtherAnswers
    BY <1>7, OtherGrows
  <1>8. CASE UNCHANGED vars
    BY <1>8 DEF vars, Kept
  <1> QED
    BY <1>1, <1>2, <1>3, <1>4, <1>5, <1>6, <1>7, <1>8 DEF Next

\* Every step keeps the history well formed.
LEMMA NextHistoryInv == HistoryInv /\ [Next]_vars => HistoryInv'
  <1> SUFFICES ASSUME HistoryInv, [Next]_vars PROVE HistoryInv'
    OBVIOUS
  <1>1. CASE Kept
    BY <1>1 DEF Kept, HistoryInv
  <1>2. CASE \E m : GrownBy(m)
    <2>1. PICK m : GrownBy(m)
      BY <1>2
    <2>2. HistoryOK(Append(history, m))
      BY <2>1, GrownHistory DEF GrownBy, HistoryInv
    <2> QED
      BY <2>1, <2>2 DEF GrownBy, HistoryInv
  <1>3. CASE \E m : Fresh(m)
    <2>1. PICK m : Fresh(m)
      BY <1>3
    <2>2. HistoryOK(Append(<<>>, m))
      BY <2>1, EmptyHistory, GrownHistory DEF Fresh
    <2> QED
      BY <2>1, <2>2 DEF Fresh, HistoryInv
  <1>4. CASE \E turn \in CodexTurns : Spoke(turn)
    BY <1>2, <1>4 DEF Spoke
  <1> QED
    BY <1>1, <1>2, <1>3, <1>4, NextHistory

\* While a request is under way the history it was made from does not change.
LEMMA NextSentInv == HistoryInv /\ SentInv /\ [Next]_vars => SentInv'
  <1> SUFFICES ASSUME HistoryInv, SentInv, [Next]_vars, phase' = "sent"
               PROVE  \/ \E turn : sent' = Translate(history', turn)
                      \/ \E images \in BOOLEAN : sent' = rewriteRequest(history', images)
                      \/ sent' = Forward(history')
    BY DEF SentInv
  <1>1. CASE Ask
    BY <1>1, AskGrows
  <1>2. CASE Interject
    BY <1>2, InterjectGrows
  <1>3. CASE Compact
    BY <1>3 DEF Compact
  <1>4. CASE SendCodex \/ SendDeepSeek \/ SendAnthropic
    BY <1>4, Zenon DEF SendCodex, SendDeepSeek, SendAnthropic, Send
  <1>5. CASE Refused
    BY <1>5 DEF Refused
  <1>6. CASE CodexAnswers
    BY <1>6, CodexGrows
  <1>7. CASE OtherAnswers
    BY <1>7, OtherGrows
  <1>8. CASE UNCHANGED vars
    BY <1>8, Zenon DEF vars, SentInv
  <1> QED
    BY <1>1, <1>2, <1>3, <1>4, <1>5, <1>6, <1>7, <1>8 DEF Next

\* Both hold at the start.
LEMMA InitHistoryInv == Init => HistoryInv /\ SentInv
  <1> SUFFICES ASSUME Init PROVE HistoryInv /\ SentInv
    OBVIOUS
  <1>1. history = <<>> /\ made = 0 /\ phase = "asking"
    BY DEF Init
  <1> QED
    BY <1>1, EmptyHistory DEF HistoryInv, SentInv

\* The invariant of the client and of the request that is out.
THEOREM ConversationInvariant == Spec => [](HistoryInv /\ SentInv)
  BY InitHistoryInv, NextHistoryInv, NextSentInv, PTL DEF Spec

-----------------------------------------------------------------------------
(* What each leg's request is made of.                                       *)

\* The fields of an Anthropic request.
LEMMA ForwardFields ==
    ASSUME NEW h
    PROVE  Forward(h).leg = "anthropic" /\ Forward(h).messages = Sanitize(h)
  BY DEF Forward

\* The fields of a DeepSeek request.
LEMMA RewriteFields ==
    ASSUME NEW h, NEW images
    PROVE  LET q == rewriteRequest(h, images)
               set == ResolveToolChanges(BlocksOf(h), Tools)
               hoisted == hoistFromMessages(h)
               slots == rewriteTools(Active(set), Discovered(hoisted))
           IN  /\ q.leg = "deepseek" /\ q.messages = hoisted
               /\ ~q.bad => ~set.bad
               /\ q.tools = translateTools(slots)
               /\ q.deferred = {t.name : t \in {u \in ToSet(slots) : u.deferred}}
               /\ q.choice = ~(slots = <<>> /\ Removed(set) # {})
  BY Zenon DEF rewriteRequest

\* The fields of a Codex request.
LEMMA TranslateFields ==
    ASSUME NEW h, NEW turn
    PROVE  LET q == Translate(h, turn)
               walk == translateMessages(h)
               set == ResolveToolChanges(BlocksOf(h), Tools)
           IN  /\ q.leg = "codex" /\ q.messages = <<>>
               /\ ~q.bad => ~set.bad
               /\ q.items = walk.items /\ q.orphans = walk.orphans
               /\ q.tools = translateTools(Active(set)) /\ q.deferred = {}
               /\ q.choice = ~(q.tools = <<>> /\ Removed(set) # {})
               /\ q.key = promptCacheKey(joinSystem(System(turn)), q.tools, walk.items)
  BY Zenon DEF Translate

\* Which request is out, by its leg.
LEMMA WhoseRequest ==
    ASSUME SentInv
    PROVE  /\ Going("codex") => \E turn : sent = Translate(history, turn)
           /\ Going("deepseek") => \E images \in BOOLEAN : sent = rewriteRequest(history, images)
           /\ Going("anthropic") => sent = Forward(history)
           /\ \A leg : Going(leg) => ~sent.bad
  <1>1. \A turn : Translate(history, turn).leg = "codex"
    BY TranslateFields
  <1>2. \A images : rewriteRequest(history, images).leg = "deepseek"
    BY RewriteFields
  <1>3. Forward(history).leg = "anthropic"
    BY ForwardFields
  <1> QED
    BY <1>1, <1>2, <1>3 DEF SentInv, Going, Rejected

-----------------------------------------------------------------------------
(* The two relays.                                                           *)

\* The blocks of a history are blocks.
LEMMA HistoryBlocks ==
    ASSUME NEW h \in Seq(Msgs)
    PROVE  BlocksOf(h) \in Seq(Blk) /\ ToSet(BlocksOf(h)) \subseteq Blk
  <1>1. BlocksOf(h) \in Seq(Blk)
    <2>1. CASE h = <<>>
      BY <2>1, LoopsEmpty, EmptySeq
    <2>2. CASE h # <<>>
      <3>1. h[Len(h)] \in Msgs
        BY <2>2, LastMessage
      <3> QED
        BY <3>1, BlocksStep
    <2> QED
      BY <2>1, <2>2
  <1> DEFINE blocks == BlocksOf(h)
  <1> HIDE DEF blocks
  <1>2. blocks \in Seq(Blk)
    BY <1>1 DEF blocks
  <1>3. ToSet(blocks) \subseteq Blk
    BY <1>2, ElementOfSeq DEF ToSet
  <1> QED
    BY <1>1, <1>3 DEF blocks

\* Both take out what they take out and nothing else.
LEMMA RelayFaithful ==
    ASSUME HistoryInv, NEW gone, \A b \in gone : b.kind \notin {"tool_use", "tool_result"}
    PROVE  LET messages == Strip(history, gone) IN
           /\ messages \in Seq(Msgs)
           /\ BlocksOf(messages) = Without(BlocksOf(history), gone)
           /\ BlocksOf(messages) \in Seq(Blk)
           /\ ToSet(BlocksOf(messages)) = ToSet(BlocksOf(history)) \ gone
           /\ \A i \in DOMAIN messages : messages[i].blocks # <<>>
           /\ Follows(BlocksOf(messages))
           /\ Unanswered(BlocksOf(messages)) = Unanswered(BlocksOf(history))
  <1> DEFINE messages == Strip(history, gone)
             blocks == BlocksOf(history)
  <1>1. history \in Seq(Msgs) /\ Follows(blocks) /\ \A m \in ToSet(history) : m.blocks # <<>>
    BY DEF HistoryInv, HistoryOK
  <1>2. /\ messages \in Seq(Msgs)
        /\ BlocksOf(messages) = Without(blocks, gone)
        /\ \A m \in ToSet(messages) : m.blocks # <<>>
    <2>2. /\ Strip(history, gone) \in Seq(Msgs)
          /\ BlocksOf(Strip(history, gone)) = Without(BlocksOf(history), gone)
          /\ (\A m \in ToSet(history) : m.blocks # <<>>)
                => \A m \in ToSet(Strip(history, gone)) : m.blocks # <<>>
      BY <1>1, StripFacts
    <2> QED
      BY <1>1, <2>2
  <1>3. blocks \in Seq(Blk)
    BY <1>1, HistoryBlocks
  <1> HIDE DEF blocks, messages
  <1>4. /\ Without(blocks, gone) \in Seq(Blk)
        /\ ToSet(Without(blocks, gone)) = ToSet(blocks) \ gone
        /\ Follows(Without(blocks, gone))
        /\ Unanswered(Without(blocks, gone)) = Unanswered(blocks)
    BY <1>1, <1>3, WithoutFacts, PairedWithout, LeftWithout
  <1>5. \A i \in DOMAIN messages : messages[i] \in ToSet(messages)
    BY DEF ToSet
  <1> QED
    BY <1>2, <1>4, <1>5 DEF messages, blocks

\* In a history, utraque's blocks are thoughts.
LEMMA MintedThoughts ==
    ASSUME HistoryInv
    PROVE  \A b \in ToSet(BlocksOf(history)) :
              IsSyntheticBlock(b) <=> b.kind = "thinking" /\ b.tag \in {"payload", "bare"}
  <1>1. ToSet(BlocksOf(history)) \subseteq Blk
    BY HistoryBlocks DEF HistoryInv, HistoryOK
  <1> QED
    BY <1>1 DEF Blk, IsSyntheticBlock

\* However the conversation moved between providers, Anthropic receives every
\* block it or the user made, in order, none with a signature utraque minted,
\* and no message without content (anthropic/sanitize.go).
THEOREM ConversationAnthropicFaithful == Spec => []AnthropicFaithful
  <1>1. HistoryInv /\ SentInv => AnthropicFaithful
    <2> SUFFICES ASSUME HistoryInv, SentInv, Going("anthropic")
                 PROVE  /\ BlocksOf(sent.messages) =
                              Without(BlocksOf(history),
                                      {b \in ToSet(BlocksOf(history)) :
                                          b.kind = "thinking" /\ b.tag \in {"payload", "bare"}})
                        /\ \A i \in DOMAIN sent.messages : sent.messages[i].blocks # <<>>
      BY DEF AnthropicFaithful
    <2> DEFINE blocks == BlocksOf(history)
               gone == {b \in ToSet(blocks) : IsSyntheticBlock(b)}
               minted == {b \in ToSet(blocks) : b.kind = "thinking" /\ b.tag \in {"payload", "bare"}}
    <2>1. sent.messages = Strip(history, gone)
      BY WhoseRequest, ForwardFields DEF Sanitize
    <2>2. \A b \in gone : b.kind \notin {"tool_use", "tool_result"}
      BY DEF IsSyntheticBlock
    <2>3. gone = minted
      BY MintedThoughts
    <2> HIDE DEF gone, minted
    <2> QED
      BY <2>1, <2>2, <2>3, RelayFaithful DEF minted
  <1> QED
    BY <1>1, ConversationInvariant, PTL

-----------------------------------------------------------------------------
(* The walk of the Codex leg.                                                *)

\* The types of the walk.
ItemKinds == {"message", "function_call", "function_call_output", "reasoning"}
ItemRoles == {"user", "assistant", "developer", None} \cup Tags
Carried == Names \cup {None} \cup Nat
Items == [kind : ItemKinds, role : ItemRoles, parts : Seq(Nat), tool : Carried]
Walks == [items : Seq(Items), pending : Seq(Nat), calls : SUBSET Carried,
          orphans : SUBSET Carried, dropped : SUBSET Nat, bad : BOOLEAN]

\* The types of a block's fields.
LEMMA BlkFields ==
    ASSUME NEW b \in Blk
    PROVE  b.kind \in Kinds /\ b.n \in Nat /\ b.tag \in Tags /\ b.tool \in Carried
  BY DEF Blk, Carried

\* The types of an input item's fields.
LEMMA ItemFields ==
    ASSUME NEW k \in ItemKinds, NEW r \in ItemRoles, NEW p \in Seq(Nat), NEW t \in Carried
    PROVE  LET it == Item(k, r, p, t)
           IN  it \in Items /\ it.kind = k /\ it.parts = p /\ it.tool = t
  <1> DEFINE N == Seq(Nat)
  <1>1. p \in N
    OBVIOUS
  <1>2. Items = [kind : ItemKinds, role : ItemRoles, parts : N, tool : Carried]
    BY DEF Items
  <1> HIDE DEF N
  <1> QED
    BY <1>1, <1>2 DEF Item

\* A walk with other items, or other pending parts, is a walk.
LEMMA WalkFields ==
    ASSUME NEW w \in Walks
    PROVE  /\ w.items \in Seq(Items) /\ w.pending \in Seq(Nat) /\ w.calls \in SUBSET Carried
           /\ w.orphans \in SUBSET Carried /\ w.dropped \in SUBSET Nat /\ w.bad \in BOOLEAN
  BY DEF Walks

\* The parts of a walk the next few operators leave alone.
Parted(w, v) == v.calls = w.calls /\ v.orphans = w.orphans

\* The edits a step of the walk is made of.
Flushed(w, i, p) == [w EXCEPT !.items = i, !.pending = p]
Awaiting(w, p) == [w EXCEPT !.pending = p]
Dropping(w, d) == [w EXCEPT !.dropped = d]
Broken(w) == [w EXCEPT !.bad = TRUE]
Calling(w, i, c) == [w EXCEPT !.items = i, !.calls = c]
Reporting(w, i, o) == [w EXCEPT !.items = i, !.orphans = o]
Itemed(w, i) == [w EXCEPT !.items = i]

\* A walk with its items and pending parts replaced.
LEMMA FlushedWalk ==
    ASSUME NEW w \in Walks, NEW i \in Seq(Items), NEW p \in Seq(Nat)
    PROVE  LET v == Flushed(w, i, p)
           IN  v \in Walks /\ v.items = i /\ v.pending = p /\ Parted(w, v)
  <1> DEFINE SI == Seq(Items)
             SN == Seq(Nat)
             C == SUBSET Carried
             D == SUBSET Nat
  <1>1. Walks = [items : SI, pending : SN, calls : C, orphans : C, dropped : D, bad : BOOLEAN]
    BY DEF Walks
  <1>2. i \in SI /\ p \in SN
    OBVIOUS
  <1> HIDE DEF SI, SN, C, D
  <1> QED
    BY <1>1, <1>2 DEF Flushed, Parted

\* A walk with its pending parts replaced.
LEMMA AwaitingWalk ==
    ASSUME NEW w \in Walks, NEW p \in Seq(Nat)
    PROVE  LET v == Awaiting(w, p)
           IN  v \in Walks /\ v.items = w.items /\ v.pending = p /\ Parted(w, v)
  <1> DEFINE SI == Seq(Items)
             SN == Seq(Nat)
             C == SUBSET Carried
             D == SUBSET Nat
  <1>1. Walks = [items : SI, pending : SN, calls : C, orphans : C, dropped : D, bad : BOOLEAN]
    BY DEF Walks
  <1>2. p \in SN
    OBVIOUS
  <1> HIDE DEF SI, SN, C, D
  <1> QED
    BY <1>1, <1>2 DEF Awaiting, Parted

\* A walk with what it dropped replaced.
LEMMA DroppingWalk ==
    ASSUME NEW w \in Walks, NEW d \in SUBSET Nat
    PROVE  LET v == Dropping(w, d)
           IN  v \in Walks /\ v.items = w.items /\ v.pending = w.pending /\ Parted(w, v)
  <1> DEFINE SI == Seq(Items)
             SN == Seq(Nat)
             C == SUBSET Carried
             D == SUBSET Nat
  <1>1. Walks = [items : SI, pending : SN, calls : C, orphans : C, dropped : D, bad : BOOLEAN]
    BY DEF Walks
  <1>2. d \in D
    OBVIOUS
  <1> HIDE DEF SI, SN, C, D
  <1> QED
    BY <1>1, <1>2 DEF Dropping, Parted

\* A walk marked bad.
LEMMA BrokenWalk ==
    ASSUME NEW w \in Walks
    PROVE  LET v == Broken(w)
           IN  v \in Walks /\ v.items = w.items /\ v.pending = w.pending /\ Parted(w, v)
  <1> DEFINE SI == Seq(Items)
             SN == Seq(Nat)
             C == SUBSET Carried
             D == SUBSET Nat
  <1>1. Walks = [items : SI, pending : SN, calls : C, orphans : C, dropped : D, bad : BOOLEAN]
    BY DEF Walks
  <1> HIDE DEF SI, SN, C, D
  <1> QED
    BY <1>1 DEF Broken, Parted

\* A walk with its items replaced.
LEMMA ItemedWalk ==
    ASSUME NEW w \in Walks, NEW i \in Seq(Items)
    PROVE  LET v == Itemed(w, i)
           IN  v \in Walks /\ v.items = i /\ v.pending = w.pending /\ Parted(w, v)
  <1> DEFINE SI == Seq(Items)
             SN == Seq(Nat)
             C == SUBSET Carried
             D == SUBSET Nat
  <1>1. Walks = [items : SI, pending : SN, calls : C, orphans : C, dropped : D, bad : BOOLEAN]
    BY DEF Walks
  <1>2. i \in SI
    OBVIOUS
  <1> HIDE DEF SI, SN, C, D
  <1> QED
    BY <1>1, <1>2 DEF Itemed, Parted

\* A walk with its items and calls replaced.
LEMMA CallingWalk ==
    ASSUME NEW w \in Walks, NEW i \in Seq(Items), NEW c \in SUBSET Carried
    PROVE  LET v == Calling(w, i, c)
           IN  /\ v \in Walks /\ v.items = i /\ v.pending = w.pending
               /\ v.calls = c /\ v.orphans = w.orphans
  <1> DEFINE SI == Seq(Items)
             SN == Seq(Nat)
             C == SUBSET Carried
             D == SUBSET Nat
  <1>1. Walks = [items : SI, pending : SN, calls : C, orphans : C, dropped : D, bad : BOOLEAN]
    BY DEF Walks
  <1>2. i \in SI /\ c \in C
    OBVIOUS
  <1> HIDE DEF SI, SN, C, D
  <1> QED
    BY <1>1, <1>2 DEF Calling, Parted

\* A walk with its items and orphans replaced.
LEMMA ReportingWalk ==
    ASSUME NEW w \in Walks, NEW i \in Seq(Items), NEW o \in SUBSET Carried
    PROVE  LET v == Reporting(w, i, o)
           IN  /\ v \in Walks /\ v.items = i /\ v.pending = w.pending
               /\ v.calls = w.calls /\ v.orphans = o
  <1> DEFINE SI == Seq(Items)
             SN == Seq(Nat)
             C == SUBSET Carried
             D == SUBSET Nat
  <1>1. Walks = [items : SI, pending : SN, calls : C, orphans : C, dropped : D, bad : BOOLEAN]
    BY DEF Walks
  <1>2. i \in SI /\ o \in C
    OBVIOUS
  <1> HIDE DEF SI, SN, C, D
  <1> QED
    BY <1>1, <1>2 DEF Reporting, Parted


\* What the model hears: its parts, of the kinds of the items that carry them.
Heard == [kind : ItemKinds, n : Nat]
Part(k, n) == [kind |-> k, n |-> n]
Texts(p) == [j \in DOMAIN p |-> Part("message", p[j])]
PartsOf(it) == [j \in DOMAIN it.parts |-> Part(it.kind, it.parts[j])]

\* What a block of the history comes to upstream.
Says(b) ==
    CASE b.kind = "text"        -> <<Part("message", b.n)>>
      [] b.kind = "image"       -> IF b.tag \in {"unsupported", "empty"} THEN <<>>
                                   ELSE <<Part("message", b.n)>>
      [] b.kind = "tool_use"    -> <<Part("function_call", b.n)>>
      [] b.kind = "tool_result" -> IF b.tag = "image"
                                   THEN <<Part("function_call_output", b.n), Part("message", b.n)>>
                                   ELSE <<Part("function_call_output", b.n)>>
      [] b.kind \in {"thinking", "redacted_thinking"} ->
                                   IF Replayable(b) THEN <<Part("reasoning", b.n)>> ELSE <<>>
      [] OTHER                  -> <<>>

\* What a sequence of blocks says.
SaysAll(blocks) == FlattenSeq([i \in DOMAIN blocks |-> Says(blocks[i])])

\* What flush makes of a walk.
LEMMA FlushShape ==
    ASSUME NEW w \in Walks, NEW role \in ItemRoles
    PROVE  LET f == flush(w, role) IN
           /\ f \in Walks /\ f.pending = <<>> /\ Parted(w, f)
           /\ f.items = IF w.pending = <<>> THEN w.items
                        ELSE Append(w.items, Item("message", role, w.pending, None))
  <1> DEFINE f == flush(w, role)
             more == Append(w.items, Item("message", role, w.pending, None))
  <1>1. w.items \in Seq(Items) /\ w.pending \in Seq(Nat)
    BY WalkFields
  <1>2. CASE w.pending = <<>>
    BY <1>2 DEF flush, Parted
  <1>3. CASE w.pending # <<>>
    <2>1. "message" \in ItemKinds /\ None \in Carried
      BY DEF ItemKinds, Carried
    <2>2. Item("message", role, w.pending, None) \in Items
      BY <1>1, <2>1, ItemFields
    <2>3. more \in Seq(Items)
      BY <1>1, <2>2, ToSetFacts
    <2>4. f = Flushed(w, more, <<>>)
      BY <1>3 DEF flush, Flushed
    <2> DEFINE none == <<>>
    <2>5. none \in Seq(Nat) /\ f = Flushed(w, more, none)
      BY <2>4
    <2> HIDE DEF f, more, none
    <2>6. f \in Walks /\ f.items = more /\ f.pending = none /\ Parted(w, f)
      BY <2>3, <2>5, FlushedWalk
    <2> QED
      BY <1>3, <2>6 DEF f, more, none
  <1> QED
    BY <1>2, <1>3

\* What taking a block does to a walk, w, whose flushed form is f.
Waits(w, v, b) ==
    /\ v.items = w.items /\ Parted(w, v)
    /\ \/ v.pending = Append(w.pending, b.n) /\ Says(b) = <<Part("message", b.n)>>
       \/ v.pending = w.pending /\ Says(b) = <<>>
Replays(f, v, b) ==
    /\ v.items = Append(f.items, Item("reasoning", None, <<b.n>>, None))
    /\ v.pending = <<>> /\ Parted(f, v)
    /\ Says(b) = <<Part("reasoning", b.n)>>
CallsOut(f, v, b) ==
    /\ v.items = Append(f.items, Item("function_call", None, <<b.n>>, b.tool))
    /\ v.pending = <<>> /\ v.calls = f.calls \cup {b.tool} /\ v.orphans = f.orphans
    /\ Says(b) = <<Part("function_call", b.n)>>
Reports(f, v, b) ==
    /\ LET told == Append(f.items, Item("function_call_output", b.tag, <<b.n>>, b.tool))
       IN  IF b.tag = "image"
           THEN /\ v.items = Append(told, Item("message", "user", <<b.n>>, None))
                /\ Says(b) = <<Part("function_call_output", b.n), Part("message", b.n)>>
           ELSE /\ v.items = told
                /\ Says(b) = <<Part("function_call_output", b.n)>>
    /\ v.pending = <<>> /\ v.calls = f.calls
    /\ v.orphans = IF b.tool \in f.calls THEN f.orphans ELSE f.orphans \cup {b.tool}

\* What TakeBlock makes of a walk: the block waits, replays, calls or reports.
LEMMA TakeShape ==
    ASSUME NEW w \in Walks, NEW role \in ItemRoles, NEW b \in Blk
    PROVE  LET f == flush(w, role)
               v == TakeBlock(w, role, b)
           IN  /\ v \in Walks
               /\ CASE b.kind = "tool_use"    -> CallsOut(f, v, b)
                    [] b.kind = "tool_result" -> Reports(f, v, b)
                    [] OTHER                  -> Waits(w, v, b) \/ Replays(f, v, b)
  <1> DEFINE f == flush(w, role)
             v == TakeBlock(w, role, b)
  <1>1. f \in Walks /\ f.pending = <<>> /\ Parted(w, f)
    BY FlushShape
  <1>2. /\ w.items \in Seq(Items) /\ w.pending \in Seq(Nat) /\ w.calls \in SUBSET Carried
        /\ w.dropped \in SUBSET Nat
        /\ f.items \in Seq(Items) /\ f.calls \in SUBSET Carried /\ f.orphans \in SUBSET Carried
    BY <1>1, WalkFields
  <1>3. b.n \in Nat /\ b.tag \in Tags /\ b.tool \in Carried
    BY BlkFields
  <1>4. <<b.n>> \in Seq(Nat) /\ Append(w.pending, b.n) \in Seq(Nat)
        /\ w.dropped \cup {b.n} \in SUBSET Nat
    BY <1>2, <1>3
  <1>5. /\ None \in Carried /\ None \in ItemRoles /\ b.tag \in ItemRoles /\ "user" \in ItemRoles
        /\ {"message", "function_call", "function_call_output", "reasoning"} \subseteq ItemKinds
    BY <1>3 DEF Carried, ItemRoles, ItemKinds
  <1> DEFINE thought == Item("reasoning", None, <<b.n>>, None)
             call == Item("function_call", None, <<b.n>>, b.tool)
             out == Item("function_call_output", b.tag, <<b.n>>, b.tool)
             pic == Item("message", "user", <<b.n>>, None)
  <1>6. thought \in Items /\ call \in Items /\ out \in Items /\ pic \in Items
    BY <1>3, <1>4, <1>5, ItemFields
  <1> HIDE DEF f, thought, call, out, pic
  <1>7. /\ Append(f.items, thought) \in Seq(Items)
        /\ Append(f.items, call) \in Seq(Items)
        /\ Append(f.items, out) \in Seq(Items)
        /\ Append(Append(f.items, out), pic) \in Seq(Items)
    BY <1>2, <1>6
  <1>8. CASE b.kind = "text"
    <2>1. v = Awaiting(w, Append(w.pending, b.n))
      BY <1>8 DEF TakeBlock, Awaiting
    <2>2. Says(b) = <<Part("message", b.n)>>
      BY <1>8 DEF Says
    <2> HIDE DEF v
    <2>3. v \in Walks /\ v.items = w.items /\ v.pending = Append(w.pending, b.n) /\ Parted(w, v)
      BY <1>4, <2>1, AwaitingWalk
    <2>4. Waits(w, v, b)
      BY <2>2, <2>3 DEF Waits
    <2> QED
      BY <1>8, <2>3, <2>4 DEF v, f
  <1>9. CASE b.kind = "image"
    <2>1. v = CASE b.tag = "unsupported" -> Broken(w)
                [] b.tag = "empty"       -> Dropping(w, w.dropped \cup {b.n})
                [] OTHER                 -> Awaiting(w, Append(w.pending, b.n))
      BY <1>9 DEF TakeBlock, TakeImage, Broken, Dropping, Awaiting
    <2>2. Says(b) = IF b.tag \in {"unsupported", "empty"} THEN <<>> ELSE <<Part("message", b.n)>>
      BY <1>9 DEF Says
    <2> HIDE DEF v
    <2>3. CASE b.tag = "unsupported"
      <3>1. v = Broken(w)
        BY <2>1, <2>3
      <3>2. v \in Walks /\ v.items = w.items /\ v.pending = w.pending /\ Parted(w, v)
        BY <3>1, BrokenWalk
      <3>3. Waits(w, v, b)
        BY <2>2, <2>3, <3>2 DEF Waits
      <3> QED
        BY <1>9, <3>2, <3>3 DEF v, f
    <2>4. CASE b.tag = "empty"
      <3>1. v = Dropping(w, w.dropped \cup {b.n})
        BY <2>1, <2>4
      <3>2. v \in Walks /\ v.items = w.items /\ v.pending = w.pending /\ Parted(w, v)
        BY <1>4, <3>1, DroppingWalk
      <3>3. Waits(w, v, b)
        BY <2>2, <2>4, <3>2 DEF Waits
      <3> QED
        BY <1>9, <3>2, <3>3 DEF v, f
    <2>5. CASE b.tag \notin {"unsupported", "empty"}
      <3>1. v = Awaiting(w, Append(w.pending, b.n))
        BY <2>1, <2>5
      <3>2. v \in Walks /\ v.items = w.items /\ v.pending = Append(w.pending, b.n) /\ Parted(w, v)
        BY <1>4, <3>1, AwaitingWalk
      <3>3. Waits(w, v, b)
        BY <2>2, <2>5, <3>2 DEF Waits
      <3> QED
        BY <1>9, <3>2, <3>3 DEF v, f
    <2> QED
      BY <2>3, <2>4, <2>5
  <1>10. CASE b.kind = "tool_use"
    <2>1. v = Calling(f, Append(f.items, call), f.calls \cup {b.tool})
      BY <1>10 DEF TakeBlock, TakeToolUse, f, call, Calling
    <2>2. Says(b) = <<Part("function_call", b.n)>>
      BY <1>10 DEF Says
    <2>3. f.calls \cup {b.tool} \in SUBSET Carried
      BY <1>2, <1>3
    <2> DEFINE more == Append(f.items, call)
               calls == f.calls \cup {b.tool}
    <2>6. v = Calling(f, more, calls) /\ more \in Seq(Items) /\ calls \in SUBSET Carried
      BY <1>7, <2>1, <2>3
    <2> HIDE DEF v, more, calls
    <2>7. v \in Walks /\ v.items = more /\ v.pending = f.pending
          /\ v.calls = calls /\ v.orphans = f.orphans
      BY <1>1, <2>6, CallingWalk
    <2>4. v \in Walks /\ v.items = Append(f.items, call) /\ v.pending = f.pending
          /\ v.calls = f.calls \cup {b.tool} /\ v.orphans = f.orphans
      BY <2>7 DEF more, calls
    <2>5. CallsOut(f, v, b)
      BY <1>1, <2>2, <2>4 DEF CallsOut, call
    <2> QED
      BY <1>10, <2>4, <2>5 DEF v, f
  <1>11. CASE b.kind = "tool_result"
    <2> DEFINE told == Append(f.items, out)
               items == IF b.tag = "image" THEN Append(told, pic) ELSE told
               orphans == IF b.tool \in f.calls THEN f.orphans ELSE f.orphans \cup {b.tool}
    <2>1. v = Reporting(f, items, orphans)
      <3>1. f.items \o (<<out>> \o (IF b.tag = "image" THEN <<pic>> ELSE <<>>)) = items
        <4>1. f.items \o (<<out>> \o <<pic>>) = Append(told, pic)
          BY <1>2, <1>6
        <4>2. f.items \o (<<out>> \o <<>>) = told
          BY <1>2, <1>6
        <4> QED
          BY <4>1, <4>2
      <3>2. (f.items \o <<out>>) \o (IF b.tag = "image" THEN <<pic>> ELSE <<>>) = items
        <4>1. (f.items \o <<out>>) \o <<pic>> = Append(told, pic)
          BY <1>2, <1>6
        <4>2. (f.items \o <<out>>) \o <<>> = told
          BY <1>2, <1>6
        <4> QED
          BY <4>1, <4>2
      <3>3. w.calls = f.calls
        BY <1>1 DEF Parted
      <3>4. v = TakeToolResult(w, role, b)
        BY <1>11 DEF TakeBlock
      <3> HIDE DEF items, v
      <3> QED
        BY <3>1, <3>2, <3>3, <3>4 DEF TakeToolResult, f, out, pic, Reporting
    <2>2. Says(b) = IF b.tag = "image"
                    THEN <<Part("function_call_output", b.n), Part("message", b.n)>>
                    ELSE <<Part("function_call_output", b.n)>>
      BY <1>11 DEF Says
    <2>3. orphans \in SUBSET Carried /\ items \in Seq(Items)
      BY <1>2, <1>3, <1>7
    <2> HIDE DEF v, items, orphans
    <2>4. v \in Walks /\ v.items = items /\ v.pending = f.pending
          /\ v.calls = f.calls /\ v.orphans = orphans
      BY <1>1, <2>1, <2>3, ReportingWalk
    <2>5. Reports(f, v, b)
      BY <1>1, <2>2, <2>4 DEF Reports, items, orphans, out, pic
    <2> QED
      BY <1>11, <2>4, <2>5 DEF v, f
  <1>12. CASE b.kind \in {"thinking", "redacted_thinking"}
    <2>1. v = TakeThinking(w, role, b)
      BY <1>12 DEF TakeBlock
    <2>2. Says(b) = IF Replayable(b) THEN <<Part("reasoning", b.n)>> ELSE <<>>
      BY <1>12 DEF Says
    <2>3. CASE Replayable(b)
      <3>1. v = Itemed(f, Append(f.items, thought))
        BY <2>1, <2>3 DEF TakeThinking, f, thought, Itemed
      <3> HIDE DEF v
      <3>2. v \in Walks /\ v.items = Append(f.items, thought) /\ v.pending = f.pending /\ Parted(f, v)
        BY <1>1, <1>7, <3>1, ItemedWalk
      <3>3. Replays(f, v, b)
        BY <1>1, <2>2, <2>3, <3>2 DEF Replays, thought
      <3> QED
        BY <1>12, <3>2, <3>3 DEF v, f
    <2>4. CASE ~Replayable(b)
      <3>1. v = Dropping(w, w.dropped \cup {b.n})
        BY <2>1, <2>4 DEF TakeThinking, Dropping
      <3> HIDE DEF v
      <3>2. v \in Walks /\ v.items = w.items /\ v.pending = w.pending /\ Parted(w, v)
        BY <1>4, <3>1, DroppingWalk
      <3>3. Waits(w, v, b)
        BY <2>2, <2>4, <3>2 DEF Waits
      <3> QED
        BY <1>12, <3>2, <3>3 DEF v, f
    <2> QED
      BY <2>3, <2>4
  <1>13. CASE b.kind \notin {"text", "image", "tool_use", "tool_result", "thinking", "redacted_thinking"}
    <2>1. v = w /\ Says(b) = <<>>
      BY <1>13 DEF TakeBlock, Says
    <2>2. Waits(w, v, b)
      BY <2>1 DEF Waits, Parted
    <2> QED
      BY <1>13, <2>1, <2>2 DEF f
  <1> QED
    BY <1>8, <1>9, <1>10, <1>11, <1>12, <1>13

-----------------------------------------------------------------------------
(* What an input says.                                                       *)

\* A piece for each element, one after the other, as the elements grow.
Pieces(g, t) == FlattenSeq([i \in DOMAIN t |-> g[t[i]]])

\* A flattened map over one more element.
LEMMA PiecesStep ==
    ASSUME NEW S, NEW A, NEW g \in [A -> Seq(S)], NEW s \in Seq(A), NEW x \in A
    PROVE  /\ Pieces(g, <<>>) = <<>>
           /\ Pieces(g, Append(s, x)) = Pieces(g, s) \o g[x]
           /\ Pieces(g, s) \in Seq(S)
  <1> DEFINE F(t) == [i \in DOMAIN t |-> g[t[i]]]
             SS == Seq(S)
  <1>1. F(<<>>) = <<>>
    OBVIOUS
  <1>2. \A y \in A : g[y] \in SS
    OBVIOUS
  <1> HIDE DEF SS
  <1>3. F(s) \in Seq(SS) /\ g[x] \in SS
    <2>1. \A i \in 1..Len(s) : g[s[i]] \in SS
      <3>1. \A i \in 1..Len(s) : s[i] \in A
        BY ElementOfSeq
      <3> QED
        BY <1>2, <3>1
    <2>2. F(s) = [i \in 1..Len(s) |-> g[s[i]]]
      OBVIOUS
    <2> QED
      BY <1>2, <2>1, <2>2, IsASeq
  <1>4. F(Append(s, x)) = Append(F(s), g[x])
    <2>1. DOMAIN s = 1..Len(s) /\ DOMAIN Append(s, x) = 1..(Len(s) + 1)
      OBVIOUS
    <2>2. Len(F(s)) = Len(s)
      BY <1>3, <2>1, LenProperties
    <2>3. ASSUME NEW i \in 1..(Len(s) + 1)
          PROVE  F(Append(s, x))[i] = Append(F(s), g[x])[i]
      BY <1>3, <2>1, <2>2
    <2>4. Append(F(s), g[x]) \in Seq(SS) /\ Len(Append(F(s), g[x])) = Len(s) + 1
      BY <1>3, <2>2
    <2> QED
      BY <2>1, <2>3, <2>4
  <1> HIDE DEF F
  <1>5. /\ FlattenSeq(F(<<>>)) = <<>>
        /\ FlattenSeq(F(Append(s, x))) = FlattenSeq(F(s)) \o g[x]
        /\ FlattenSeq(F(s)) \in Seq(S)
    BY <1>1, <1>3, <1>4, FlattenStep DEF SS
  <1> QED
    BY <1>5, Zenon DEF F, Pieces

\* Parts of an item, of a block.
LEMMA PartsHeard ==
    /\ \A it \in Items : PartsOf(it) \in Seq(Heard)
    /\ \A p \in Seq(Nat) : Texts(p) \in Seq(Heard) /\ Len(Texts(p)) = Len(p)
    /\ \A b \in Blk : Says(b) \in Seq(Heard)
  <1>1. \A k \in ItemKinds, n \in Nat : Part(k, n) \in Heard
    BY DEF Part, Heard
  <1>0. {"message", "function_call", "function_call_output", "reasoning"} \subseteq ItemKinds
    BY DEF ItemKinds
  <1>2. ASSUME NEW it \in Items PROVE PartsOf(it) \in Seq(Heard)
    <2>1. it.kind \in ItemKinds /\ it.parts \in Seq(Nat)
      BY DEF Items
    <2>2. \A j \in 1..Len(it.parts) : it.parts[j] \in Nat
      BY <2>1, ElementOfSeq
    <2>3. \A j \in 1..Len(it.parts) : Part(it.kind, it.parts[j]) \in Heard
      BY <1>1, <2>1, <2>2
    <2>4. PartsOf(it) = [j \in 1..Len(it.parts) |-> Part(it.kind, it.parts[j])] /\ Len(it.parts) \in Nat
      BY <2>1 DEF PartsOf
    <2> QED
      BY <2>3, <2>4, IsASeq
  <1>3. ASSUME NEW p \in Seq(Nat) PROVE Texts(p) \in Seq(Heard) /\ Len(Texts(p)) = Len(p)
    <2>1. \A j \in 1..Len(p) : Part("message", p[j]) \in Heard
      BY <1>0, <1>1, ElementOfSeq
    <2>2. Texts(p) = [j \in 1..Len(p) |-> Part("message", p[j])] /\ Len(p) \in Nat
      BY DEF Texts
    <2> QED
      BY <2>1, <2>2, IsASeq, LenProperties
  <1>4. ASSUME NEW b \in Blk PROVE Says(b) \in Seq(Heard)
    <2>1. b.n \in Nat
      BY BlkFields
    <2>2. \A k \in ItemKinds : Part(k, b.n) \in Heard
      BY <1>1, <2>1
    <2>3. /\ Part("message", b.n) \in Heard /\ Part("function_call", b.n) \in Heard
          /\ Part("function_call_output", b.n) \in Heard /\ Part("reasoning", b.n) \in Heard
      BY <1>0, <2>2
    <2>4. /\ <<>> \in Seq(Heard)
          /\ <<Part("message", b.n)>> \in Seq(Heard)
          /\ <<Part("function_call", b.n)>> \in Seq(Heard)
          /\ <<Part("function_call_output", b.n)>> \in Seq(Heard)
          /\ <<Part("reasoning", b.n)>> \in Seq(Heard)
          /\ <<Part("function_call_output", b.n), Part("message", b.n)>> \in Seq(Heard)
      BY <2>3
    <2> DEFINE SH == Seq(Heard)
    <2> HIDE DEF SH
    <2>5. Says(b) \in SH
      BY <2>4 DEF SH, Says
    <2> QED
      BY <2>5 DEF SH
  <1> QED
    BY <1>2, <1>3, <1>4

\* The model reads one item after the other,
LEMMA ReadStep ==
    ASSUME NEW items \in Seq(Items), NEW it \in Items
    PROVE  /\ Read(<<>>) = <<>>
           /\ Read(Append(items, it)) = Read(items) \o PartsOf(it)
           /\ Read(items) \in Seq(Heard) /\ PartsOf(it) \in Seq(Heard)
  <1> DEFINE g == [x \in Items |-> PartsOf(x)]
             F(t) == [i \in DOMAIN t |-> g[t[i]]]
             G(t) == [i \in DOMAIN t |-> PartsOf(t[i])]
  <1>1. \A t : Read(t) = FlattenSeq(G(t))
    BY DEF Read, PartsOf, Part
  <1>2. g \in [Items -> Seq(Heard)] /\ g[it] = PartsOf(it)
    BY PartsHeard
  <1>3. \A t \in Seq(Items) : F(t) = G(t)
    <2> SUFFICES ASSUME NEW t \in Seq(Items) PROVE F(t) = G(t)
      OBVIOUS
    <2>1. \A i \in DOMAIN t : t[i] \in Items
      BY ElementOfSeq
    <2>2. \A i \in DOMAIN t : g[t[i]] = PartsOf(t[i])
      BY <2>1
    <2> QED
      BY <2>2
  <1>4. <<>> \in Seq(Items) /\ Append(items, it) \in Seq(Items)
    BY EmptySeq, ToSetFacts
  <1> HIDE DEF g, G
  <1>5. /\ Pieces(g, <<>>) = <<>>
        /\ Pieces(g, Append(items, it)) = Pieces(g, items) \o g[it]
        /\ Pieces(g, items) \in Seq(Heard)
    BY <1>2, PiecesStep
  <1>6. \A t \in Seq(Items) : Read(t) = Pieces(g, t)
    BY <1>1, <1>3, Zenon DEF Pieces, F
  <1> DEFINE e == <<>>
             m == Append(items, it)
  <1>7. e \in Seq(Items) /\ m \in Seq(Items)
    BY <1>4
  <1>8. Pieces(g, e) = <<>> /\ Pieces(g, m) = Pieces(g, items) \o g[it]
    BY <1>5
  <1> HIDE DEF F, e, m
  <1>9. Read(e) = <<>> /\ Read(m) = Read(items) \o PartsOf(it) /\ Read(items) \in Seq(Heard)
    BY <1>2, <1>5, <1>6, <1>7, <1>8
  <1> QED
    BY <1>9, PartsHeard DEF e, m

\* and a history says one block after the other.
LEMMA SaysStep ==
    ASSUME NEW s \in Seq(Blk), NEW b \in Blk
    PROVE  /\ SaysAll(<<>>) = <<>>
           /\ SaysAll(Append(s, b)) = SaysAll(s) \o Says(b)
           /\ SaysAll(s) \in Seq(Heard) /\ Says(b) \in Seq(Heard)
  <1> DEFINE g == [x \in Blk |-> Says(x)]
             F(t) == [i \in DOMAIN t |-> g[t[i]]]
             G(t) == [i \in DOMAIN t |-> Says(t[i])]
  <1>1. \A t : SaysAll(t) = FlattenSeq(G(t))
    BY DEF SaysAll
  <1>2. g \in [Blk -> Seq(Heard)] /\ g[b] = Says(b)
    BY PartsHeard
  <1>3. \A t \in Seq(Blk) : F(t) = G(t)
    <2> SUFFICES ASSUME NEW t \in Seq(Blk) PROVE F(t) = G(t)
      OBVIOUS
    <2>1. \A i \in DOMAIN t : t[i] \in Blk
      BY ElementOfSeq
    <2>2. \A i \in DOMAIN t : g[t[i]] = Says(t[i])
      BY <2>1
    <2> QED
      BY <2>2
  <1>4. <<>> \in Seq(Blk) /\ Append(s, b) \in Seq(Blk)
    BY EmptySeq, ToSetFacts
  <1> HIDE DEF g, G
  <1>5. /\ Pieces(g, <<>>) = <<>>
        /\ Pieces(g, Append(s, b)) = Pieces(g, s) \o g[b]
        /\ Pieces(g, s) \in Seq(Heard)
    BY <1>2, PiecesStep
  <1>6. \A t \in Seq(Blk) : SaysAll(t) = Pieces(g, t)
    BY <1>1, <1>3, Zenon DEF Pieces, F
  <1> DEFINE e == <<>>
             m == Append(s, b)
  <1>7. e \in Seq(Blk) /\ m \in Seq(Blk)
    BY <1>4
  <1>8. Pieces(g, e) = <<>> /\ Pieces(g, m) = Pieces(g, s) \o g[b]
    BY <1>5
  <1> HIDE DEF F, e, m
  <1>9. SaysAll(e) = <<>> /\ SaysAll(m) = SaysAll(s) \o Says(b) /\ SaysAll(s) \in Seq(Heard)
    BY <1>2, <1>5, <1>6, <1>7, <1>8
  <1> QED
    BY <1>9, PartsHeard DEF e, m

\* What two sequences of blocks say together.
LEMMA SaysConcat ==
    ASSUME NEW s \in Seq(Blk), NEW t \in Seq(Blk)
    PROVE  /\ SaysAll(s \o t) = SaysAll(s) \o SaysAll(t)
           /\ SaysAll(s) \in Seq(Heard) /\ SaysAll(t) \in Seq(Heard)
  <1> DEFINE T == {u \in Seq(Blk) : /\ SaysAll(s \o u) = SaysAll(s) \o SaysAll(u)
                                    /\ SaysAll(s) \in Seq(Heard) /\ SaysAll(u) \in Seq(Heard)}
  <1>0. SaysAll(s) \in Seq(Heard) /\ SaysAll(<<>>) = <<>>
    <2>1. CASE s = <<>>
      <3>1. <<>> \in Seq(Heard) /\ FlattenSeq(<<>>) = <<>>
        BY EmptySeq, LoopsEmpty
      <3>2. [i \in DOMAIN <<>> |-> Says(<<>>[i])] = <<>>
        OBVIOUS
      <3> QED
        BY <2>1, <3>1, <3>2 DEF SaysAll
    <2>2. CASE s # <<>>
      <3>1. s[1] \in Blk
        BY <2>2
      <3> QED
        BY <3>1, SaysStep
    <2> QED
      BY <2>1, <2>2
  <1>1. <<>> \in T
    <2>1. s \o <<>> = s /\ SaysAll(s) \o <<>> = SaysAll(s) /\ <<>> \in Seq(Heard)
      BY <1>0, ConcatEmptySeq, EmptySeq
    <2> QED
      BY <1>0, <2>1, EmptySeq
  <1>2. ASSUME NEW u \in Seq(Blk), NEW b \in Blk, u \in T PROVE Append(u, b) \in T
    <2>1. s \o u \in Seq(Blk) /\ s \o Append(u, b) = Append(s \o u, b) /\ Append(u, b) \in Seq(Blk)
      BY ConcatStep
    <2> DEFINE su == s \o u
    <2>2. SaysAll(Append(su, b)) = SaysAll(su) \o Says(b)
      <3>1. su \in Seq(Blk)
        BY <2>1
      <3> HIDE DEF su
      <3> QED
        BY <3>1, SaysStep
    <2>3. SaysAll(Append(u, b)) = SaysAll(u) \o Says(b) /\ Says(b) \in Seq(Heard)
      BY SaysStep
    <2>4. SaysAll(su) = SaysAll(s) \o SaysAll(u) /\ SaysAll(u) \in Seq(Heard)
      BY <1>2
    <2>5. (SaysAll(s) \o SaysAll(u)) \o Says(b) = SaysAll(s) \o (SaysAll(u) \o Says(b))
      BY <1>0, <2>3, <2>4, ConcatAssociative
    <2>6. SaysAll(u) \o Says(b) \in Seq(Heard)
      BY <2>3, <2>4, ConcatProperties
    <2>7. SaysAll(s \o Append(u, b)) = SaysAll(s) \o SaysAll(Append(u, b))
      BY <2>1, <2>2, <2>3, <2>4, <2>5
    <2> QED
      BY <1>0, <2>1, <2>3, <2>6, <2>7
  <1> HIDE DEF T
  <1>3. t \in T
    BY <1>1, <1>2, SeqSetInduction
  <1> QED
    BY <1>3 DEF T

-----------------------------------------------------------------------------
(* What the walk of the Codex leg has made of the blocks it has read.        *)

\* Every call heard of has its item, and every output follows its call.
CallsHave(items, calls) ==
    \A c \in calls : \E it \in ToSet(items) : it.kind = "function_call" /\ it.tool = c
Outputs(items) == PairedBy(items, "function_call_output", "function_call")

\* What a walk has said so far, its pending parts included.
Said(w) == Read(w.items) \o Texts(w.pending)

\* The invariant of the walk over the blocks s.
WalkOK(w, s) ==
    /\ w \in Walks
    /\ w.orphans = {}
    /\ CallsHave(w.items, w.calls) /\ Outputs(w.items)
    /\ \A b \in ToSet(s) : b.kind = "tool_use" => b.tool \in w.calls
    /\ Said(w) = SaysAll(s)
    /\ Open(w.items) = Unanswered(s)

\* Items are only added: the first one stays.
Starts(w, v) == w.items # <<>> => v.items # <<>> /\ v.items[1] = w.items[1]

\* One more item.
LEMMA ItemAppended ==
    ASSUME NEW items \in Seq(Items), NEW it \in Items, NEW calls, NEW others,
           CallsHave(items, calls), Outputs(items),
           it.kind = "function_call_output" => it.tool \in calls,
           \A c \in others : c \in calls \/ (it.kind = "function_call" /\ it.tool = c)
    PROVE  LET more == Append(items, it) IN
           /\ more \in Seq(Items) /\ CallsHave(more, others) /\ Outputs(more)
           /\ Read(more) = Read(items) \o PartsOf(it)
           /\ Read(items) \in Seq(Heard) /\ PartsOf(it) \in Seq(Heard)
           /\ more # <<>> /\ (items # <<>> => more[1] = items[1])
           /\ it.kind = "function_call" => Open(more) = Open(items) \cup {it.tool}
           /\ it.kind = "function_call_output" => Open(more) = Open(items) \ {it.tool}
           /\ it.kind \notin {"function_call", "function_call_output"} => Open(more) = Open(items)
  <1> DEFINE more == Append(items, it)
  <1>1. ToSet(more) = ToSet(items) \cup {it}
    BY ToSetFacts
  <1>2. /\ Read(more) = Read(items) \o PartsOf(it)
        /\ Read(items) \in Seq(Heard) /\ PartsOf(it) \in Seq(Heard)
    BY ReadStep
  <1>3. more \in Seq(Items) /\ more # <<>> /\ (items # <<>> => more[1] = items[1])
    OBVIOUS
  <1>4. Outputs(more) <=>
           /\ Outputs(items)
           /\ it.kind = "function_call_output"
                 => \E c \in ToSet(items) : c.kind = "function_call" /\ c.tool = it.tool
    BY PairedByStep DEF Outputs
  <1>7. /\ it.kind = "function_call" => Open(more) = Open(items) \cup {it.tool}
        /\ it.kind = "function_call_output" => Open(more) = Open(items) \ {it.tool}
        /\ it.kind \notin {"function_call", "function_call_output"} => Open(more) = Open(items)
    <2>1. Open(more) = (IF it.kind = "function_call_output" THEN Open(items) \ {it.tool}
                        ELSE Open(items))
                       \cup (IF it.kind = "function_call" THEN {it.tool} ELSE {})
      BY LeftStep DEF Open
    <2> HIDE DEF more
    <2> QED
      BY <2>1
  <1> HIDE DEF more
  <1>5. CallsHave(more, others)
    BY <1>1 DEF CallsHave
  <1>6. Outputs(more)
    BY <1>4 DEF CallsHave
  <1> QED
    BY <1>2, <1>3, <1>5, <1>6, <1>7 DEF more

\* The parts of the items there are.
LEMMA ItemParts ==
    /\ \A r, p : PartsOf(Item("message", r, p, None)) = Texts(p)
    /\ \A k, r, n, t : PartsOf(Item(k, r, <<n>>, t)) = <<Part(k, n)>>
    /\ Texts(<<>>) = <<>>
    /\ \A p \in Seq(Nat), n \in Nat :
          Texts(Append(p, n)) = Texts(p) \o <<Part("message", n)>>
  <1>1. \A r, p : PartsOf(Item("message", r, p, None)) = Texts(p)
    BY DEF PartsOf, Item, Texts
  <1>2. ASSUME NEW k, NEW r, NEW n, NEW t PROVE PartsOf(Item(k, r, <<n>>, t)) = <<Part(k, n)>>
    <2>1. PartsOf(Item(k, r, <<n>>, t)) = [j \in DOMAIN <<n>> |-> Part(k, <<n>>[j])]
      BY DEF PartsOf, Item
    <2>2. DOMAIN <<n>> = 1..1 /\ <<n>>[1] = n
      OBVIOUS
    <2>3. [j \in 1..1 |-> Part(k, <<n>>[j])] = <<Part(k, n)>>
      OBVIOUS
    <2> QED
      BY <2>1, <2>2, <2>3
  <1>3. Texts(<<>>) = <<>>
    BY DEF Texts
  <1>4. ASSUME NEW p \in Seq(Nat), NEW n \in Nat
        PROVE  Texts(Append(p, n)) = Texts(p) \o <<Part("message", n)>>
    <2> DEFINE q == Append(p, n)
               m == Part("message", n)
               old == Texts(p)
               new == Texts(q)
    <2>1. /\ Len(q) = Len(p) + 1 /\ Len(p) \in Nat /\ DOMAIN p = 1..Len(p)
          /\ DOMAIN q = 1..(Len(p) + 1)
          /\ q[Len(p) + 1] = n /\ \A j \in 1..Len(p) : q[j] = p[j]
      OBVIOUS
    <2>2. q \in Seq(Nat)
      OBVIOUS
    <2>3. old \in Seq(Heard) /\ Len(old) = Len(p) /\ new \in Seq(Heard) /\ Len(new) = Len(p) + 1
      BY <2>1, <2>2, PartsHeard
    <2>4. m \in Heard
      BY DEF Part, Heard, ItemKinds
    <2>5. (\A j \in 1..Len(p) : old[j] = Part("message", p[j])) /\ \A j \in 1..(Len(p) + 1) : new[j] = Part("message", q[j])
      BY <2>1 DEF Texts
    <2> HIDE DEF old, new, q
    <2>6. ASSUME NEW j \in 1..(Len(p) + 1) PROVE new[j] = (old \o <<m>>)[j]
      <3>1. (old \o <<m>>)[j] = IF j <= Len(p) THEN old[j] ELSE m
        BY <2>1, <2>3, <2>4
      <3>2. CASE j <= Len(p)
        <4>1. j \in 1..Len(p)
          BY <2>1, <3>2
        <4> QED
          BY <2>1, <2>5, <3>1, <3>2, <4>1
      <3>3. CASE ~(j <= Len(p))
        <4>1. j = Len(p) + 1
          BY <2>1, <3>3
        <4> QED
          BY <2>1, <2>5, <3>1, <3>3, <4>1
      <3> QED
        BY <3>2, <3>3
    <2>7. old \o <<m>> \in Seq(Heard) /\ Len(old \o <<m>>) = Len(p) + 1
      BY <2>3, <2>4
    <2>8. new = old \o <<m>>
      BY <2>3, <2>6, <2>7
    <2> QED
      BY <2>8 DEF old, new, q
  <1> QED
    BY <1>1, <1>2, <1>3, <1>4

\* Flushing says nothing new.
LEMMA FlushOK ==
    ASSUME NEW w, NEW s, NEW role \in ItemRoles, WalkOK(w, s)
    PROVE  LET f == flush(w, role)
           IN  WalkOK(f, s) /\ f.pending = <<>> /\ Starts(w, f)
  <1> DEFINE f == flush(w, role)
             m == Item("message", role, w.pending, None)
  <1>0. w \in Walks
    BY DEF WalkOK
  <1>1. /\ f \in Walks /\ f.pending = <<>> /\ f.calls = w.calls /\ f.orphans = w.orphans
        /\ f.items = IF w.pending = <<>> THEN w.items ELSE Append(w.items, m)
    BY <1>0, FlushShape DEF Parted
  <1>2. w.items \in Seq(Items) /\ w.pending \in Seq(Nat)
    BY <1>0, WalkFields
  <1>3. m \in Items /\ m.kind = "message" /\ PartsOf(m) = Texts(w.pending)
    <2>1. "message" \in ItemKinds /\ None \in Carried
      BY DEF ItemKinds, Carried
    <2> QED
      BY <1>2, <2>1, ItemFields, ItemParts
  <1>4. CallsHave(w.items, w.calls) /\ Outputs(w.items) /\ w.orphans = {}
        /\ (\A b \in ToSet(s) : b.kind = "tool_use" => b.tool \in w.calls) /\ Said(w) = SaysAll(s)
        /\ Open(w.items) = Unanswered(s)
    BY DEF WalkOK
  <1> HIDE DEF f, m
  <1>5. /\ Append(w.items, m) \in Seq(Items) /\ CallsHave(Append(w.items, m), w.calls)
        /\ Outputs(Append(w.items, m))
        /\ Read(Append(w.items, m)) = Read(w.items) \o Texts(w.pending)
        /\ Read(w.items) \in Seq(Heard) /\ Texts(w.pending) \in Seq(Heard)
        /\ Append(w.items, m) # <<>> /\ (w.items # <<>> => Append(w.items, m)[1] = w.items[1])
        /\ Open(Append(w.items, m)) = Open(w.items)
    BY <1>2, <1>3, <1>4, ItemAppended
  <1>6. Said(f) = Read(f.items)
    <2>1. f.items \in Seq(Items)
      BY <1>1, WalkFields
    <2>2. Read(f.items) \in Seq(Heard)
      BY <1>3, <2>1, ReadStep
    <2>3. Read(f.items) \o <<>> = Read(f.items)
      BY <2>2, ConcatEmptySeq
    <2> QED
      BY <1>1, <2>3, ItemParts DEF Said
  <1>7. CASE w.pending = <<>>
    <2>1. Read(w.items) \o <<>> = Read(w.items)
      BY <1>5, ConcatEmptySeq
    <2>2. f.items = w.items /\ Said(w) = Read(w.items)
      BY <1>1, <1>7, <2>1, ItemParts DEF Said
    <2> QED
      BY <1>1, <1>4, <1>6, <2>2 DEF WalkOK, Starts, f
  <1>8. CASE w.pending # <<>>
    <2>1. f.items = Append(w.items, m) /\ Said(w) = Read(w.items) \o Texts(w.pending)
      BY <1>1, <1>8 DEF Said
    <2> QED
      BY <1>1, <1>4, <1>5, <1>6, <2>1 DEF WalkOK, Starts, f
  <1> QED
    BY <1>7, <1>8

\* Two parts, one after the other.
LEMMA PairOfParts ==
    ASSUME NEW o \in Heard, NEW p \in Heard
    PROVE  <<o>> \o <<p>> = <<o, p>>
  <1> DEFINE l == <<o>>
             r == <<p>>
             lr == <<o, p>>
             cat == l \o r
  <1>1. /\ l \in Seq(Heard) /\ r \in Seq(Heard) /\ lr \in Seq(Heard)
        /\ Len(l) = 1 /\ Len(r) = 1 /\ Len(lr) = 2
        /\ l[1] = o /\ r[1] = p /\ lr[1] = o /\ lr[2] = p
    OBVIOUS
  <1> HIDE DEF l, r, lr
  <1>2. cat \in Seq(Heard) /\ Len(cat) = 2 /\ cat[1] = o /\ cat[2] = p
    <2>1. /\ cat \in Seq(Heard) /\ Len(cat) = Len(l) + Len(r)
          /\ \A i \in 1..(Len(l) + Len(r)) : cat[i] = IF i <= Len(l) THEN l[i] ELSE r[i - Len(l)]
      BY <1>1, ConcatProperties
    <2> HIDE DEF cat
    <2>2. Len(cat) = 2 /\ 1 \in 1..2 /\ 2 \in 1..2 /\ 1 <= 1 /\ ~(2 <= 1) /\ 2 - 1 = 1 /\ 1 + 1 = 2
      BY <1>1, <2>1
    <2> QED
      BY <1>1, <2>1, <2>2
  <1> HIDE DEF cat
  <1>3. \A i \in 1..2 : i = 1 \/ i = 2
    OBVIOUS
  <1>4. Len(cat) = Len(lr) /\ \A i \in 1..Len(cat) : cat[i] = lr[i]
    BY <1>1, <1>2, <1>3
  <1>5. cat = lr
    BY <1>1, <1>2, <1>4, SeqEqual
  <1> QED
    BY <1>5 DEF cat, l, r, lr

\* A block after the blocks read: the walk is still right about all of them.
LEMMA TakeOK ==
    ASSUME NEW w, NEW s \in Seq(Blk), NEW b \in Blk, NEW role \in ItemRoles,
           WalkOK(w, s), Follows(Append(s, b))
    PROVE  LET v == TakeBlock(w, role, b)
           IN  WalkOK(v, Append(s, b)) /\ Starts(w, v)
  <1> DEFINE f == flush(w, role)
             v == TakeBlock(w, role, b)
             t == Append(s, b)
  <1>0. w \in Walks
    BY DEF WalkOK
  <1>1. /\ v \in Walks
        /\ CASE b.kind = "tool_use"    -> CallsOut(f, v, b)
             [] b.kind = "tool_result" -> Reports(f, v, b)
             [] OTHER                  -> Waits(w, v, b) \/ Replays(f, v, b)
    BY <1>0, TakeShape
  <1>2. WalkOK(f, s) /\ f.pending = <<>> /\ Starts(w, f) /\ f \in Walks /\ f.calls = w.calls
    <2>1. WalkOK(f, s) /\ f.pending = <<>> /\ Starts(w, f)
      BY FlushOK
    <2> QED
      BY <1>0, <2>1, FlushShape DEF Parted
  <1>3. ToSet(t) = ToSet(s) \cup {b} /\ SaysAll(t) = SaysAll(s) \o Says(b)
        /\ SaysAll(s) \in Seq(Heard) /\ Says(b) \in Seq(Heard)
    BY ToSetFacts, SaysStep
  <1>13. Unanswered(t) = (IF b.kind = "tool_result" THEN Unanswered(s) \ {b.tool} ELSE Unanswered(s))
                         \cup (IF b.kind = "tool_use" THEN {b.tool} ELSE {})
    BY LeftStep DEF Unanswered
  <1>4. b.kind = "tool_result" => b.tool \in f.calls
    <2>1. b.kind = "tool_result" => \E c \in ToSet(s) : Calls(b, c)
      BY PairedStep
    <2> QED
      BY <1>2, <2>1 DEF Calls, WalkOK
  <1>5. b.n \in Nat /\ b.tag \in Tags /\ b.tool \in Carried
    BY BlkFields
  <1> DEFINE thought == Item("reasoning", None, <<b.n>>, None)
             call == Item("function_call", None, <<b.n>>, b.tool)
             out == Item("function_call_output", b.tag, <<b.n>>, b.tool)
             pic == Item("message", "user", <<b.n>>, None)
  <1>6. /\ thought \in Items /\ thought.kind = "reasoning"
        /\ PartsOf(thought) = <<Part("reasoning", b.n)>>
        /\ call \in Items /\ call.kind = "function_call" /\ call.tool = b.tool
        /\ PartsOf(call) = <<Part("function_call", b.n)>>
        /\ out \in Items /\ out.kind = "function_call_output" /\ out.tool = b.tool
        /\ PartsOf(out) = <<Part("function_call_output", b.n)>>
        /\ pic \in Items /\ pic.kind = "message"
        /\ PartsOf(pic) = <<Part("message", b.n)>>
    <2>1. /\ None \in Carried /\ None \in ItemRoles /\ b.tag \in ItemRoles /\ "user" \in ItemRoles
          /\ "message" \in ItemKinds /\ "function_call" \in ItemKinds
          /\ "function_call_output" \in ItemKinds /\ "reasoning" \in ItemKinds
          /\ b.tool \in Carried
      BY <1>5 DEF Carried, ItemRoles, ItemKinds
    <2> DEFINE p == <<b.n>>
               Fits(it, k, c) == /\ it \in Items /\ it.kind = k /\ it.tool = c
                                 /\ PartsOf(it) = <<Part(k, b.n)>>
    <2>2. ASSUME NEW k \in ItemKinds, NEW r \in ItemRoles, NEW c \in Carried
          PROVE  Fits(Item(k, r, p, c), k, c)
      <3>1. p \in Seq(Nat)
        BY <1>5
      <3>2. \A x, y, z : PartsOf(Item(x, y, p, z)) = <<Part(x, b.n)>>
        BY ItemParts
      <3> HIDE DEF p
      <3> QED
        BY <3>1, <3>2, ItemFields
    <2>0. /\ thought = Item("reasoning", None, p, None) /\ pic = Item("message", "user", p, None)
          /\ call = Item("function_call", None, p, b.tool)
          /\ out = Item("function_call_output", b.tag, p, b.tool)
      OBVIOUS
    <2> HIDE DEF p, Fits, thought, call, out, pic
    <2>3. Fits(Item("reasoning", None, p, None), "reasoning", None)
      BY <2>1, <2>2
    <2>4. Fits(Item("function_call", None, p, b.tool), "function_call", b.tool)
      BY <2>1, <2>2
    <2>5. Fits(Item("function_call_output", b.tag, p, b.tool), "function_call_output", b.tool)
      BY <2>1, <2>2
    <2>6. Fits(Item("message", "user", p, None), "message", None)
      BY <2>1, <2>2
    <2> QED
      BY <2>0, <2>3, <2>4, <2>5, <2>6 DEF Fits
  <1>7. /\ f.items \in Seq(Items) /\ CallsHave(f.items, f.calls) /\ Outputs(f.items)
        /\ f.orphans = {} /\ Read(f.items) = SaysAll(s)
        /\ \A c \in ToSet(s) : c.kind = "tool_use" => c.tool \in f.calls
        /\ Open(f.items) = Unanswered(s)
    <2>1. f.items \in Seq(Items)
      BY <1>2, WalkFields
    <2>2. Read(f.items) \in Seq(Heard)
      BY <1>6, <2>1, ReadStep
    <2>3. Said(f) = Read(f.items)
      BY <1>2, <2>2, ItemParts, ConcatEmptySeq DEF Said
    <2> QED
      BY <1>2, <2>1, <2>3 DEF WalkOK
  <1>8. w.items \in Seq(Items) /\ w.pending \in Seq(Nat) /\ v.items \in Seq(Items)
    BY <1>0, <1>1, WalkFields
  <1>9. v.pending = <<>> => Said(v) = Read(v.items)
    <2>1. Read(v.items) \in Seq(Heard)
      BY <1>6, <1>8, ReadStep
    <2> QED
      BY <2>1, ItemParts, ConcatEmptySeq DEF Said
  <1> HIDE DEF f, v, t, thought, call, out, pic
  <1>10. CASE b.kind = "tool_use"
    <2>1. v.items = Append(f.items, call) /\ v.pending = <<>> /\ v.calls = f.calls \cup {b.tool}
          /\ v.orphans = {} /\ Says(b) = <<Part("function_call", b.n)>>
      BY <1>1, <1>7, <1>10 DEF CallsOut, call
    <2>2. \A c \in v.calls : c \in f.calls \/ (call.kind = "function_call" /\ call.tool = c)
      BY <1>6, <2>1
    <2>3. call.kind = "function_call_output" => call.tool \in f.calls
      BY <1>6
    <2>4. LET more == Append(f.items, call) IN
          /\ CallsHave(more, v.calls) /\ Outputs(more)
          /\ Read(more) = Read(f.items) \o PartsOf(call)
          /\ more # <<>> /\ (f.items # <<>> => more[1] = f.items[1])
          /\ Open(more) = Open(f.items) \cup {b.tool}
      BY <1>6, <1>7, <2>2, <2>3, ItemAppended
    <2>5. Said(v) = SaysAll(t)
      BY <1>3, <1>6, <1>7, <1>9, <2>1, <2>4
    <2>6. \A c \in ToSet(t) : c.kind = "tool_use" => c.tool \in v.calls
      BY <1>3, <1>7, <2>1
    <2>7. Starts(w, v)
      BY <1>2, <2>1, <2>4 DEF Starts
    <2>8. Open(v.items) = Unanswered(t)
      BY <1>7, <1>10, <1>13, <2>1, <2>4
    <2> QED
      BY <1>1, <2>1, <2>4, <2>5, <2>6, <2>7, <2>8 DEF WalkOK, v, t
  <1>11. CASE b.kind = "tool_result"
    <2> DEFINE told == Append(f.items, out)
               seenToo == Append(told, pic)
    <2>1. /\ v.items = IF b.tag = "image" THEN seenToo ELSE told
          /\ v.pending = <<>> /\ v.calls = f.calls /\ v.orphans = {}
          /\ Says(b) = IF b.tag = "image"
                       THEN <<Part("function_call_output", b.n), Part("message", b.n)>>
                       ELSE <<Part("function_call_output", b.n)>>
      BY <1>1, <1>4, <1>7, <1>11 DEF Reports, out, pic
    <2>2. /\ told \in Seq(Items) /\ CallsHave(told, f.calls) /\ Outputs(told)
          /\ Read(told) = Read(f.items) \o PartsOf(out)
          /\ told # <<>> /\ (f.items # <<>> => told[1] = f.items[1])
      BY <1>4, <1>6, <1>7, <1>11, ItemAppended
    <2>9. Open(told) = Open(f.items) \ {b.tool}
      <3>1. Open(told) = (IF out.kind = "function_call_output" THEN Open(f.items) \ {out.tool}
                          ELSE Open(f.items))
                         \cup (IF out.kind = "function_call" THEN {out.tool} ELSE {})
        BY <1>6, <1>7, LeftStep DEF Open
      <3> HIDE DEF told
      <3> QED
        BY <1>6, <3>1
    <2> HIDE DEF told
    <2>0. pic.kind \notin {"function_call", "function_call_output"}
      BY <1>6
    <2>3. /\ CallsHave(seenToo, f.calls) /\ Outputs(seenToo)
          /\ Read(seenToo) = Read(told) \o PartsOf(pic)
          /\ seenToo # <<>> /\ seenToo[1] = told[1]
          /\ Open(seenToo) = Open(told)
      BY <1>6, <2>0, <2>2, ItemAppended
    <2> HIDE DEF seenToo
    <2>4. Said(v) = SaysAll(t)
      <3>1. CASE b.tag = "image"
        <4> DEFINE o == Part("function_call_output", b.n)
                   p == Part("message", b.n)
        <4>1. o \in Heard /\ p \in Heard
          BY <1>5 DEF Part, Heard, ItemKinds
        <4>2. Said(v) = (SaysAll(s) \o <<o>>) \o <<p>>
          BY <1>6, <1>7, <1>9, <2>1, <2>2, <2>3, <3>1
        <4>3. SaysAll(t) = SaysAll(s) \o <<o, p>>
          BY <1>3, <2>1, <3>1
        <4> HIDE DEF o, p
        <4>4. <<o>> \in Seq(Heard) /\ <<p>> \in Seq(Heard)
          BY <4>1
        <4>6. <<o>> \o <<p>> = <<o, p>>
          BY <4>1, PairOfParts
        <4>5. (SaysAll(s) \o <<o>>) \o <<p>> = SaysAll(s) \o (<<o>> \o <<p>>)
          BY <1>3, <4>4, ConcatAssociative
        <4> QED
          BY <4>2, <4>3, <4>5, <4>6
      <3>2. CASE b.tag # "image"
        BY <1>3, <1>6, <1>7, <1>9, <2>1, <2>2, <3>2
      <3> QED
        BY <3>1, <3>2
    <2>5. \A c \in ToSet(t) : c.kind = "tool_use" => c.tool \in v.calls
      BY <1>3, <1>7, <1>11, <2>1
    <2>6. Starts(w, v)
      BY <1>2, <2>1, <2>2, <2>3 DEF Starts
    <2>7. CallsHave(v.items, v.calls) /\ Outputs(v.items)
      BY <2>1, <2>2, <2>3
    <2>8. Open(v.items) = Unanswered(t)
      BY <1>7, <1>11, <1>13, <2>1, <2>3, <2>9
    <2> QED
      BY <1>1, <2>1, <2>4, <2>5, <2>6, <2>7, <2>8 DEF WalkOK, v, t
  <1>12. CASE b.kind \notin {"tool_use", "tool_result"}
    <2>1. Waits(w, v, b) \/ Replays(f, v, b)
      BY <1>1, <1>12
    <2>2. CASE Replays(f, v, b)
      <3>1. v.items = Append(f.items, thought) /\ v.pending = <<>> /\ v.calls = f.calls
            /\ v.orphans = {} /\ Says(b) = <<Part("reasoning", b.n)>>
        BY <1>7, <2>2 DEF Replays, Parted, thought
      <3>2. LET more == Append(f.items, thought) IN
            /\ CallsHave(more, f.calls) /\ Outputs(more)
            /\ Read(more) = Read(f.items) \o PartsOf(thought)
            /\ more # <<>> /\ (f.items # <<>> => more[1] = f.items[1])
            /\ Open(more) = Open(f.items)
        BY <1>6, <1>7, ItemAppended
      <3>3. Said(v) = SaysAll(t)
        BY <1>3, <1>6, <1>7, <1>9, <3>1, <3>2
      <3>4. \A c \in ToSet(t) : c.kind = "tool_use" => c.tool \in v.calls
        BY <1>3, <1>7, <1>12, <3>1
      <3>5. Starts(w, v)
        BY <1>2, <3>1, <3>2 DEF Starts
      <3>6. Open(v.items) = Unanswered(t)
        BY <1>7, <1>12, <1>13, <3>1, <3>2
      <3> QED
        BY <1>1, <3>1, <3>2, <3>3, <3>4, <3>5, <3>6 DEF WalkOK, v, t
    <2>3. CASE Waits(w, v, b)
      <3>1. v.items = w.items /\ v.calls = w.calls /\ v.orphans = w.orphans
        BY <2>3 DEF Waits, Parted
      <3>2. Said(v) = Said(w) \o Says(b)
        <4>1. Read(w.items) \in Seq(Heard) /\ Texts(w.pending) \in Seq(Heard)
          BY <1>6, <1>8, ReadStep, PartsHeard
        <4>2. CASE v.pending = Append(w.pending, b.n) /\ Says(b) = <<Part("message", b.n)>>
          <5>1. Texts(v.pending) = Texts(w.pending) \o Says(b)
            BY <1>5, <1>8, <4>2, ItemParts
          <5>2. Read(w.items) \o (Texts(w.pending) \o Says(b)) = (Read(w.items) \o Texts(w.pending)) \o Says(b)
            <6> DEFINE x == Read(w.items)
                       y == Texts(w.pending)
                       z == Says(b)
            <6>1. x \in Seq(Heard) /\ y \in Seq(Heard) /\ z \in Seq(Heard)
              BY <1>3, <4>1
            <6> HIDE DEF x, y, z
            <6>2. x \o (y \o z) = (x \o y) \o z
              BY <6>1, ConcatAssociative
            <6> QED
              BY <6>2 DEF x, y, z
          <5> QED
            BY <3>1, <5>1, <5>2 DEF Said
        <4>3. CASE v.pending = w.pending /\ Says(b) = <<>>
          <5>1. Said(w) \in Seq(Heard)
            BY <4>1, ConcatProperties DEF Said
          <5>2. Said(w) \o <<>> = Said(w)
            BY <5>1, ConcatEmptySeq
          <5>3. Said(v) = Said(w)
            BY <3>1, <4>3 DEF Said
          <5> QED
            BY <4>3, <5>2, <5>3
        <4> QED
          BY <2>3, <4>2, <4>3 DEF Waits
      <3>3. Said(v) = SaysAll(t)
        BY <1>3, <3>2 DEF WalkOK
      <3>4. \A c \in ToSet(t) : c.kind = "tool_use" => c.tool \in v.calls
        BY <1>2, <1>3, <1>7, <1>12, <3>1
      <3>5. Open(v.items) = Unanswered(t)
        BY <1>12, <1>13, <3>1 DEF WalkOK
      <3> QED
        BY <1>1, <3>1, <3>3, <3>4, <3>5 DEF WalkOK, Starts, v, t
    <2> QED
      BY <2>1, <2>2, <2>3
  <1> QED
    BY <1>10, <1>11, <1>12

\* What comes first of a paired conversation is paired.
LEMMA PairedPrefix ==
    ASSUME NEW S, NEW s \in Seq(S), NEW t \in Seq(S), Follows(s \o t)
    PROVE  Follows(s)
  <1> DEFINE T == {u \in Seq(S) : Follows(s \o u) => Follows(s)}
  <1>1. <<>> \in T
    <2>1. s \o <<>> = s /\ <<>> \in Seq(S)
      BY ConcatEmptySeq, EmptySeq
    <2> QED
      BY <2>1
  <1>2. ASSUME NEW u \in Seq(S), NEW x \in S, u \in T PROVE Append(u, x) \in T
    <2>1. s \o u \in Seq(S) /\ s \o Append(u, x) = Append(s \o u, x) /\ Append(u, x) \in Seq(S)
      BY ConcatStep
    <2> DEFINE su == s \o u
    <2>2. su \in Seq(S)
      BY <2>1
    <2>3. (Follows(su) => Follows(s)) /\ s \o Append(u, x) = Append(su, x)
      BY <1>2, <2>1
    <2> HIDE DEF su
    <2>4. Follows(Append(su, x)) => Follows(su)
      BY <2>2, PairedStep
    <2> QED
      BY <2>1, <2>3, <2>4
  <1> HIDE DEF T
  <1>3. t \in T
    BY <1>1, <1>2, SeqSetInduction
  <1> QED
    BY <1>3 DEF T

\* The blocks of a message keep the walk's invariant.
LEMMA TakeBlocksOK ==
    ASSUME NEW w, NEW s \in Seq(Blk), NEW blocks \in Seq(Blk), NEW role \in ItemRoles,
           WalkOK(w, s), Follows(s \o blocks)
    PROVE  LET v == TakeBlocks(w, role, blocks)
           IN  WalkOK(v, s \o blocks) /\ Starts(w, v)
  <1> DEFINE After(u) == TakeBlocks(w, role, u)
             T == {u \in Seq(Blk) : Follows(s \o u) => WalkOK(After(u), s \o u) /\ Starts(w, After(u))}
  <1>1. <<>> \in T
    <2>1. s \o <<>> = s /\ <<>> \in Seq(Blk)
      BY ConcatEmptySeq, EmptySeq
    <2>2. After(<<>>) = w
      BY LoopsEmpty
    <2>3. Starts(w, w)
      BY DEF Starts
    <2> HIDE DEF After
    <2> QED
      BY <2>1, <2>2, <2>3
  <1>2. ASSUME NEW u \in Seq(Blk), NEW b \in Blk, u \in T PROVE Append(u, b) \in T
    <2>1. s \o u \in Seq(Blk) /\ s \o Append(u, b) = Append(s \o u, b) /\ Append(u, b) \in Seq(Blk)
      BY ConcatStep
    <2> DEFINE su == s \o u
               x == After(u)
               v == After(Append(u, b))
    <2>2. su \in Seq(Blk) /\ s \o Append(u, b) = Append(su, b)
      BY <2>1
    <2>3. Follows(su) => WalkOK(x, su) /\ Starts(w, x)
      BY <1>2
    <2>4. v = TakeBlock(x, role, b)
      BY TakeBlocksStep
    <2> HIDE DEF su, x, v
    <2>5. ASSUME Follows(Append(su, b)) PROVE WalkOK(v, Append(su, b)) /\ Starts(w, v)
      <3>1. Follows(su)
        BY <2>2, <2>5, PairedStep
      <3>2. WalkOK(v, Append(su, b)) /\ Starts(x, v)
        BY <2>2, <2>3, <2>4, <2>5, <3>1, TakeOK
      <3> QED
        BY <2>3, <3>1, <3>2 DEF Starts
    <2> QED
      BY <2>1, <2>2, <2>5 DEF v
  <1> HIDE DEF T, After
  <1>3. blocks \in T
    BY <1>1, <1>2, SeqSetInduction
  <1> QED
    BY <1>3 DEF T, After

\* So does the whole message, which leaves nothing pending.
LEMMA TakeMessageOK ==
    ASSUME NEW w, NEW s \in Seq(Blk), NEW m \in Msgs, WalkOK(w, s), Follows(s \o m.blocks)
    PROVE  LET v == TakeMessage(w, m)
           IN  WalkOK(v, s \o m.blocks) /\ v.pending = <<>> /\ Starts(w, v)
  <1> DEFINE x == TakeBlocks(w, RoleOf(m), m.blocks)
             blocks == m.blocks
             role == RoleOf(m)
             t == s \o blocks
  <1>1. role \in ItemRoles /\ blocks \in Seq(Blk)
    BY MsgFacts DEF RoleOf, Msgs, ItemRoles
  <1>2. WalkOK(x, t) /\ Starts(w, x)
    <2>1. Follows(s \o blocks) /\ x = TakeBlocks(w, role, blocks)
      OBVIOUS
    <2> HIDE DEF x, blocks, role
    <2> QED
      BY <1>1, <2>1, TakeBlocksOK
  <1>3. TakeMessage(w, m) = flush(x, role)
    BY DEF TakeMessage
  <1> HIDE DEF x, t, role
  <1>4. LET f == flush(x, role) IN WalkOK(f, t) /\ f.pending = <<>> /\ Starts(x, f)
    BY <1>1, <1>2, FlushOK
  <1> QED
    BY <1>2, <1>3, <1>4 DEF t, Starts

\* The walk's invariant at the start.
LEMMA NewWalkOK == WalkOK(NewWalk, <<>>) /\ NewWalk.pending = <<>>
  <1>1. NewWalk \in Walks
    <2> DEFINE SI == Seq(Items)
               SN == Seq(Nat)
               none == <<>>
    <2>1. none \in SI /\ none \in SN
      OBVIOUS
    <2>2. Walks = [items : SI, pending : SN, calls : SUBSET Carried,
                   orphans : SUBSET Carried, dropped : SUBSET Nat, bad : BOOLEAN]
      BY DEF Walks
    <2>3. NewWalk = [items |-> none, pending |-> none, calls |-> {}, orphans |-> {},
                     dropped |-> {}, bad |-> FALSE]
      BY DEF NewWalk
    <2> HIDE DEF SI, SN, none
    <2> QED
      BY <2>1, <2>2, <2>3
  <1>2. NewWalk.items = <<>> /\ NewWalk.pending = <<>> /\ NewWalk.calls = {} /\ NewWalk.orphans = {}
    BY DEF NewWalk
  <1>3. Outputs(<<>>) /\ Open(<<>>) = Unanswered(<<>>)
    BY DEF Outputs, PairedBy, Open, Unanswered, Left
  <1>4. Said(NewWalk) = <<>> /\ SaysAll(<<>>) = <<>>
    <2>1. Read(<<>>) = <<>>
      <3>1. [i \in DOMAIN <<>> |-> [j \in DOMAIN <<>>[i].parts |->
                [kind |-> <<>>[i].kind, n |-> <<>>[i].parts[j]]]] = <<>>
        OBVIOUS
      <3> QED
        BY <3>1, LoopsEmpty DEF Read
    <2>2. SaysAll(<<>>) = <<>>
      <3>1. [i \in DOMAIN <<>> |-> Says(<<>>[i])] = <<>>
        OBVIOUS
      <3> QED
        BY <3>1, LoopsEmpty DEF SaysAll
    <2>3. <<>> \o <<>> = <<>>
      BY EmptySeq, ConcatEmptySeq
    <2> QED
      BY <1>2, <2>1, <2>2, <2>3, ItemParts DEF Said
  <1>5. ToSet(<<>>) = {}
    BY LoopsEmpty
  <1> QED
    BY <1>1, <1>2, <1>3, <1>4, <1>5 DEF WalkOK, CallsHave

\* The walk over a whole history, and what a message more makes of it.
LEMMA TranslateOK ==
    ASSUME NEW h \in Seq(Msgs), Follows(BlocksOf(h))
    PROVE  LET v == translateMessages(h) IN WalkOK(v, BlocksOf(h)) /\ v.pending = <<>>
  <1> DEFINE OK(u) == LET v == translateMessages(u) IN WalkOK(v, BlocksOf(u)) /\ v.pending = <<>>
             T == {u \in Seq(Msgs) : Follows(BlocksOf(u)) => OK(u)}
  <1>1. <<>> \in T
    <2>1. translateMessages(<<>>) = NewWalk /\ BlocksOf(<<>>) = <<>> /\ <<>> \in Seq(Msgs)
      BY LoopsEmpty, EmptySeq
    <2> QED
      BY <2>1, NewWalkOK
  <1>2. ASSUME NEW u \in Seq(Msgs), NEW m \in Msgs, u \in T PROVE Append(u, m) \in T
    <2>1. BlocksOf(Append(u, m)) = BlocksOf(u) \o m.blocks /\ BlocksOf(u) \in Seq(Blk)
          /\ m.blocks \in Seq(Blk) /\ Append(u, m) \in Seq(Msgs)
      <3>1. BlocksOf(Append(u, m)) = BlocksOf(u) \o m.blocks /\ BlocksOf(u) \in Seq(Blk)
        BY BlocksStep
      <3>2. m.blocks \in Seq(Blk)
        BY MsgFacts
      <3> QED
        BY <3>1, <3>2
    <2> DEFINE s == BlocksOf(u)
               w == translateMessages(u)
               v == translateMessages(Append(u, m))
               b == m.blocks
    <2>2. Follows(s) => WalkOK(w, s)
      BY <1>2
    <2>3. v = TakeMessage(w, m)
      BY TranslateStep
    <2>4. s \in Seq(Blk) /\ b \in Seq(Blk)
      BY <2>1
    <2> HIDE DEF s, w, v, b
    <2>5. ASSUME Follows(s \o b) PROVE WalkOK(v, s \o b) /\ v.pending = <<>>
      <3>1. Follows(s)
        BY <2>4, <2>5, PairedPrefix
      <3> QED
        BY <2>2, <2>3, <2>4, <2>5, <3>1, TakeMessageOK DEF b
    <2> QED
      BY <2>1, <2>5 DEF s, v, b
  <1> HIDE DEF T, OK
  <1>3. h \in T
    BY <1>1, <1>2, SeqSetInduction
  <1> QED
    BY <1>3 DEF T, OK

\* A longer history keeps the first input item.
LEMMA TranslateGrows ==
    ASSUME NEW h, HistoryOK(h), NEW m, Brings(h, m)
    PROVE  Starts(translateMessages(h), translateMessages(Append(h, m)))
  <1> DEFINE s == BlocksOf(h)
             w == translateMessages(h)
             b == m.blocks
  <1>1. /\ s \in Seq(Blk) /\ b \in Seq(Blk) /\ BlocksOf(Append(h, m)) = s \o b
        /\ Follows(BlocksOf(Append(h, m)))
    BY GrownHistory DEF HistoryOK
  <1>2. h \in Seq(Msgs) /\ Follows(s) /\ m \in Msgs
    BY DEF HistoryOK, Brings
  <1>3. WalkOK(w, s)
    BY <1>2, TranslateOK
  <1>4. translateMessages(Append(h, m)) = TakeMessage(w, m)
    BY <1>2, TranslateStep
  <1>5. Follows(s \o b)
    BY <1>1
  <1> HIDE DEF s, w
  <1> QED
    BY <1>1, <1>2, <1>3, <1>4, <1>5, TakeMessageOK DEF w

-----------------------------------------------------------------------------
(* What goes upstream is paired.                                             *)

\* The Codex request, made of the walk over the history.
LEMMA CodexSent ==
    ASSUME HistoryInv, SentInv, Going("codex")
    PROVE  LET w == translateMessages(history) IN
           /\ WalkOK(w, BlocksOf(history)) /\ w.pending = <<>>
           /\ sent.items = w.items /\ sent.orphans = w.orphans
           /\ \E turn : sent.key = promptCacheKey(joinSystem(System(turn)), sent.tools, sent.items)
           /\ sent.items # <<>>
  <1> DEFINE w == translateMessages(history)
  <1>1. history \in Seq(Msgs) /\ Follows(BlocksOf(history))
    BY DEF HistoryInv, HistoryOK
  <1>2. WalkOK(w, BlocksOf(history)) /\ w.pending = <<>>
    BY <1>1, TranslateOK
  <1>3. PICK turn : sent = Translate(history, turn)
    BY WhoseRequest
  <1>4. /\ sent.items = w.items /\ sent.orphans = w.orphans
        /\ sent.key = promptCacheKey(joinSystem(System(turn)), sent.tools, w.items)
    BY <1>3, TranslateFields
  <1>5. sent.items # <<>>
    BY DEF Going, Rejected
  <1> QED
    BY <1>2, <1>4, <1>5

\* The relays' messages.
LEMMA RelaySent ==
    ASSUME HistoryInv, SentInv, Going("anthropic") \/ Going("deepseek")
    PROVE  LET blocks == BlocksOf(sent.messages) IN
           blocks \in Seq(Blk) /\ Follows(blocks) /\ Unanswered(blocks) = Unanswered(BlocksOf(history))
  <1> DEFINE minted == {b \in ToSet(BlocksOf(history)) : IsSyntheticBlock(b)}
             changes == {b \in ToSet(BlocksOf(history)) : IsChange(b)}
  <1>1. /\ \A b \in minted : b.kind \notin {"tool_use", "tool_result"}
        /\ \A b \in changes : b.kind \notin {"tool_use", "tool_result"}
    BY DEF IsSyntheticBlock, IsChange
  <1>2. CASE Going("anthropic")
    <2>1. sent.messages = Strip(history, minted)
      BY <1>2, WhoseRequest, ForwardFields DEF Sanitize
    <2> HIDE DEF minted
    <2> QED
      BY <1>1, <2>1, RelayFaithful
  <1>3. CASE Going("deepseek")
    <2>1. sent.messages = Strip(history, changes)
      BY <1>3, WhoseRequest, RewriteFields DEF hoistFromMessages
    <2> HIDE DEF changes
    <2> QED
      BY <1>1, <2>1, RelayFaithful
  <1> QED
    BY <1>2, <1>3

\* The calls the history leaves open: none once the client has spoken, and
\* else no others than those of the last answer.
LeftInv ==
    Unanswered(BlocksOf(history)) \subseteq
        IF phase = "asking" THEN {b.tool : b \in ToSet(Outstanding)} ELSE {}

\* What a message more leaves open.
LEMMA LeftGrows ==
    ASSUME history \in Seq(Msgs), NEW m \in Msgs, history' = Append(history, m)
    PROVE  /\ \A c \in Unanswered(BlocksOf(history)') :
                 \/ c \in Unanswered(BlocksOf(history))
                    /\ \A x \in ToSet(m.blocks) : ~(x.kind = "tool_result" /\ x.tool = c)
                 \/ \E x \in ToSet(m.blocks) : x.kind = "tool_use" /\ x.tool = c
           /\ \A x \in ToSet(m.blocks) : x.kind = "tool_use" => x \in ToSet(Outstanding)'
  <1> DEFINE s == BlocksOf(history)
             t == m.blocks
             calls == {b \in ToSet(t) : b.kind # "tool_use"}
  <1>1. BlocksOf(Append(history, m)) = s \o t /\ s \in Seq(Blk) /\ t \in Seq(Blk)
    BY BlocksStep, MsgFacts
  <1>2. Outstanding' = Without(t, calls)
    <2>1. Append(history, m) # <<>> /\ Append(history, m)[Len(Append(history, m))] = m
      OBVIOUS
    <2> QED
      BY <2>1 DEF Outstanding
  <1>3. BlocksOf(history)' = s \o t
    BY <1>1
  <1> HIDE DEF s, t
  <1>4. ToSet(Without(t, calls)) = ToSet(t) \ calls
    BY <1>1, WithoutFacts
  <1>5. \A c \in Unanswered(s \o t) :
           \/ c \in Unanswered(s) /\ \A x \in ToSet(t) : ~(x.kind = "tool_result" /\ x.tool = c)
           \/ \E x \in ToSet(t) : x.kind = "tool_use" /\ x.tool = c
    BY <1>1, LeftConcat
  <1> QED
    BY <1>2, <1>3, <1>4, <1>5 DEF s, t

\* The user's and the system's messages call nothing.
LEMMA NoCalls ==
    ASSUME made \in Nat, NEW shapes \in Asks \cup Changes
    PROVE  /\ Numbered(shapes) \in Seq(Blk)
           /\ \A b \in ToSet(Numbered(shapes)) : b.kind # "tool_use"
  <1>1. shapes \in Seq(AnyShape)
    BY ShapesAny
  <1>2. \A i \in 1..Len(shapes) : shapes[i].kind # "tool_use"
    <2>1. DOMAIN shapes = 1..Len(shapes)
      BY <1>1
    <2> QED
      BY <2>1, ShapesAssumption DEF ToSet
  <1> DEFINE num == Numbered(shapes)
  <1>3. /\ num \in Seq(Blk) /\ Len(num) = Len(shapes)
        /\ \A i \in 1..Len(shapes) : num[i].kind = shapes[i].kind
    BY <1>1, NumberedFacts
  <1> HIDE DEF num
  <1>4. \A b \in ToSet(num) : b.kind # "tool_use"
    BY <1>2, <1>3 DEF ToSet
  <1> QED
    BY <1>3, <1>4 DEF num

\* The user asks only when nothing is open, and results close what is.
LEMMA AskLeft == HistoryInv /\ LeftInv /\ Ask => LeftInv'
  <1> SUFFICES ASSUME HistoryInv, LeftInv, Ask PROVE Unanswered(BlocksOf(history)') = {}
    BY DEF LeftInv
  <1>1. history \in Seq(Msgs) /\ made \in Nat
    BY DEF HistoryInv, HistoryOK
  <1>2. \A c \in Unanswered(BlocksOf(history)) : \E b \in ToSet(Outstanding) : b.tool = c
    BY DEF LeftInv, Ask
  <1>3. CASE /\ Outstanding = <<>>
             /\ \E shapes \in Asks :
                   Say(<<[role |-> "user", blocks |-> Numbered(shapes)]>>, Len(shapes))
    <2>1. PICK shapes \in Asks : Say(<<[role |-> "user", blocks |-> Numbered(shapes)]>>, Len(shapes))
      BY <1>3
    <2> DEFINE b == Numbered(shapes)
               m == [role |-> "user", blocks |-> b]
    <2>2. b \in Seq(Blk) /\ \A x \in ToSet(b) : x.kind # "tool_use"
      BY <1>1, NoCalls
    <2>3. history' = history \o <<m>>
      BY <2>1 DEF Say
    <2> HIDE DEF b
    <2>4. m \in Msgs /\ m.blocks = b
      BY <2>2, MsgFacts
    <2> HIDE DEF m
    <2>5. history' = Append(history, m)
      BY <1>1, <2>3, <2>4, AppendIsConcat
    <2>6. Unanswered(BlocksOf(history)) = {}
      BY <1>2, <1>3, LoopsEmpty
    <2> QED
      BY <1>1, <2>2, <2>4, <2>5, <2>6, LeftGrows
  <1>4. CASE /\ Outstanding # <<>>
             /\ \E tag \in ResultTags :
                   Say(<<[role |-> "user", blocks |-> Results(tag)]>>, Len(Outstanding))
    <2>1. PICK tag \in ResultTags : Say(<<[role |-> "user", blocks |-> Results(tag)]>>, Len(Outstanding))
      BY <1>4
    <2> DEFINE b == Results(tag)
               m == [role |-> "user", blocks |-> b]
    <2>2. /\ b \in Seq(Blk) /\ \A x \in ToSet(b) : x.kind = "tool_result"
          /\ \A c \in ToSet(Outstanding) : \E x \in ToSet(b) : x.tool = c.tool
      BY <1>1, ResultsFacts
    <2>3. history' = history \o <<m>>
      BY <2>1 DEF Say
    <2> HIDE DEF b
    <2>4. m \in Msgs /\ m.blocks = b
      BY <2>2, MsgFacts
    <2> HIDE DEF m
    <2>5. history' = Append(history, m)
      BY <1>1, <2>3, <2>4, AppendIsConcat
    <2>6. \A c \in Unanswered(BlocksOf(history)) : \E x \in ToSet(b) : x.kind = "tool_result" /\ x.tool = c
      BY <1>2, <2>2
    <2> QED
      BY <1>1, <2>2, <2>4, <2>5, <2>6, LeftGrows
  <1> QED
    BY <1>3, <1>4 DEF Ask

\* A system message opens nothing.
LEMMA InterjectLeft == HistoryInv /\ LeftInv /\ Interject => LeftInv'
  <1> SUFFICES ASSUME HistoryInv, LeftInv, Interject PROVE Unanswered(BlocksOf(history)') = {}
    BY DEF LeftInv
  <1>1. history \in Seq(Msgs) /\ made \in Nat
    BY DEF HistoryInv, HistoryOK
  <1>2. Unanswered(BlocksOf(history)) = {}
    BY DEF LeftInv, Interject
  <1>3. PICK shapes \in Changes : Say(<<[role |-> "system", blocks |-> Numbered(shapes)]>>, Len(shapes))
    BY DEF Interject
  <1> DEFINE b == Numbered(shapes)
             m == [role |-> "system", blocks |-> b]
  <1>4. b \in Seq(Blk) /\ \A x \in ToSet(b) : x.kind # "tool_use"
    BY <1>1, NoCalls
  <1>5. history' = history \o <<m>>
    BY <1>3 DEF Say
  <1> HIDE DEF b
  <1>6. m \in Msgs /\ m.blocks = b
    BY <1>4, MsgFacts
  <1> HIDE DEF m
  <1>7. history' = Append(history, m)
    BY <1>1, <1>5, <1>6, AppendIsConcat
  <1> QED
    BY <1>1, <1>2, <1>4, <1>6, <1>7, LeftGrows

\* A summary holds no call.
LEMMA CompactLeft == HistoryInv /\ Compact => LeftInv'
  <1> SUFFICES ASSUME HistoryInv, Compact PROVE Unanswered(BlocksOf(history)') = {}
    BY DEF LeftInv
  <1> DEFINE b == Block("text", made + 1, "plain", None)
             m == [role |-> "user", blocks |-> <<b>>]
  <1>1. b \in Blk /\ b.kind = "text"
    <2>1. "text" \in Kinds /\ "plain" \in Tags /\ made + 1 \in Nat
      BY DEF Kinds, Tags, HistoryInv
    <2> QED
      BY <2>1 DEF Block, Blk, IsChange
  <1>2. history' = <<m>>
    BY DEF Compact
  <1> HIDE DEF b
  <1>3. <<b>> \in Seq(Blk) /\ <<b>> = Append(<<>>, b)
    BY <1>1
  <1>4. m \in Msgs /\ m.blocks = <<b>>
    BY <1>3, MsgFacts
  <1> HIDE DEF m
  <1>5. BlocksOf(Append(<<>>, m)) = BlocksOf(<<>>) \o <<b>> /\ BlocksOf(<<>>) = <<>>
    BY <1>4, BlocksStep, LoopsEmpty, EmptySeq
  <1>6. BlocksOf(history)' = Append(<<>>, b)
    <2>1. <<m>> = Append(<<>>, m)
      OBVIOUS
    <2>2. <<>> \o <<b>> = <<b>>
      BY <1>3, ConcatEmptySeq
    <2>3. BlocksOf(<<m>>) = <<b>>
      BY <1>5, <2>1, <2>2
    <2> QED
      BY <1>2, <1>3, <2>3
  <1>7. Unanswered(Append(<<>>, b)) = {}
    <2> DEFINE none == <<>>
    <2>1. none \in Seq(Blk) /\ none = <<>>
      BY EmptySeq
    <2> HIDE DEF none
    <2>2. ASSUME NEW u \in Seq(Blk), NEW x \in Blk
          PROVE  Unanswered(Append(u, x)) =
                    (IF x.kind = "tool_result" THEN Unanswered(u) \ {x.tool} ELSE Unanswered(u))
                    \cup (IF x.kind = "tool_use" THEN {x.tool} ELSE {})
      BY LeftStep DEF Unanswered
    <2>3. Unanswered(none) = {}
      BY <2>1 DEF Unanswered, Left
    <2> QED
      BY <1>1, <2>1, <2>2, <2>3
  <1> QED
    BY <1>6, <1>7

\* An answer leaves open its own calls at most.
LEMMA AnsweredLeft ==
    ASSUME HistoryInv, LeftInv, NEW shapes \in Seq(AnyShape), Answered(Numbered(shapes))
    PROVE  LeftInv'
  <1> DEFINE b == Numbered(shapes)
             m == [role |-> "assistant", blocks |-> b]
  <1>1. history \in Seq(Msgs) /\ made \in Nat
    BY DEF HistoryInv, HistoryOK
  <1>2. b \in Seq(Blk)
    BY <1>1, NumberedFacts
  <1>3. history' = Append(history, m) /\ phase' = "asking" /\ phase = "sent"
    BY DEF Answered
  <1> HIDE DEF b
  <1>4. m \in Msgs /\ m.blocks = b
    BY <1>2, MsgFacts
  <1> HIDE DEF m
  <1>5. Unanswered(BlocksOf(history)) = {}
    BY <1>3 DEF LeftInv
  <1>6. /\ \A c \in Unanswered(BlocksOf(history)') : \E x \in ToSet(b) : x.kind = "tool_use" /\ x.tool = c
        /\ \A x \in ToSet(b) : x.kind = "tool_use" => x \in ToSet(Outstanding)'
    BY <1>1, <1>3, <1>4, <1>5, LeftGrows
  <1>7. \A c \in Unanswered(BlocksOf(history)') : \E x \in ToSet(Outstanding)' : x.tool = c
    BY <1>6
  <1> QED
    BY <1>3, <1>7 DEF LeftInv

\* Every step keeps it.
LEMMA NextLeft == HistoryInv /\ LeftInv /\ [Next]_vars => LeftInv'
  <1> SUFFICES ASSUME HistoryInv, LeftInv, [Next]_vars PROVE LeftInv'
    OBVIOUS
  <1>1. CASE Ask
    BY <1>1, AskLeft
  <1>2. CASE Interject
    BY <1>2, InterjectLeft
  <1>3. CASE Compact
    BY <1>3, CompactLeft
  <1>4. ASSUME history' = history, phase # "asking", phase' # "asking" PROVE LeftInv'
    BY <1>4 DEF LeftInv
  <1>5. CASE SendCodex \/ SendDeepSeek \/ SendAnthropic
    BY <1>4, <1>5 DEF SendCodex, SendDeepSeek, SendAnthropic, Send
  <1>6. CASE Refused
    BY <1>4, <1>6 DEF Refused
  <1>7. CASE CodexAnswers
    <2>1. PICK turn \in CodexTurns : Answered(Numbered([i \in DOMAIN turn |-> BlockShape(turn[i])]))
      BY <1>7 DEF CodexAnswers
    <2> DEFINE shapes == [i \in DOMAIN turn |-> BlockShape(turn[i])]
    <2>2. shapes \in Seq(AnyShape) /\ Answered(Numbered(shapes))
      BY <2>1, ShapesAny
    <2> HIDE DEF shapes
    <2> QED
      BY <2>2, AnsweredLeft
  <1>8. CASE OtherAnswers
    <2>1. PICK turn \in ClaudeTurns \cup DeepSeekTurns : Answered(Numbered(turn))
      BY <1>8 DEF OtherAnswers
    <2> QED
      BY <2>1, ShapesAny, AnsweredLeft
  <1>9. CASE UNCHANGED vars
    BY <1>9 DEF vars, LeftInv, Outstanding
  <1> QED
    BY <1>1, <1>2, <1>3, <1>5, <1>6, <1>7, <1>8, <1>9 DEF Next

\* In what goes upstream every call is answered and every answer follows its
\* call, on every leg and whatever was dropped, hoisted or flattened on the way
\* (request.go, sanitize.go, toolchange.go).
THEOREM ConversationCallsPaired == Spec => []CallsPaired
  <1>1. HistoryInv /\ SentInv /\ LeftInv => CallsPaired
    <2> SUFFICES ASSUME HistoryInv, SentInv, LeftInv PROVE CallsPaired
      OBVIOUS
    <2> DEFINE blocks == BlocksOf(sent.messages)
    <2>0. \A leg : Going(leg) => Unanswered(BlocksOf(history)) = {}
      BY DEF LeftInv, Going
    <2>1. ASSUME Going("codex")
          PROVE  sent.orphans = {} /\ Paired(sent.items, "function_call", "function_call_output")
      <3> DEFINE w == translateMessages(history)
      <3>1. WalkOK(w, BlocksOf(history)) /\ sent.items = w.items /\ sent.orphans = w.orphans
        BY <2>1, CodexSent
      <3> HIDE DEF w
      <3>2. sent.items \in Seq(Items)
        BY <3>1, WalkFields DEF WalkOK
      <3>3. /\ PairedBy(sent.items, "function_call_output", "function_call")
            /\ Left(sent.items, "function_call", "function_call_output") = {}
        BY <2>0, <2>1, <3>1 DEF WalkOK, Outputs, Open
      <3>4. Paired(sent.items, "function_call", "function_call_output")
        BY <3>2, <3>3, LeftNone
      <3> QED
        BY <3>1, <3>4 DEF WalkOK
    <2>2. ASSUME Going("anthropic") \/ Going("deepseek")
          PROVE  Paired(blocks, "tool_use", "tool_result")
      <3>1. /\ blocks \in Seq(Blk) /\ PairedBy(blocks, "tool_result", "tool_use")
            /\ Left(blocks, "tool_use", "tool_result") = {}
        BY <2>0, <2>2, RelaySent DEF Follows, Unanswered
      <3> HIDE DEF blocks
      <3> QED
        BY <3>1, LeftNone
    <2> QED
      BY <2>1, <2>2, Zenon DEF CallsPaired
  <1>2. Init => LeftInv
    <2> SUFFICES ASSUME Init PROVE Unanswered(BlocksOf(history)) = {}
      BY DEF LeftInv
    <2>1. BlocksOf(history) = <<>>
      BY LoopsEmpty DEF Init
    <2> QED
      BY <2>1 DEF Unanswered, Left
  <1>3. HistoryInv /\ LeftInv /\ [Next]_vars => LeftInv'
    BY NextLeft
  <1> QED
    BY <1>1, <1>2, <1>3, ConversationInvariant, PTL DEF Spec

-----------------------------------------------------------------------------
(* The prefix the backend has cached.                                        *)

\* The instructions are the same on every turn: the billing header is gone.
LEMMA SameInstructions == \A turn : joinSystem(System(turn)) = joinSystem(System(0))
  <1> DEFINE prompt == Block("text", 0, "plain", None)
  <1>1. ASSUME NEW turn PROVE joinSystem(System(turn)) = Append(<<>>, prompt)
    <2> DEFINE a == Block("text", turn, "billing", None)
               S == {a, prompt}
               gone == {b \in ToSet(System(turn)) : b.kind # "text" \/ b.tag = "billing"}
               one == Append(<<>>, a)
    <2>1. one \in Seq(S) /\ a \in S /\ prompt \in S /\ <<>> \in Seq(S)
      OBVIOUS
    <2>2. System(turn) = Append(one, prompt)
      BY DEF System
    <2>3. ToSet(System(turn)) = {a, prompt}
      <3>1. ToSet(one) = ToSet(<<>>) \cup {a} /\ ToSet(<<>>) = {}
        BY <2>1, ToSetFacts
      <3> HIDE DEF one, S, a, prompt
      <3>2. ToSet(Append(one, prompt)) = ToSet(one) \cup {prompt}
        BY <2>1, ToSetFacts
      <3> QED
        BY <2>2, <3>1, <3>2
    <2>4. a \in gone /\ prompt \notin gone
      BY <2>3 DEF Block
    <2>5. joinSystem(System(turn)) = Without(Append(one, prompt), gone)
      BY <2>2 DEF joinSystem
    <2> HIDE DEF S, a, prompt, gone
    <2>6. Without(one, gone) = Without(<<>>, gone) /\ Without(<<>>, gone) = <<>>
      BY <2>1, <2>4, WithoutStep
    <2> HIDE DEF one
    <2>7. Without(Append(one, prompt), gone) = Append(Without(one, gone), prompt)
      BY <2>1, <2>4, WithoutStep
    <2> QED
      BY <2>5, <2>6, <2>7
  <1> HIDE DEF prompt
  <1> QED
    BY <1>1

\* A turn of the Codex model says, as blocks of the history, what the model wrote.
LEMMA SpokenWords ==
    ASSUME NEW turn \in CodexTurns, made \in Nat
    PROVE  FlattenSeq([i \in DOMAIN turn |-> Wrote(turn[i], made + i)])
              = SaysAll(Numbered([i \in DOMAIN turn |-> BlockShape(turn[i])]))
  <1> DEFINE shapes == [i \in DOMAIN turn |-> BlockShape(turn[i])]
             N == Numbered(shapes)
  <1>1. turn \in Seq(OutputItems)
    BY ShapesAssumption
  <1>2. shapes \in Seq(AnyShape) /\ Len(shapes) = Len(turn)
    BY ShapesAny
  <1>3. /\ N \in Seq(Blk) /\ Len(N) = Len(turn)
        /\ \A i \in 1..Len(turn) : /\ N[i].kind = shapes[i].kind
                                   /\ N[i].tag = shapes[i].tag
                                   /\ N[i].n = made + i
    <2>1. shapes \in Seq(AnyShape) /\ N = Numbered(shapes)
      BY <1>2
    <2>2. Len(shapes) = Len(turn)
      BY <1>2
    <2> HIDE DEF N, shapes
    <2> QED
      BY <2>1, <2>2, NumberedFacts
  <1>4. DOMAIN turn = 1..Len(turn) /\ DOMAIN N = 1..Len(turn)
    <2> HIDE DEF N
    <2> QED
      BY <1>1, <1>3
  <1>5. ASSUME NEW i \in 1..Len(turn) PROVE Wrote(turn[i], made + i) = Says(N[i])
    <2>1. turn[i] \in OutputItems
      BY <1>1
    <2>2. shapes[i] = BlockShape(turn[i])
      BY <1>4
    <2>3. N[i].kind = BlockShape(turn[i]).kind /\ N[i].tag = BlockShape(turn[i]).tag /\ N[i].n = made + i
      BY <1>3, <2>2
    <2> HIDE DEF N, shapes
    <2> DEFINE x == turn[i]
               b == N[i]
               n == made + i
    <2>4. x \in OutputItems /\ b.kind = BlockShape(x).kind /\ b.tag = BlockShape(x).tag /\ b.n = n
      BY <2>1, <2>3
    <2> HIDE DEF x, b, n
    <2>5. CASE x = "reasoning"
      <3>1. BlockShape(x).kind = "thinking" /\ BlockShape(x).tag = "payload"
        BY <2>5 DEF BlockShape, Block
      <3>2. Wrote(x, n) = <<Part("reasoning", n)>>
        BY <2>5 DEF Wrote, Part
      <3>3. b.kind = "thinking" /\ b.tag = "payload" /\ b.n = n
        BY <2>4, <3>1
      <3>4. Says(b) = <<Part("reasoning", n)>>
        BY <3>3 DEF Says, Replayable
      <3> QED
        BY <3>2, <3>4 DEF x, b, n
    <2>6. CASE x = "summary"
      <3>1. BlockShape(x).kind = "thinking" /\ BlockShape(x).tag = "bare"
        BY <2>6 DEF BlockShape, Block
      <3>2. Wrote(x, n) = <<>>
        BY <2>6 DEF Wrote, Part
      <3>3. b.kind = "thinking" /\ b.tag = "bare" /\ b.n = n
        BY <2>4, <3>1
      <3>4. Says(b) = <<>>
        BY <3>3 DEF Says, Replayable
      <3> QED
        BY <3>2, <3>4 DEF x, b, n
    <2>7. CASE x = "message"
      <3>1. BlockShape(x).kind = "text" /\ BlockShape(x).tag = "plain"
        BY <2>7 DEF BlockShape, Block
      <3>2. Wrote(x, n) = <<Part("message", n)>>
        BY <2>7 DEF Wrote, Part
      <3>3. b.kind = "text" /\ b.tag = "plain" /\ b.n = n
        BY <2>4, <3>1
      <3>4. Says(b) = <<Part("message", n)>>
        BY <3>3 DEF Says, Replayable
      <3> QED
        BY <3>2, <3>4 DEF x, b, n
    <2>8. CASE x = "call"
      <3>1. BlockShape(x).kind = "tool_use" /\ BlockShape(x).tag = "plain"
        BY <2>8 DEF BlockShape, Block
      <3>2. Wrote(x, n) = <<Part("function_call", n)>>
        BY <2>8 DEF Wrote, Part
      <3>3. b.kind = "tool_use" /\ b.tag = "plain" /\ b.n = n
        BY <2>4, <3>1
      <3>4. Says(b) = <<Part("function_call", n)>>
        BY <3>3 DEF Says, Replayable
      <3> QED
        BY <3>2, <3>4 DEF x, b, n
    <2>10. x = "reasoning" \/ x = "summary" \/ x = "message" \/ x = "call"
      BY <2>4 DEF OutputItems
    <2> QED
      BY <2>5, <2>6, <2>7, <2>8, <2>10
  <1> HIDE DEF N, shapes
  <1>6. [i \in DOMAIN turn |-> Wrote(turn[i], made + i)] = [i \in DOMAIN N |-> Says(N[i])]
    BY <1>4, <1>5
  <1> QED
    BY <1>6, Zenon DEF SaysAll, N, shapes

\* The Codex model has read and written the first of the history's blocks.
SeenInv ==
    \E P, R \in Seq(Blk) : BlocksOf(history) = P \o R /\ seen = SaysAll(P)

\* Its last request was filed under a key that a request made now, of the same
\* tools, would have.
KeyInv ==
    lastKey # NoKey =>
        LET items == translateMessages(history).items
        IN  /\ items # <<>>
            /\ lastKey.key = promptCacheKey(joinSystem(System(0)), lastKey.tools, items)

\* Of the items a key only has the first one.
LEMMA KeyOfFirst ==
    ASSUME NEW ins, NEW tools, NEW items, NEW more,
           items # <<>>, more # <<>>, more[1] = items[1]
    PROVE  promptCacheKey(ins, tools, more) = promptCacheKey(ins, tools, items)
  BY DEF promptCacheKey

\* What the model has read of a history it is asked about now.
LEMMA CodexReads ==
    ASSUME HistoryInv, SentInv, Going("codex")
    PROVE  Read(sent.items) = SaysAll(BlocksOf(history)) /\ BlocksOf(history) \in Seq(Blk)
  <1> DEFINE w == translateMessages(history)
  <1>1. WalkOK(w, BlocksOf(history)) /\ w.pending = <<>> /\ sent.items = w.items
    BY CodexSent
  <1> HIDE DEF w
  <1>2. w.items \in Seq(Items)
    BY <1>1, WalkFields DEF WalkOK
  <1>3. Read(w.items) \in Seq(Heard)
    <2>1. CASE w.items = <<>>
      <3>1. SaysAll(BlocksOf(history)) = Read(w.items) \o <<>>
        BY <1>1, ItemParts DEF WalkOK, Said
      <3>2. sent.items # <<>>
        BY CodexSent
      <3> QED
        BY <1>1, <2>1, <3>2
    <2>2. CASE w.items # <<>>
      <3>1. w.items[1] \in Items
        BY <1>2, <2>2
      <3> QED
        BY <1>2, <3>1, ReadStep
    <2> QED
      BY <2>1, <2>2
  <1>4. Said(w) = Read(w.items)
    BY <1>1, <1>3, ItemParts, ConcatEmptySeq DEF Said
  <1>5. BlocksOf(history) \in Seq(Blk)
    BY HistoryBlocks DEF HistoryInv, HistoryOK
  <1> QED
    BY <1>1, <1>4, <1>5 DEF WalkOK

\* A message more leaves the blocks before it where they are,
LEMMA SeenGrows ==
    ASSUME NEW h, HistoryOK(h), NEW m, Brings(h, m),
           NEW P \in Seq(Blk), NEW R \in Seq(Blk), BlocksOf(h) = P \o R
    PROVE  \E Q \in Seq(Blk) : BlocksOf(Append(h, m)) = P \o Q
  <1> DEFINE b == m.blocks
  <1>1. BlocksOf(Append(h, m)) = (P \o R) \o b /\ b \in Seq(Blk)
    BY GrownHistory
  <1> HIDE DEF b
  <1>2. (P \o R) \o b = P \o (R \o b) /\ R \o b \in Seq(Blk)
    BY <1>1, ConcatAssociative, ConcatProperties
  <1> QED
    BY <1>1, <1>2

\* and the first item of the input what it was.
LEMMA KeyGrows ==
    ASSUME NEW h, HistoryOK(h), NEW m, Brings(h, m), NEW ins, NEW tools,
           translateMessages(h).items # <<>>
    PROVE  LET items == translateMessages(Append(h, m)).items
           IN  /\ items # <<>>
               /\ promptCacheKey(ins, tools, items)
                     = promptCacheKey(ins, tools, translateMessages(h).items)
  BY TranslateGrows, KeyOfFirst DEF Starts

\* Both hold at the start.
LEMMA InitPrefix == Init => SeenInv /\ KeyInv
  <1> SUFFICES ASSUME Init PROVE SeenInv /\ KeyInv
    OBVIOUS
  <1>1. history = <<>> /\ seen = <<>> /\ lastKey = NoKey
    BY DEF Init
  <1>2. BlocksOf(<<>>) = <<>> /\ <<>> \in Seq(Blk) /\ <<>> \o <<>> = <<>> /\ SaysAll(<<>>) = <<>>
    <2>1. <<>> \in Seq(Blk) /\ <<>> \o <<>> = <<>>
      BY EmptySeq, ConcatEmptySeq
    <2>2. SaysAll(<<>>) = <<>>
      <3>1. [i \in DOMAIN <<>> |-> Says(<<>>[i])] = <<>>
        OBVIOUS
      <3> QED
        BY <3>1, LoopsEmpty DEF SaysAll
    <2> QED
      BY <2>1, <2>2, LoopsEmpty
  <1>3. SeenInv
    <2> DEFINE none == <<>>
    <2>1. none \in Seq(Blk) /\ BlocksOf(history) = none \o none /\ seen = SaysAll(none)
      BY <1>1, <1>2
    <2> HIDE DEF none
    <2> QED
      BY <2>1 DEF SeenInv
  <1> QED
    BY <1>1, <1>3 DEF KeyInv

\* Every step keeps what the Codex model has seen a prefix, and its key.
LEMMA NextPrefix ==
    HistoryInv /\ SentInv /\ SeenInv /\ KeyInv /\ [Next]_vars => SeenInv' /\ KeyInv'
  <1> SUFFICES ASSUME HistoryInv, SentInv, SeenInv, KeyInv, [Next]_vars
               PROVE  SeenInv' /\ KeyInv'
    OBVIOUS
  <1>0. HistoryOK(history) /\ made \in Nat
    BY DEF HistoryInv
  <1>1. PICK P \in Seq(Blk), R \in Seq(Blk) : BlocksOf(history) = P \o R /\ seen = SaysAll(P)
    BY DEF SeenInv
  <1>2. CASE Kept /\ UNCHANGED <<seen, lastKey>>
    BY <1>2 DEF Kept, SeenInv, KeyInv
  <1>3. ASSUME NEW m, GrownBy(m), UNCHANGED <<seen, lastKey>> PROVE SeenInv' /\ KeyInv'
    <2>1. Brings(history, m) /\ history' = Append(history, m)
      BY <1>3 DEF GrownBy
    <2>2. SeenInv'
      <3>1. PICK Q \in Seq(Blk) : BlocksOf(Append(history, m)) = P \o Q
        BY <1>0, <1>1, <2>1, SeenGrows
      <3>2. BlocksOf(history') = P \o Q /\ seen' = SaysAll(P)
        BY <1>1, <1>3, <2>1, <3>1
      <3> QED
        BY <3>2 DEF SeenInv
    <2>3. KeyInv'
      <3> SUFFICES ASSUME lastKey' # NoKey
                   PROVE  LET items == translateMessages(history').items
                          IN  /\ items # <<>>
                              /\ lastKey'.key = promptCacheKey(joinSystem(System(0)), lastKey'.tools, items)
        BY Zenon DEF KeyInv
      <3>1. lastKey' = lastKey
        BY <1>3
      <3>2. /\ translateMessages(history).items # <<>>
            /\ lastKey.key = promptCacheKey(joinSystem(System(0)), lastKey.tools, translateMessages(history).items)
        BY <3>1 DEF KeyInv
      <3> QED
        BY <1>0, <2>1, <3>1, <3>2, KeyGrows
    <2> QED
      BY <2>2, <2>3
  <1>4. ASSUME NEW m, Fresh(m), seen' = <<>>, lastKey' = NoKey PROVE SeenInv' /\ KeyInv'
    <2>1. Brings(<<>>, m) /\ history' = Append(<<>>, m)
      BY <1>4 DEF Fresh
    <2> DEFINE b == BlocksOf(history')
               none == <<>>
    <2>2. b \in Seq(Blk)
      BY <2>1, EmptyHistory, GrownHistory, HistoryBlocks DEF HistoryOK
    <2>3. none \in Seq(Blk) /\ b = none \o b
      BY <2>2, EmptySeq, ConcatEmptySeq
    <2>4. SaysAll(none) = none
      <3>1. [i \in DOMAIN <<>> |-> Says(<<>>[i])] = <<>>
        OBVIOUS
      <3> QED
        BY <3>1, LoopsEmpty DEF SaysAll
    <2>5. seen' = none
      BY <1>4
    <2> HIDE DEF none
    <2>6. SeenInv'
      BY <2>2, <2>3, <2>4, <2>5 DEF SeenInv
    <2> QED
      BY <1>4, <2>6 DEF KeyInv
  <1>5. ASSUME sent.leg = "codex", ~Rejected, phase = "sent", NEW turn \in CodexTurns, Spoke(turn)
        PROVE  SeenInv' /\ KeyInv'
    <2> DEFINE shapes == [i \in DOMAIN turn |-> BlockShape(turn[i])]
               blocks == Numbered(shapes)
               m == [role |-> "assistant", blocks |-> blocks]
               old == BlocksOf(history)
    <2>0. Going("codex")
      BY <1>5 DEF Going
    <2>1. GrownBy(m) /\ lastKey' = [key |-> sent.key, tools |-> sent.tools]
          /\ seen' = Read(sent.items) \o FlattenSeq([i \in DOMAIN turn |-> Wrote(turn[i], made + i)])
      BY <1>5 DEF Spoke
    <2>2. Read(sent.items) = SaysAll(old) /\ old \in Seq(Blk)
      BY <2>0, CodexReads
    <2>3. seen' = SaysAll(old) \o SaysAll(blocks)
      <3>1. FlattenSeq([i \in DOMAIN turn |-> Wrote(turn[i], made + i)]) = SaysAll(blocks)
        BY <1>0, SpokenWords
      <3> HIDE DEF shapes, blocks, old, m
      <3> QED
        BY <2>1, <2>2, <3>1
    <2>4. m.blocks = blocks
      OBVIOUS
    <2> HIDE DEF shapes, blocks, m
    <2>5. Brings(history, m) /\ history' = Append(history, m)
      BY <2>1 DEF GrownBy
    <2>6. BlocksOf(Append(history, m)) = old \o blocks /\ blocks \in Seq(Blk)
      BY <1>0, <2>4, <2>5, GrownHistory
    <2> HIDE DEF old
    <2>7. SeenInv'
      <3> DEFINE all == old \o blocks
                 none == <<>>
      <3>1. SaysAll(all) = SaysAll(old) \o SaysAll(blocks) /\ all \in Seq(Blk)
        BY <2>2, <2>6, SaysConcat, ConcatProperties
      <3>2. none \in Seq(Blk) /\ all = all \o none
        BY <3>1, EmptySeq, ConcatEmptySeq
      <3>3. BlocksOf(history') = all /\ seen' = SaysAll(all)
        BY <2>3, <2>5, <2>6, <3>1
      <3> HIDE DEF all, none
      <3> QED
        BY <3>1, <3>2, <3>3 DEF SeenInv
    <2>8. KeyInv'
      <3> DEFINE items == translateMessages(history).items
                 more == translateMessages(Append(history, m)).items
                 ins == joinSystem(System(0))
      <3>1. sent.items = items /\ items # <<>>
            /\ \E t : sent.key = promptCacheKey(joinSystem(System(t)), sent.tools, sent.items)
        BY <2>0, CodexSent
      <3>2. sent.key = promptCacheKey(ins, sent.tools, items)
        BY <3>1, SameInstructions
      <3>3. more # <<>> /\ promptCacheKey(ins, sent.tools, more) = promptCacheKey(ins, sent.tools, items)
        BY <1>0, <2>5, <3>1, KeyGrows
      <3>4. lastKey'.key = sent.key /\ lastKey'.tools = sent.tools
        BY <2>1
      <3>5. translateMessages(history').items = more
        BY <2>5
      <3> HIDE DEF items, more, ins
      <3>6. more # <<>> /\ lastKey'.key = promptCacheKey(ins, lastKey'.tools, more)
        BY <3>2, <3>3, <3>4
      <3> QED
        BY <3>5, <3>6 DEF KeyInv, ins
    <2> QED
      BY <2>7, <2>8
  <1> QED
    BY <1>2, <1>3, <1>4, <1>5, NextHistory

\* Each Codex request begins with all the Codex model has read and written in
\* the conversation so far, and is filed under the same cache key unless the
\* tools changed (request.go translateMessages, leg.go promptCacheKey).
THEOREM ConversationCachedPrefixMatches == Spec => []CachedPrefixMatches
  <1>1. Spec => [](SeenInv /\ KeyInv)
    BY InitPrefix, NextPrefix, ConversationInvariant, PTL DEF Spec
  <1>2. HistoryInv /\ SentInv /\ SeenInv /\ KeyInv => CachedPrefixMatches
    <2> SUFFICES ASSUME HistoryInv, SentInv, SeenInv, KeyInv, Going("codex")
                 PROVE  /\ IsPrefix(seen, Read(sent.items))
                        /\ lastKey # NoKey /\ lastKey.tools = sent.tools => sent.key = lastKey.key
      BY DEF CachedPrefixMatches
    <2>1. PICK P \in Seq(Blk), R \in Seq(Blk) : BlocksOf(history) = P \o R /\ seen = SaysAll(P)
      BY DEF SeenInv
    <2>2. Read(sent.items) = SaysAll(P \o R)
      BY <2>1, CodexReads
    <2>3. Read(sent.items) = seen \o SaysAll(R) /\ seen \in Seq(Heard) /\ SaysAll(R) \in Seq(Heard)
      BY <2>1, <2>2, SaysConcat
    <2>4. IsPrefix(seen, seen \o SaysAll(R))
      <3> DEFINE r == SaysAll(R)
                 t == seen \o r
                 n == Len(seen)
      <3>1. r \in Seq(Heard)
        BY <2>3
      <3> HIDE DEF r
      <3>2. t \in Seq(Heard) /\ Len(t) = n + Len(r) /\ n \in Nat /\ Len(r) \in Nat
            /\ \A i \in 1..n : t[i] = seen[i]
        BY <2>3, <3>1
      <3> HIDE DEF t, n
      <3>3. n <= Len(t)
        BY <3>2
      <3>4. [i \in 1..n |-> seen[i]] = [i \in 1..n |-> t[i]]
        BY <3>2
      <3>5. SubSeq(seen, 1, n) = SubSeq(t, 1, n)
        BY <2>3, <3>2, <3>4 DEF n
      <3> QED
        BY <3>3, <3>5 DEF IsPrefix, r, t, n
    <2>5. ASSUME lastKey # NoKey, lastKey.tools = sent.tools PROVE sent.key = lastKey.key
      <3> DEFINE items == translateMessages(history).items
      <3>1. lastKey.key = promptCacheKey(joinSystem(System(0)), lastKey.tools, items)
        BY <2>5 DEF KeyInv
      <3>2. sent.items = items
            /\ \E t : sent.key = promptCacheKey(joinSystem(System(t)), sent.tools, sent.items)
        BY CodexSent
      <3> HIDE DEF items
      <3> QED
        BY <2>5, <3>1, <3>2, SameInstructions
    <2> QED
      BY <2>3, <2>4, <2>5
  <1> QED
    BY <1>1, <1>2, ConversationInvariant, PTL

-----------------------------------------------------------------------------
(* The tools that the changes of a conversation leave.                       *)

\* The types of a tool set.
SlotSet == [name : Names, def : Nat, deferred : BOOLEAN]
ToolSets == [slots : Seq(SlotSet), removed : SUBSET Names, declared : Nat, bad : BOOLEAN]

\* The reference definition's parts.
Adds(b, x) == b.kind = "tool_addition" /\ b.tool = x
Removes(b, x) == b.kind = "tool_removal" /\ b.tool = x

\* What the blocks say of a tool: it was declared, it was removed for good, a
\* reference took it up.
Declared(blocks, x) == DeclaredBefore(blocks, Tools, x, Len(blocks) + 1)
Lost(blocks, x) ==
    \E p \in DOMAIN blocks :
        /\ Removes(blocks[p], x) /\ DeclaredBefore(blocks, Tools, x, p)
        /\ \A q \in (p + 1)..Len(blocks) : ~Adds(blocks[q], x)
Referenced(blocks, x) ==
    \E c \in ToSet(blocks) : Adds(c, x) /\ c.tag = "reference"

\* The set says the same of it, after those blocks.
SetOK(s, blocks) ==
    /\ s \in ToolSets
    /\ \A i, j \in DOMAIN s.slots : s.slots[i].name = s.slots[j].name => i = j
    /\ \A x : Known(s, x) <=> Declared(blocks, x)
    /\ \A x : x \in s.removed <=> Lost(blocks, x)
    /\ \A i \in DOMAIN s.slots : s.slots[i].deferred => ~Referenced(blocks, s.slots[i].name)
    /\ Tools # <<>> => s.slots # <<>>

\* What one block more says.
LEMMA ChangesStep ==
    ASSUME NEW blocks \in Seq(Blk), NEW b \in Blk
    PROVE  LET more == Append(blocks, b) IN
           /\ \A x : Declared(more, x) <=> Declared(blocks, x) \/ (Adds(b, x) /\ b.tag = "definition")
           /\ \A x : Lost(more, x) <=> /\ ~Adds(b, x)
                                       /\ Lost(blocks, x) \/ (Removes(b, x) /\ Declared(blocks, x))
           /\ \A x : Referenced(more, x) <=> Referenced(blocks, x) \/ (Adds(b, x) /\ b.tag = "reference")
           /\ \A x : Lost(blocks, x) => Declared(blocks, x)
  <1> DEFINE more == Append(blocks, b)
             n == Len(blocks)
  <1>1. /\ n \in Nat /\ DOMAIN blocks = 1..n /\ DOMAIN more = 1..(n + 1) /\ Len(more) = n + 1
        /\ \A i \in 1..n : more[i] = blocks[i]
        /\ more[n + 1] = b /\ Len(blocks) = n
    OBVIOUS
  <1>2. ToSet(more) = ToSet(blocks) \cup {b}
    BY ToSetFacts
  <1> HIDE DEF more, n
  <1>3. ASSUME NEW x, NEW p \in 1..(n + 1)
        PROVE  DeclaredBefore(more, Tools, x, p) <=> DeclaredBefore(blocks, Tools, x, p)
    <2>1. \A q \in 1..(p - 1) : more[q] = blocks[q]
      BY <1>1
    <2> QED
      BY <2>1 DEF DeclaredBefore
  <1>4. ASSUME NEW x PROVE Declared(more, x) <=> Declared(blocks, x) \/ (Adds(b, x) /\ b.tag = "definition")
    <2>1. (n + 2) - 1 = n + 1 /\ (n + 1) - 1 = n /\ (n + 1) + 1 = n + 2
      BY <1>1
    <2>2. \A q \in 1..(n + 1) : q \in 1..n \/ q = n + 1
      BY <1>1
    <2>3. n + 1 \in 1..(n + 1) /\ \A q \in 1..n : q \in 1..(n + 1)
      BY <1>1
    <2> QED
      BY <1>1, <2>1, <2>2, <2>3 DEF Declared, DeclaredBefore, Adds
  <1>5. ASSUME NEW x, Lost(blocks, x) PROVE Declared(blocks, x)
    <2>1. PICK p \in 1..n : DeclaredBefore(blocks, Tools, x, p)
      BY <1>1, <1>5 DEF Lost
    <2>2. \A q \in 1..(p - 1) : q \in 1..((n + 1) - 1)
      BY <1>1
    <2> QED
      BY <1>1, <2>1, <2>2 DEF Declared, DeclaredBefore
  <1>6. ASSUME NEW x, Lost(more, x)
        PROVE  ~Adds(b, x) /\ (Lost(blocks, x) \/ (Removes(b, x) /\ Declared(blocks, x)))
    <2>1. PICK p \in 1..(n + 1) : /\ Removes(more[p], x) /\ DeclaredBefore(more, Tools, x, p)
                                  /\ \A q \in (p + 1)..(n + 1) : ~Adds(more[q], x)
      BY <1>1, <1>6 DEF Lost
    <2>2. CASE p = n + 1
      <3>1. Removes(b, x) /\ DeclaredBefore(blocks, Tools, x, n + 1)
        BY <1>1, <1>3, <2>1, <2>2
      <3> QED
        BY <1>1, <3>1 DEF Removes, Adds, Declared
    <2>3. CASE p \in 1..n
      <3>1. n + 1 \in (p + 1)..(n + 1) /\ \A q \in (p + 1)..n : q \in (p + 1)..(n + 1) /\ q \in 1..n
        BY <1>1, <2>3
      <3>2. ~Adds(b, x) /\ \A q \in (p + 1)..n : ~Adds(blocks[q], x)
        BY <1>1, <2>1, <3>1
      <3>3. Removes(blocks[p], x) /\ DeclaredBefore(blocks, Tools, x, p)
        BY <1>1, <1>3, <2>1, <2>3
      <3> QED
        BY <1>1, <2>3, <3>2, <3>3 DEF Lost
    <2> QED
      BY <1>1, <2>2, <2>3
  <1>7. ASSUME NEW x, ~Adds(b, x), Lost(blocks, x) PROVE Lost(more, x)
    <2>1. PICK p \in 1..n : /\ Removes(blocks[p], x) /\ DeclaredBefore(blocks, Tools, x, p)
                            /\ \A q \in (p + 1)..n : ~Adds(blocks[q], x)
      BY <1>1, <1>7 DEF Lost
    <2>2. p \in 1..(n + 1) /\ \A q \in (p + 1)..(n + 1) : q = n + 1 \/ (q \in (p + 1)..n /\ q \in 1..n)
      BY <1>1
    <2>3. \A q \in (p + 1)..(n + 1) : ~Adds(more[q], x)
      BY <1>1, <1>7, <2>1, <2>2
    <2>4. Removes(more[p], x) /\ DeclaredBefore(more, Tools, x, p)
      BY <1>1, <1>3, <2>1, <2>2
    <2> QED
      BY <1>1, <2>2, <2>3, <2>4 DEF Lost
  <1>8. ASSUME NEW x, ~Adds(b, x), Removes(b, x), Declared(blocks, x) PROVE Lost(more, x)
    <2>1. n + 1 \in 1..(n + 1) /\ \A q \in ((n + 1) + 1)..(n + 1) : FALSE
      BY <1>1
    <2>2. Removes(more[n + 1], x) /\ DeclaredBefore(more, Tools, x, n + 1)
      BY <1>1, <1>3, <1>8, <2>1 DEF Declared
    <2> QED
      BY <1>1, <2>1, <2>2 DEF Lost
  <1>9. \A x : Referenced(more, x) <=> Referenced(blocks, x) \/ (Adds(b, x) /\ b.tag = "reference")
    BY <1>2 DEF Referenced
  <1> QED
    BY <1>4, <1>5, <1>6, <1>7, <1>8, <1>9 DEF more

\* Of a set without duplicate names, the slot of a name it knows.
LEMMA FirstFacts ==
    ASSUME NEW s \in ToolSets, NEW x, Known(s, x),
           \A i, j \in DOMAIN s.slots : s.slots[i].name = s.slots[j].name => i = j
    PROVE  LET i == First(s, x) IN
           /\ i \in DOMAIN s.slots /\ s.slots[i].name = x
           /\ \A j \in DOMAIN s.slots : s.slots[j].name = x => j = i
  <1>0. s.slots \in Seq(SlotSet)
    BY DEF ToolSets
  <1> DEFINE slots == s.slots
  <1> HIDE DEF slots
  <1>1. DOMAIN slots = 1..Len(slots) /\ Len(slots) \in Nat
    BY <1>0 DEF slots
  <1>2. \A i, j \in DOMAIN slots : slots[i].name = slots[j].name => i = j
    BY DEF slots
  <1>3. PICK i \in DOMAIN slots : slots[i].name = x
    BY DEF Known, slots
  <1>4. \A j \in 1..(i - 1) : slots[j].name # x
    <2> SUFFICES ASSUME NEW j \in 1..(i - 1), slots[j].name = x PROVE FALSE
      OBVIOUS
    <2>1. j \in DOMAIN slots /\ j # i
      BY <1>1
    <2> QED
      BY <1>2, <1>3, <2>1
  <1>5. First(s, x) = CHOOSE k \in DOMAIN slots :
                         slots[k].name = x /\ \A j \in 1..(k - 1) : slots[j].name # x
    BY DEF First, slots
  <1>6. First(s, x) \in DOMAIN slots /\ slots[First(s, x)].name = x
    BY <1>3, <1>4, <1>5
  <1> QED
    BY <1>2, <1>6 DEF slots

\* The edits a tool change makes.
WithRemoved(s, gone) == [s EXCEPT !.removed = gone]
WithSlots(s, gone, slots) == [s EXCEPT !.removed = gone, !.slots = slots]
InSlots(s, slots) == [s EXCEPT !.slots = slots]

\* The types of a tool set's fields.
LEMMA ToolSetFields ==
    ASSUME NEW s \in ToolSets
    PROVE  s.slots \in Seq(SlotSet) /\ s.removed \in SUBSET Names /\ s.bad \in BOOLEAN
  BY DEF ToolSets

\* A tool set with other removals.
LEMMA WithRemovedSet ==
    ASSUME NEW s \in ToolSets, NEW gone \in SUBSET Names
    PROVE  LET v == WithRemoved(s, gone)
           IN  v \in ToolSets /\ v.slots = s.slots /\ v.removed = gone
  <1> DEFINE SS == Seq(SlotSet)
  <1>1. ToolSets = [slots : SS, removed : SUBSET Names, declared : Nat, bad : BOOLEAN]
    BY DEF ToolSets
  <1> HIDE DEF SS
  <1> QED
    BY <1>1 DEF WithRemoved

\* A tool set with other removals and slots.
LEMMA WithSlotsSet ==
    ASSUME NEW s \in ToolSets, NEW gone \in SUBSET Names, NEW slots \in Seq(SlotSet)
    PROVE  LET v == WithSlots(s, gone, slots)
           IN  v \in ToolSets /\ v.slots = slots /\ v.removed = gone
  <1> DEFINE SS == Seq(SlotSet)
  <1>1. ToolSets = [slots : SS, removed : SUBSET Names, declared : Nat, bad : BOOLEAN]
    BY DEF ToolSets
  <1>2. slots \in SS
    OBVIOUS
  <1> HIDE DEF SS
  <1> QED
    BY <1>1, <1>2 DEF WithSlots

\* A tool set with other slots.
LEMMA InSlotsSet ==
    ASSUME NEW s \in ToolSets, NEW slots \in Seq(SlotSet)
    PROVE  LET v == InSlots(s, slots)
           IN  v \in ToolSets /\ v.slots = slots /\ v.removed = s.removed
  <1> DEFINE SS == Seq(SlotSet)
  <1>1. ToolSets = [slots : SS, removed : SUBSET Names, declared : Nat, bad : BOOLEAN]
    BY DEF ToolSets
  <1>2. slots \in SS
    OBVIOUS
  <1> HIDE DEF SS
  <1> QED
    BY <1>1, <1>2 DEF InSlots

\* A slot gives way to one of the same name that is not deferred.
LEMMA SlotRefilled ==
    ASSUME NEW slots \in Seq(SlotSet), NEW i \in DOMAIN slots, NEW t \in SlotSet,
           t.name = slots[i].name, t.deferred = FALSE
    PROVE  LET new == [slots EXCEPT ![i] = t] IN
           /\ new \in Seq(SlotSet) /\ DOMAIN new = DOMAIN slots /\ new # <<>>
           /\ \A j \in DOMAIN slots : /\ new[j].name = slots[j].name
                                      /\ new[j].deferred => slots[j].deferred /\ j # i
  <1> DEFINE new == [slots EXCEPT ![i] = t]
  <1>1. DOMAIN slots = 1..Len(slots) /\ Len(slots) \in Nat
    OBVIOUS
  <1>2. /\ new \in Seq(SlotSet) /\ Len(new) = Len(slots)
        /\ \A j \in 1..Len(slots) : new[j] = IF j = i THEN t ELSE slots[j]
    BY <1>1, ExceptSeq
  <1> HIDE DEF new
  <1>3. DOMAIN new = 1..Len(new)
    BY <1>2, LenProperties
  <1>4. new # <<>>
    BY <1>1, <1>2, EmptySeq
  <1> QED
    BY <1>1, <1>2, <1>3, <1>4 DEF new

\* A block that declares, removes or takes up nothing leaves things as they are.
LEMMA ApplyOther ==
    ASSUME NEW s, NEW blocks \in Seq(Blk), NEW b \in Blk, SetOK(s, blocks), ~IsChange(b)
    PROVE  SetOK(s, Append(blocks, b))
  <1> DEFINE more == Append(blocks, b)
  <1>1. \A x : ~Adds(b, x) /\ ~Removes(b, x)
    BY DEF IsChange, Adds, Removes
  <1>2. \A x : /\ Declared(more, x) <=> Declared(blocks, x)
               /\ Lost(more, x) <=> Lost(blocks, x)
               /\ Referenced(more, x) <=> Referenced(blocks, x)
    BY <1>1, ChangesStep
  <1> HIDE DEF more
  <1> QED
    BY <1>2 DEF SetOK, more

\* A removal keeps the tool set in line with the blocks read.
LEMMA ApplyRemoval ==
    ASSUME NEW s, NEW blocks \in Seq(Blk), NEW b \in Blk, SetOK(s, blocks), b.kind = "tool_removal"
    PROVE  SetOK(RemoveTool(s, b), Append(blocks, b))
  <1> DEFINE more == Append(blocks, b)
             v == RemoveTool(s, b)
  <1>1. b.tool \in Names
    BY DEF Blk, IsChange
  <1>2. \A x : ~Adds(b, x) /\ (Removes(b, x) <=> x = b.tool)
    BY DEF Adds, Removes
  <1>3. \A x : /\ Declared(more, x) <=> Declared(blocks, x)
               /\ Lost(more, x) <=> Lost(blocks, x) \/ (x = b.tool /\ Declared(blocks, x))
               /\ Referenced(more, x) <=> Referenced(blocks, x)
    BY <1>2, ChangesStep
  <1>4. s \in ToolSets /\ s.removed \in SUBSET Names
    BY ToolSetFields DEF SetOK
  <1>5. CASE Known(s, b.tool)
    <2>1. v = WithRemoved(s, s.removed \cup {b.tool})
      BY <1>5 DEF RemoveTool, WithRemoved
    <2>2. v \in ToolSets /\ v.slots = s.slots /\ v.removed = s.removed \cup {b.tool}
      BY <1>1, <1>4, <2>1, WithRemovedSet
    <2> HIDE DEF v, more
    <2>3. \A x : Known(v, x) <=> Known(s, x)
      BY <2>2 DEF Known
    <2>4. \A x : x \in v.removed <=> Lost(more, x)
      BY <1>3, <1>5, <2>2 DEF SetOK
    <2> QED
      BY <1>3, <2>2, <2>3, <2>4 DEF SetOK, v, more
  <1>6. CASE ~Known(s, b.tool)
    <2>1. v = s
      BY <1>6 DEF RemoveTool
    <2>2. ~Declared(blocks, b.tool)
      BY <1>6 DEF SetOK
    <2> HIDE DEF v, more
    <2> QED
      BY <1>3, <2>1, <2>2 DEF SetOK, v, more
  <1> QED
    BY <1>5, <1>6

\* A set in which a slot was refilled by an addition, which took back removals.
LEMMA RefilledOK ==
    ASSUME NEW s, NEW blocks \in Seq(Blk), NEW b \in Blk, SetOK(s, blocks),
           b.kind = "tool_addition", Known(s, b.tool),
           NEW t \in SlotSet, t.name = b.tool, t.deferred = FALSE,
           NEW v, v = WithSlots(s, s.removed \ {b.tool}, [s.slots EXCEPT ![First(s, b.tool)] = t])
    PROVE  SetOK(v, Append(blocks, b))
  <1> DEFINE more == Append(blocks, b)
             i == First(s, b.tool)
             slots == s.slots
             new == [slots EXCEPT ![i] = t]
  <1>1. \A x : ~Removes(b, x) /\ (Adds(b, x) <=> x = b.tool)
    BY DEF Adds, Removes
  <1>2. \A x : /\ Declared(more, x) <=> Declared(blocks, x) \/ (x = b.tool /\ b.tag = "definition")
               /\ Lost(more, x) <=> x # b.tool /\ Lost(blocks, x)
               /\ Referenced(more, x) => Referenced(blocks, x) \/ x = b.tool
    BY <1>1, ChangesStep
  <1>3. s \in ToolSets /\ slots \in Seq(SlotSet) /\ s.removed \ {b.tool} \in SUBSET Names
    BY ToolSetFields DEF SetOK
  <1>4. /\ i \in DOMAIN slots /\ slots[i].name = b.tool
        /\ \A j \in DOMAIN slots : slots[j].name = b.tool => j = i
    BY <1>3, FirstFacts DEF SetOK
  <1>5. \A k, j \in DOMAIN slots : slots[k].name = slots[j].name => k = j
    BY DEF SetOK
  <1> HIDE DEF i
  <1>6. /\ new \in Seq(SlotSet) /\ DOMAIN new = DOMAIN slots /\ new # <<>>
        /\ \A j \in DOMAIN slots : /\ new[j].name = slots[j].name
                                   /\ new[j].deferred => slots[j].deferred /\ j # i
    <2>1. slots \in Seq(SlotSet) /\ i \in DOMAIN slots /\ t.name = slots[i].name
      BY <1>3, <1>4
    <2> HIDE DEF slots
    <2> QED
      BY <2>1, SlotRefilled
  <1> DEFINE gone == s.removed \ {b.tool}
  <1>7. v = WithSlots(s, gone, new) /\ gone \in SUBSET Names
    BY <1>3 DEF i
  <1> HIDE DEF new
  <1>8. v \in ToolSets /\ v.slots = new /\ v.removed = gone
    <2> HIDE DEF gone
    <2> QED
      BY <1>3, <1>6, <1>7, WithSlotsSet
  <1> HIDE DEF more
  <1>9. \A x : Known(v, x) <=> Known(s, x)
    BY <1>6, <1>8 DEF Known
  <1>10. \A x : Known(v, x) <=> Declared(more, x)
    BY <1>2, <1>9 DEF SetOK
  <1>11. \A x : x \in v.removed <=> Lost(more, x)
    BY <1>2, <1>8 DEF SetOK
  <1>12. \A j \in DOMAIN v.slots : v.slots[j].deferred => ~Referenced(more, v.slots[j].name)
    <2> SUFFICES ASSUME NEW j \in DOMAIN slots, new[j].deferred PROVE ~Referenced(more, new[j].name)
      BY <1>6, <1>8
    <2>1. slots[j].deferred /\ j # i /\ new[j].name = slots[j].name
      BY <1>6
    <2>2. ~Referenced(blocks, slots[j].name)
      BY <2>1 DEF SetOK
    <2>3. slots[j].name # b.tool
      BY <1>4, <2>1
    <2> QED
      BY <1>2, <2>1, <2>2, <2>3
  <1>13. \A k, j \in DOMAIN v.slots : v.slots[k].name = v.slots[j].name => k = j
    BY <1>5, <1>6, <1>8
  <1> QED
    BY <1>6, <1>8, <1>10, <1>11, <1>12, <1>13 DEF SetOK, more

\* So does an addition by reference.
LEMMA ApplyReference ==
    ASSUME NEW s, NEW blocks \in Seq(Blk), NEW b \in Blk, SetOK(s, blocks),
           b.kind = "tool_addition", Known(s, b.tool)
    PROVE  SetOK(AddByReference(s, b), Append(blocks, b))
  <1> DEFINE i == First(s, b.tool)
             t == [s.slots[i] EXCEPT !.deferred = FALSE]
             v == AddByReference(s, b)
  <1>1. s \in ToolSets /\ s.slots \in Seq(SlotSet)
    BY ToolSetFields DEF SetOK
  <1>2. i \in DOMAIN s.slots /\ s.slots[i].name = b.tool
    BY <1>1, FirstFacts DEF SetOK
  <1>3. s.slots[i] \in SlotSet
    BY <1>1, <1>2
  <1>4. t \in SlotSet /\ t.name = b.tool /\ t.deferred = FALSE
    <2> HIDE DEF i
    <2> QED
      BY <1>2, <1>3 DEF SlotSet
  <1>5. v = WithSlots(s, s.removed \ {b.tool}, [s.slots EXCEPT ![First(s, b.tool)] = t])
    BY DEF AddByReference, WithSlots
  <1> HIDE DEF i, t, v
  <1>6. SetOK(v, Append(blocks, b))
    BY <1>4, <1>5, RefilledOK
  <1> QED
    BY <1>6 DEF v

\* So does an addition by definition.
LEMMA ApplyDefinition ==
    ASSUME NEW s, NEW blocks \in Seq(Blk), NEW b \in Blk, SetOK(s, blocks),
           b.kind = "tool_addition", b.tag = "definition"
    PROVE  SetOK(AddDefinition(s, b), Append(blocks, b))
  <1> DEFINE t == Slot(b.tool, b.n, FALSE)
             v == AddDefinition(s, b)
             more == Append(blocks, b)
             slots == s.slots
  <1>1. s \in ToolSets /\ slots \in Seq(SlotSet) /\ s.removed \in SUBSET Names
    BY ToolSetFields DEF SetOK
  <1>2. t \in SlotSet /\ t.name = b.tool /\ t.deferred = FALSE
    <2>1. b.tool \in Names /\ b.n \in Nat
      BY DEF Blk, IsChange
    <2> QED
      BY <2>1 DEF SlotSet, Slot
  <1>3. \A x : ~Removes(b, x) /\ (Adds(b, x) <=> x = b.tool)
    BY DEF Adds, Removes
  <1>4. \A x : /\ Declared(more, x) <=> Declared(blocks, x) \/ x = b.tool
               /\ Lost(more, x) <=> x # b.tool /\ Lost(blocks, x)
               /\ Referenced(more, x) <=> Referenced(blocks, x)
               /\ Lost(blocks, x) => Declared(blocks, x)
    BY <1>3, ChangesStep
  <1>5. CASE ~Known(s, b.tool)
    <2> DEFINE new == Append(slots, t)
    <2>1. v = InSlots(s, new)
      BY <1>5 DEF AddDefinition, InSlots
    <2>2. new \in Seq(SlotSet)
      <3> HIDE DEF t, slots
      <3> QED
        BY <1>1, <1>2
    <2> HIDE DEF t
    <2>3. /\ DOMAIN slots = 1..Len(slots) /\ Len(slots) \in Nat
          /\ DOMAIN new = 1..(Len(slots) + 1) /\ new # <<>>
          /\ new[Len(slots) + 1] = t
          /\ \A j \in 1..Len(slots) : new[j] = slots[j]
      <3> HIDE DEF slots
      <3> QED
        BY <1>1, <1>2
    <2> HIDE DEF new, v
    <2>4. v \in ToolSets /\ v.slots = new /\ v.removed = s.removed
      BY <1>1, <2>1, <2>2, InSlotsSet
    <2>5. \A j \in DOMAIN new : j \in DOMAIN slots \/ j = Len(slots) + 1
      BY <2>3
    <2>6. \A j \in DOMAIN slots : slots[j].name # b.tool
      BY <1>5 DEF Known
    <2>7. \A j \in DOMAIN slots : j \in DOMAIN new /\ new[j] = slots[j]
      BY <2>3
    <2>8. Len(slots) + 1 \in DOMAIN new
      BY <2>3
    <2> HIDE DEF more
    <2>9. \A x : Known(v, x) <=> Known(s, x) \/ x = b.tool
      BY <1>2, <2>3, <2>4, <2>5, <2>7, <2>8 DEF Known
    <2>10. \A x : Known(v, x) <=> Declared(more, x)
      BY <1>4, <2>9 DEF SetOK
    <2>11. \A x : x \in v.removed <=> Lost(more, x)
      <3>1. ~Lost(blocks, b.tool)
        BY <1>4, <1>5 DEF SetOK
      <3> QED
        BY <1>4, <2>4, <3>1 DEF SetOK
    <2>12. ASSUME NEW j \in DOMAIN new, new[j].deferred PROVE ~Referenced(more, new[j].name)
      <3>1. j \in DOMAIN slots /\ new[j] = slots[j]
        BY <1>2, <2>3, <2>5, <2>7, <2>12
      <3> QED
        BY <1>4, <2>12, <3>1 DEF SetOK
    <2>13. ASSUME NEW j \in DOMAIN new, NEW k \in DOMAIN new, new[j].name = new[k].name PROVE j = k
      <3>1. CASE j \in DOMAIN slots /\ k \in DOMAIN slots
        BY <2>7, <2>13, <3>1 DEF SetOK
      <3>2. CASE j = Len(slots) + 1 /\ k \in DOMAIN slots
        BY <1>2, <2>3, <2>6, <2>7, <2>13, <3>2
      <3>3. CASE k = Len(slots) + 1 /\ j \in DOMAIN slots
        BY <1>2, <2>3, <2>6, <2>7, <2>13, <3>3
      <3> QED
        BY <2>5, <3>1, <3>2, <3>3
    <2>14. SetOK(v, more)
      BY <2>3, <2>4, <2>10, <2>11, <2>12, <2>13 DEF SetOK
    <2> QED
      BY <2>14 DEF v, more
  <1>6. CASE Known(s, b.tool) /\ b.tool \in s.removed
    <2>1. v = WithSlots(s, s.removed \ {b.tool}, [s.slots EXCEPT ![First(s, b.tool)] = t])
      BY <1>6 DEF AddDefinition, WithSlots
    <2> HIDE DEF v, t
    <2>2. SetOK(v, Append(blocks, b))
      BY <1>2, <1>6, <2>1, RefilledOK
    <2> QED
      BY <2>2 DEF v
  <1>7. CASE Known(s, b.tool) /\ b.tool \notin s.removed
    <2>1. v = s
      BY <1>7 DEF AddDefinition
    <2> HIDE DEF v, more
    <2>2. Declared(blocks, b.tool) /\ ~Lost(blocks, b.tool)
      BY <1>7 DEF SetOK
    <2>3. \A x : /\ Declared(more, x) <=> Declared(blocks, x)
                 /\ Lost(more, x) <=> Lost(blocks, x)
                 /\ Referenced(more, x) <=> Referenced(blocks, x)
      BY <1>4, <2>2
    <2>4. SetOK(s, more)
      BY <2>3 DEF SetOK
    <2> QED
      BY <2>1, <2>4 DEF v, more
  <1> QED
    BY <1>5, <1>6, <1>7

\* A set that refused a change.
Refusing(s) == [s EXCEPT !.bad = TRUE]

\* A tool set that refuses its conversation.
LEMMA RefusingSet ==
    ASSUME NEW s \in ToolSets
    PROVE  Refusing(s) \in ToolSets /\ Refusing(s).bad = TRUE
  <1> DEFINE SS == Seq(SlotSet)
  <1>1. ToolSets = [slots : SS, removed : SUBSET Names, declared : Nat, bad : BOOLEAN]
    BY DEF ToolSets
  <1> HIDE DEF SS
  <1> QED
    BY <1>1 DEF Refusing

\* One change, and all of them: the set is right unless something was refused.
LEMMA ApplyOK ==
    ASSUME NEW s \in ToolSets, NEW blocks \in Seq(Blk), NEW b \in Blk,
           ~s.bad => SetOK(s, blocks)
    PROVE  LET v == Apply(s, b)
           IN  v \in ToolSets /\ (~v.bad => SetOK(v, Append(blocks, b)))
  <1> DEFINE v == Apply(s, b)
             more == Append(blocks, b)
  <1>0. s.bad \in BOOLEAN
    BY ToolSetFields
  <1>1. CASE s.bad = TRUE
    <2>1. v = s
      BY <1>1 DEF Apply
    <2> HIDE DEF v
    <2> QED
      BY <1>1, <2>1 DEF v
  <1>2. CASE s.bad = FALSE
    <2>0. SetOK(s, blocks)
      BY <1>2
    <2>1. v = IF ~IsChange(b) THEN s
              ELSE IF ~CheckToolChange(s, b) THEN Refusing(s)
              ELSE IF b.kind = "tool_removal" THEN RemoveTool(s, b)
              ELSE IF b.tag = "reference" THEN AddByReference(s, b)
              ELSE AddDefinition(s, b)
      BY <1>2 DEF Apply, Refusing
    <2>2. SetOK(v, more) => v \in ToolSets
      BY DEF SetOK
    <2> HIDE DEF v, more
    <2>3. CASE ~IsChange(b)
      <3>1. v = s
        BY <2>1, <2>3
      <3>2. SetOK(v, more)
        BY <2>0, <2>3, <3>1, ApplyOther DEF more
      <3> QED
        BY <2>2, <3>2 DEF v, more
    <2>4. CASE IsChange(b) /\ ~CheckToolChange(s, b)
      <3>1. v = Refusing(s)
        BY <2>1, <2>4
      <3>2. v \in ToolSets /\ v.bad = TRUE
        BY <3>1, RefusingSet
      <3> QED
        BY <3>2 DEF v
    <2>5. CASE CheckToolChange(s, b) /\ b.kind = "tool_removal"
      <3>1. v = RemoveTool(s, b)
        BY <2>1, <2>5 DEF IsChange
      <3>2. SetOK(v, more)
        BY <2>0, <2>5, <3>1, ApplyRemoval DEF more
      <3> QED
        BY <2>2, <3>2 DEF v, more
    <2>6. CASE CheckToolChange(s, b) /\ b.kind = "tool_addition" /\ b.tag = "reference"
      <3>1. v = AddByReference(s, b)
        BY <2>1, <2>6 DEF IsChange
      <3>2. Known(s, b.tool)
        BY <2>6 DEF CheckToolChange
      <3>3. SetOK(v, more)
        BY <2>0, <2>6, <3>1, <3>2, ApplyReference DEF more
      <3> QED
        BY <2>2, <3>3 DEF v, more
    <2>7. CASE CheckToolChange(s, b) /\ b.kind = "tool_addition" /\ b.tag = "definition"
      <3>1. v = AddDefinition(s, b)
        BY <2>1, <2>7 DEF IsChange
      <3>2. SetOK(v, more)
        BY <2>0, <2>7, <3>1, ApplyDefinition DEF more
      <3> QED
        BY <2>2, <3>2 DEF v, more
    <2>8. CheckToolChange(s, b) => b.tag \in {"definition", "reference"}
      BY DEF CheckToolChange
    <2>9. IsChange(b) => b.kind \in {"tool_addition", "tool_removal"}
      BY DEF IsChange
    <2> QED
      BY <2>3, <2>4, <2>5, <2>6, <2>7, <2>8, <2>9
  <1> QED
    BY <1>0, <1>1, <1>2

\* The tools array is in line with no blocks at all.
LEMMA NewSetOK == SetOK(NewToolSet(Tools), <<>>)
  <1> DEFINE s == NewToolSet(Tools)
             R == [name : Names, def : {0}, deferred : BOOLEAN]
  <1>1. Tools \in Seq(SlotSet) /\ Len(Tools) \in Nat
    <2>1. R \subseteq SlotSet
      BY DEF SlotSet
    <2>2. Tools \in Seq(R)
      BY ToolsAssumption
    <2> HIDE DEF R
    <2> QED
      BY <2>1, <2>2, SeqMonotonic
  <1>2. s.slots = Tools /\ s.removed = {}
    BY DEF NewToolSet
  <1>3. s \in ToolSets
    <2> DEFINE SS == Seq(SlotSet)
    <2>1. ToolSets = [slots : SS, removed : SUBSET Names, declared : Nat, bad : BOOLEAN] /\ Tools \in SS
      BY <1>1 DEF ToolSets
    <2> HIDE DEF SS
    <2> QED
      BY <1>1, <2>1 DEF NewToolSet
  <1>4. \A x : ~Lost(<<>>, x)
    BY DEF Lost
  <1>5. \A x : ~Referenced(<<>>, x)
    BY LoopsEmpty DEF Referenced
  <1>6. ASSUME NEW x PROVE Known(s, x) <=> Declared(<<>>, x)
    <2>1. \A q \in 1..((Len(<<>>) + 1) - 1) : FALSE
      OBVIOUS
    <2>2. Declared(<<>>, x) <=> \E t \in ToSet(Tools) : t.name = x
      BY <2>1 DEF Declared, DeclaredBefore
    <2> QED
      BY <1>2, <2>2 DEF Known, ToSet
  <1>7. \A i, j \in DOMAIN Tools : Tools[i].name = Tools[j].name => i = j
    BY ToolsAssumption
  <1> DEFINE none == <<>>
  <1>8. /\ \A x : Known(s, x) <=> Declared(none, x)
        /\ \A x : ~Lost(none, x)
        /\ \A x : ~Referenced(none, x)
    BY <1>4, <1>5, <1>6
  <1> HIDE DEF s, none
  <1>9. Tools # <<>> => s.slots # <<>>
    BY <1>2
  <1>10. SetOK(s, none)
    BY <1>2, <1>3, <1>7, <1>8, <1>9 DEF SetOK
  <1> QED
    BY <1>10 DEF s, none

\* A conversation that is not refused leaves a tool set in line with all its blocks.
LEMMA ResolveOK ==
    ASSUME NEW blocks \in Seq(Blk), ~ResolveToolChanges(blocks, Tools).bad
    PROVE  SetOK(ResolveToolChanges(blocks, Tools), blocks)
  <1> DEFINE Set(u) == ResolveToolChanges(u, Tools)
             T == {u \in Seq(Blk) : Set(u) \in ToolSets /\ (~Set(u).bad => SetOK(Set(u), u))}
  <1>1. <<>> \in T
    <2>1. Set(<<>>) = NewToolSet(Tools) /\ <<>> \in Seq(Blk)
      BY LoopsEmpty, EmptySeq
    <2> QED
      BY <2>1, NewSetOK DEF SetOK
  <1>2. ASSUME NEW u \in Seq(Blk), NEW b \in Blk, u \in T PROVE Append(u, b) \in T
    <2>1. Set(Append(u, b)) = Apply(Set(u), b)
      BY ResolveStep
    <2>2. Append(u, b) \in Seq(Blk) /\ Set(u) \in ToolSets /\ (~Set(u).bad => SetOK(Set(u), u))
      BY <1>2
    <2> DEFINE s == Set(u)
    <2> HIDE DEF s
    <2>3. Apply(s, b) \in ToolSets /\ (~Apply(s, b).bad => SetOK(Apply(s, b), Append(u, b)))
      BY <2>2, ApplyOK DEF s
    <2> QED
      BY <2>1, <2>2, <2>3 DEF s
  <1> HIDE DEF T, Set
  <1>3. blocks \in T
    BY <1>1, <1>2, SeqSetInduction
  <1> QED
    BY <1>3 DEF T, Set
-----------------------------------------------------------------------------
(* The tools that go upstream.                                              *)

\* A function on 1..n with slots for values is a sequence of n slots.
LEMMA MappedSeq ==
    ASSUME NEW S, NEW n \in Nat, NEW f, NEW g, f = [i \in 1..n |-> g[i]],
           \A i \in 1..n : g[i] \in S
    PROVE  f \in Seq(S) /\ Len(f) = n /\ (f = <<>> => n = 0)
  <1>1. f \in [1..n -> S]
    OBVIOUS
  <1>2. f \in Seq(S)
    BY <1>1, SeqDef
  <1>3. Len(f) = n
    BY <1>1, <1>2, LenProperties
  <1> QED
    BY <1>2, <1>3, LenProperties, EmptySeq

\* A slot as Responses tools have it.
Named(t) == [name |-> t.name, def |-> t.def]

\* translateTools and rewriteTools map slot by slot; what is left deferred was
\* deferred, and no tool_reference discovered it.
LEMMA ToolsMapped ==
    ASSUME NEW s \in Seq(SlotSet), NEW referenced
    PROVE  LET t == translateTools(s)
               r == rewriteTools(s, referenced)
           IN  /\ DOMAIN t = DOMAIN s /\ DOMAIN r = DOMAIN s
               /\ t = <<>> => s = <<>>
               /\ r \in Seq(SlotSet) /\ (r = <<>> => s = <<>>)
               /\ \A i \in DOMAIN s :
                     /\ t[i].name = s[i].name /\ r[i].name = s[i].name
                     /\ r[i].deferred => s[i].deferred /\ s[i].name \notin referenced
  <1> DEFINE t == translateTools(s)
             r == rewriteTools(s, referenced)
             n == Len(s)
  <1>1. n \in Nat /\ DOMAIN s = 1..n /\ \A i \in 1..n : s[i] \in SlotSet
    BY ElementOfSeq, LenProperties
  <1>2. /\ DOMAIN t = 1..n /\ DOMAIN r = 1..n
        /\ t = [i \in 1..n |-> t[i]] /\ r = [i \in 1..n |-> r[i]]
        /\ \A i \in 1..n : /\ t[i] = Named(s[i])
                           /\ r[i] = [s[i] EXCEPT !.deferred = s[i].deferred /\ s[i].name \notin referenced]
    BY <1>1 DEF translateTools, rewriteTools, Named
  <1>3. ASSUME NEW a \in SlotSet, NEW d \in BOOLEAN
        PROVE  LET b == [a EXCEPT !.deferred = d]
               IN  b \in SlotSet /\ b.name = a.name /\ b.deferred = d
    BY DEF SlotSet
  <1>4. \A a \in SlotSet : (a.deferred /\ a.name \notin referenced) \in BOOLEAN
    BY DEF SlotSet
  <1>5. ASSUME NEW i \in 1..n
        PROVE  /\ t[i] \in {Named(a) : a \in SlotSet} /\ t[i].name = s[i].name
               /\ r[i] \in SlotSet /\ r[i].name = s[i].name
               /\ r[i].deferred = (s[i].deferred /\ s[i].name \notin referenced)
    <2>1. s[i] \in SlotSet
      BY <1>1
    <2>2. t[i] = Named(s[i])
      BY <1>2
    <2>3. r[i] = [s[i] EXCEPT !.deferred = s[i].deferred /\ s[i].name \notin referenced]
      BY <1>2
    <2>4. Named(s[i]).name = s[i].name
      BY DEF Named
    <2> HIDE DEF t, r
    <2>5. (s[i].deferred /\ s[i].name \notin referenced) \in BOOLEAN
      BY <1>4, <2>1
    <2> QED
      BY <2>1, <2>2, <2>3, <2>4, <2>5, <1>3
  <1> HIDE DEF t, r
  <1>6. t = <<>> => n = 0
    BY <1>1, <1>2, <1>5, MappedSeq
  <1>7. r \in Seq(SlotSet) /\ (r = <<>> => n = 0)
    BY <1>1, <1>2, <1>5, MappedSeq
  <1>8. n = 0 => s = <<>>
    BY EmptySeq
  <1>9. /\ DOMAIN t = DOMAIN s /\ DOMAIN r = DOMAIN s
        /\ t = <<>> => s = <<>>
        /\ r \in Seq(SlotSet) /\ (r = <<>> => s = <<>>)
        /\ \A i \in DOMAIN s :
              /\ t[i].name = s[i].name /\ r[i].name = s[i].name
              /\ r[i].deferred => s[i].deferred /\ s[i].name \notin referenced
    BY <1>1, <1>2, <1>5, <1>6, <1>7, <1>8
  <1> QED
    BY <1>9 DEF t, r

\* So the names sent are those of the slots.
LEMMA NamesMapped ==
    ASSUME NEW s, NEW t, DOMAIN t = DOMAIN s, \A i \in DOMAIN s : t[i].name = s[i].name
    PROVE  {u.name : u \in ToSet(t)} = {u.name : u \in ToSet(s)}
  <1>1. {u.name : u \in ToSet(t)} = {t[i].name : i \in DOMAIN t}
    BY Zenon DEF ToSet
  <1>2. {u.name : u \in ToSet(s)} = {s[i].name : i \in DOMAIN s}
    BY Zenon DEF ToSet
  <1> QED
    BY <1>1, <1>2

\* The slots that stay are named as the reference definition says.
LEMMA ActiveNames ==
    ASSUME NEW blocks \in Seq(Blk), NEW s, SetOK(s, blocks)
    PROVE  /\ Active(s) \in Seq(SlotSet)
           /\ ToSet(Active(s)) \subseteq ToSet(s.slots)
           /\ {u.name : u \in ToSet(Active(s))} = Advertised(blocks, Tools, Names)
           /\ Active(s) = <<>> /\ Tools # <<>> => Removed(s) # {}
  <1> DEFINE gone == {t \in ToSet(s.slots) : t.name \in s.removed}
  <1>1. /\ s.slots \in Seq(SlotSet)
        /\ \A x : Known(s, x) <=> Declared(blocks, x)
        /\ \A x : x \in s.removed <=> Lost(blocks, x)
        /\ Tools # <<>> => s.slots # <<>>
    BY ToolSetFields DEF SetOK
  <1>2. Active(s) \in Seq(SlotSet) /\ ToSet(Active(s)) = ToSet(s.slots) \ gone
    <2>1. Active(s) = Without(s.slots, gone)
      BY DEF Active
    <2> HIDE DEF gone
    <2> QED
      BY <1>1, <2>1, WithoutFacts
  <1>3. \A x : x \in {u.name : u \in ToSet(Active(s))} <=> x \notin s.removed /\ \E t \in ToSet(s.slots) : t.name = x
    BY <1>2
  <1>4. \A x : Known(s, x) <=> \E t \in ToSet(s.slots) : t.name = x
    BY DEF Known, ToSet
  <1>5. \A t \in ToSet(s.slots) : t.name \in Names
    <2>1. ToSet(s.slots) \subseteq SlotSet
      BY <1>1 DEF ToSet
    <2> QED
      BY <2>1 DEF SlotSet
  <1>6. \A x \in Names : x \in Advertised(blocks, Tools, Names) <=> Declared(blocks, x) /\ ~Lost(blocks, x)
    BY Zenon DEF Advertised, Declared, Lost, Adds, Removes
  <1>7. \A x \in Advertised(blocks, Tools, Names) : x \in Names
    BY DEF Advertised
  <1>8. {u.name : u \in ToSet(Active(s))} = Advertised(blocks, Tools, Names)
    BY <1>1, <1>3, <1>4, <1>5, <1>6, <1>7
  <1>9. ASSUME Active(s) = <<>>, Tools # <<>> PROVE Removed(s) # {}
    <2>1. ToSet(s.slots) \subseteq gone
      BY <1>2, <1>9, LoopsEmpty
    <2>2. 1 \in DOMAIN s.slots
      BY <1>1, <1>9, EmptySeq, LenProperties
    <2>3. s.slots[1] \in ToSet(s.slots)
      BY <2>2 DEF ToSet
    <2>4. s.slots[1].name \in Removed(s)
      BY <2>1, <2>3 DEF Removed
    <2> QED
      BY <2>4
  <1> QED
    BY <1>2, <1>8, <1>9

\* Taking the change blocks out takes no discovery with them.
LEMMA DiscoveredHoisted ==
    ASSUME HistoryInv
    PROVE  Discovered(hoistFromMessages(history)) = Discovered(history)
  <1> DEFINE gone == {b \in ToSet(BlocksOf(history)) : IsChange(b)}
  <1>1. \A b \in gone : b.kind # "tool_use" /\ b.kind # "tool_result"
    BY DEF IsChange
  <1>2. hoistFromMessages(history) = Strip(history, gone)
    BY DEF hoistFromMessages
  <1> HIDE DEF gone
  <1>3. ToSet(BlocksOf(hoistFromMessages(history))) = ToSet(BlocksOf(history)) \ gone
    BY <1>1, <1>2, RelayFaithful
  <1>4. \A c : (c \in ToSet(BlocksOf(hoistFromMessages(history))) /\ c.kind = "tool_result")
                 <=> (c \in ToSet(BlocksOf(history)) /\ c.kind = "tool_result")
    BY <1>1, <1>3
  <1> QED
    BY <1>4 DEF Discovered

\* What a request sends, whichever of the two legs it goes by.
LEMMA CodexTools ==
    ASSUME HistoryInv, SentInv, Going("codex")
    PROVE  LET set == ResolveToolChanges(BlocksOf(history), Tools) IN
           /\ SetOK(set, BlocksOf(history)) /\ BlocksOf(history) \in Seq(Blk)
           /\ sent.tools = translateTools(Active(set))
           /\ sent.messages = <<>> /\ sent.deferred = {}
           /\ sent.choice = ~(sent.tools = <<>> /\ Removed(set) # {})
  <1>1. PICK turn : sent = Translate(history, turn)
    BY WhoseRequest
  <1>2. ~sent.bad
    BY WhoseRequest
  <1>3. BlocksOf(history) \in Seq(Blk)
    BY HistoryBlocks DEF HistoryInv, HistoryOK
  <1>4. ~ResolveToolChanges(BlocksOf(history), Tools).bad
    BY <1>1, <1>2, TranslateFields
  <1>5. SetOK(ResolveToolChanges(BlocksOf(history), Tools), BlocksOf(history))
    BY <1>3, <1>4, ResolveOK
  <1> QED
    BY <1>1, <1>3, <1>5, TranslateFields

\* The same of a DeepSeek request, whose messages are the history without its changes.
LEMMA DeepSeekTools ==
    ASSUME HistoryInv, SentInv, Going("deepseek")
    PROVE  LET set == ResolveToolChanges(BlocksOf(history), Tools)
               slots == rewriteTools(Active(set), Discovered(history))
           IN  /\ SetOK(set, BlocksOf(history)) /\ BlocksOf(history) \in Seq(Blk)
               /\ sent.tools = translateTools(slots)
               /\ sent.deferred = {t.name : t \in {u \in ToSet(slots) : u.deferred}}
               /\ sent.choice = ~(slots = <<>> /\ Removed(set) # {})
               /\ \A b \in ToSet(BlocksOf(sent.messages)) : ~IsChange(b)
               /\ \A i \in DOMAIN sent.messages : sent.messages[i].blocks # <<>>
  <1> DEFINE gone == {b \in ToSet(BlocksOf(history)) : IsChange(b)}
  <1>1. PICK images \in BOOLEAN : sent = rewriteRequest(history, images) /\ ~sent.bad
    BY WhoseRequest
  <1>2. BlocksOf(history) \in Seq(Blk)
    BY HistoryBlocks DEF HistoryInv, HistoryOK
  <1>3. ~ResolveToolChanges(BlocksOf(history), Tools).bad
    BY <1>1, RewriteFields
  <1>4. SetOK(ResolveToolChanges(BlocksOf(history), Tools), BlocksOf(history))
    BY <1>2, <1>3, ResolveOK
  <1>5. sent.messages = Strip(history, gone)
    <2>1. sent.messages = hoistFromMessages(history)
      BY <1>1, RewriteFields
    <2> QED
      BY <2>1 DEF hoistFromMessages
  <1>6. \A b \in gone : b.kind \notin {"tool_use", "tool_result"}
    BY DEF IsChange
  <1>7. \A b \in ToSet(BlocksOf(history)) : b \notin gone => ~IsChange(b)
    OBVIOUS
  <1> HIDE DEF gone
  <1>8. /\ ToSet(BlocksOf(sent.messages)) = ToSet(BlocksOf(history)) \ gone
        /\ \A i \in DOMAIN sent.messages : sent.messages[i].blocks # <<>>
    BY <1>5, <1>6, RelayFaithful
  <1>9. \A b \in ToSet(BlocksOf(sent.messages)) : ~IsChange(b)
    BY <1>7, <1>8
  <1> QED
    BY <1>1, <1>2, <1>4, <1>8, <1>9, RewriteFields, DiscoveredHoisted

\* A slot still deferred is none the conversation has told the model of.
LEMMA DeferredUnannounced ==
    ASSUME HistoryInv, NEW s, SetOK(s, BlocksOf(history)), Active(s) \in Seq(SlotSet),
           ToSet(Active(s)) \subseteq ToSet(s.slots)
    PROVE  LET slots == rewriteTools(Active(s), Discovered(history))
           IN  {t.name : t \in {u \in ToSet(slots) : u.deferred}} \cap Announced(history) = {}
  <1> DEFINE slots == rewriteTools(Active(s), Discovered(history))
  <1>1. SUFFICES ASSUME NEW i \in DOMAIN slots, slots[i].deferred,
                        slots[i].name \in Announced(history)
                 PROVE  FALSE
    BY DEF ToSet
  <1>2. /\ i \in DOMAIN Active(s) /\ slots[i].name = Active(s)[i].name
        /\ Active(s)[i].deferred /\ Active(s)[i].name \notin Discovered(history)
    BY <1>1, ToolsMapped
  <1>3. PICK j \in DOMAIN s.slots : s.slots[j] = Active(s)[i]
    BY <1>2 DEF ToSet
  <1>4. ~Referenced(BlocksOf(history), s.slots[j].name)
    BY <1>2, <1>3 DEF SetOK
  <1>5. \A x : x \in Announced(history) => x \in Discovered(history) \/ Referenced(BlocksOf(history), x)
    BY DEF Announced, Referenced, Adds
  <1> QED
    BY <1>1, <1>2, <1>3, <1>4, <1>5

\* The tools array a request takes upstream holds exactly the tools the
\* conversation's changes leave active, for every history: the fold of
\* aschema.ToolSet over the blocks agrees with the reference definition.
THEOREM ConversationToolsFollowChanges == Spec => []ToolsFollowChanges
  <1>1. HistoryInv /\ SentInv => ToolsFollowChanges
    <2> SUFFICES ASSUME HistoryInv, SentInv PROVE ToolsFollowChanges
      OBVIOUS
    <2> DEFINE set == ResolveToolChanges(BlocksOf(history), Tools)
               slots == rewriteTools(Active(set), Discovered(history))
    <2>1. ASSUME Going("codex")
          PROVE  /\ {t.name : t \in ToSet(sent.tools)} = Advertised(BlocksOf(history), Tools, Names)
                 /\ \A b \in ToSet(BlocksOf(sent.messages)) : ~IsChange(b)
                 /\ \A i \in DOMAIN sent.messages : sent.messages[i].blocks # <<>>
                 /\ sent.tools = <<>> /\ Tools # <<>> => ~sent.choice
                 /\ sent.deferred \cap Announced(history) = {}
      <3>1. /\ SetOK(set, BlocksOf(history)) /\ BlocksOf(history) \in Seq(Blk)
            /\ sent.tools = translateTools(Active(set))
            /\ sent.messages = <<>> /\ sent.deferred = {}
            /\ sent.choice = ~(sent.tools = <<>> /\ Removed(set) # {})
        BY <2>1, CodexTools
      <3> HIDE DEF set
      <3>2. /\ Active(set) \in Seq(SlotSet)
            /\ {u.name : u \in ToSet(Active(set))} = Advertised(BlocksOf(history), Tools, Names)
            /\ Active(set) = <<>> /\ Tools # <<>> => Removed(set) # {}
        BY <3>1, ActiveNames
      <3>3. /\ DOMAIN sent.tools = DOMAIN Active(set)
            /\ sent.tools = <<>> => Active(set) = <<>>
            /\ \A i \in DOMAIN Active(set) : sent.tools[i].name = Active(set)[i].name
        BY <3>1, <3>2, ToolsMapped
      <3>4. {t.name : t \in ToSet(sent.tools)} = {u.name : u \in ToSet(Active(set))}
        BY <3>3, NamesMapped
      <3>5. ToSet(BlocksOf(sent.messages)) = {} /\ DOMAIN sent.messages = {}
        BY <3>1, LoopsEmpty, EmptySeq
      <3> QED
        BY <3>1, <3>2, <3>3, <3>4, <3>5
    <2>2. ASSUME Going("deepseek")
          PROVE  /\ {t.name : t \in ToSet(sent.tools)} = Advertised(BlocksOf(history), Tools, Names)
                 /\ \A b \in ToSet(BlocksOf(sent.messages)) : ~IsChange(b)
                 /\ \A i \in DOMAIN sent.messages : sent.messages[i].blocks # <<>>
                 /\ sent.tools = <<>> /\ Tools # <<>> => ~sent.choice
                 /\ sent.deferred \cap Announced(history) = {}
      <3>1. /\ SetOK(set, BlocksOf(history)) /\ BlocksOf(history) \in Seq(Blk)
            /\ sent.tools = translateTools(slots)
            /\ sent.deferred = {t.name : t \in {u \in ToSet(slots) : u.deferred}}
            /\ sent.choice = ~(slots = <<>> /\ Removed(set) # {})
            /\ \A b \in ToSet(BlocksOf(sent.messages)) : ~IsChange(b)
            /\ \A i \in DOMAIN sent.messages : sent.messages[i].blocks # <<>>
        BY <2>2, DeepSeekTools
      <3> HIDE DEF set
      <3>2. /\ Active(set) \in Seq(SlotSet) /\ ToSet(Active(set)) \subseteq ToSet(set.slots)
            /\ {u.name : u \in ToSet(Active(set))} = Advertised(BlocksOf(history), Tools, Names)
            /\ Active(set) = <<>> /\ Tools # <<>> => Removed(set) # {}
        BY <3>1, ActiveNames
      <3>3. /\ slots \in Seq(SlotSet) /\ DOMAIN slots = DOMAIN Active(set)
            /\ slots = <<>> => Active(set) = <<>>
            /\ \A i \in DOMAIN Active(set) : slots[i].name = Active(set)[i].name
        BY <3>2, ToolsMapped
      <3>4. {t.name : t \in {u \in ToSet(slots) : u.deferred}} \cap Announced(history) = {}
        BY <3>1, <3>2, DeferredUnannounced
      <3> HIDE DEF slots
      <3>5. /\ DOMAIN translateTools(slots) = DOMAIN slots
            /\ translateTools(slots) = <<>> => slots = <<>>
            /\ \A i \in DOMAIN slots : translateTools(slots)[i].name = slots[i].name
        BY <3>3, ToolsMapped
      <3>6. {t.name : t \in ToSet(sent.tools)} = {u.name : u \in ToSet(slots)}
        BY <3>1, <3>5, NamesMapped
      <3>7. {u.name : u \in ToSet(slots)} = {u.name : u \in ToSet(Active(set))}
        BY <3>3, NamesMapped
      <3> QED
        BY <3>1, <3>2, <3>3, <3>4, <3>5, <3>6, <3>7
    <2> HIDE DEF set, slots
    <2> QED
      BY <2>1, <2>2, Zenon DEF ToolsFollowChanges
  <1> QED
    BY <1>1, ConversationInvariant, PTL

==============================================================================
