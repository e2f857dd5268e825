------------------------------- MODULE Tokens -------------------------------
(***************************************************************************)
(* How the exact token estimator counts one string in time linear in its   *)
(* length (internal/tokens/o200k.go, count): it looks for runs of one rune *)
(* class that are too long for the codec, widens each to positions where   *)
(* the codec's split regex must cut, charges that region its floor, and    *)
(* hands the text between such regions to the codec as it is.  Ten runes   *)
(* stand for the classes on which cuts depend.  Classes the regex treats   *)
(* much like one of them have no rune of their own: letters that are upper *)
(* and lower case at once (Lo, Lm), the slash, which the regex takes with  *)
(* newlines behind a symbol, the other contractions and capital ones.      *)
(* Offsets count runes from 0, as the code's count bytes.                  *)
(***************************************************************************)
EXTENDS Integers, Sequences, FiniteSetsExt

CONSTANTS
  Texts,   \* the strings counted
  Limits   \* values of maxPieceBytes

VARIABLES
  text, limit,
  scan     \* count's locals: offset i, spanStart, the previous run, the regions

tokenVars == <<text, limit, scan>>

\* "s" and "l" occur in contractions, "a" and the capital "A" do not; "m" is a
\* combining mark, "n" a newline and "sp" a space.
Letters == {"a", "s", "l", "A"}
Space == {"sp", "n"}
Runes == Letters \cup Space \cup {"1", "m", "'", "-"}

ASSUME TokensAssumption == Texts \subseteq Seq(Runes) /\ Limits \subseteq Nat \ {0}

classOf(r) ==
  CASE r \in Letters -> "letter"
    [] r = "1" -> "digit"
    [] r = "m" -> "mark"
    [] OTHER -> "other"

---------------------------------------------------------------------------
(* The split regex of o200k_base: where a piece that starts at offset i     *)
(* ends.  Each alternative is 0 where it does not match.                   *)

RunOf(t, i, runes) == Max({j \in i..Len(t) : \A k \in i + 1..j : t[k] \in runes})

Upper == {"A", "m"}
Lower == {"a", "s", "l", "m"}
Symbol == {"m", "'", "-"}
Lead == Symbol \cup {"sp"}

Contraction(t, i) ==
  CASE i + 1 < Len(t) /\ t[i + 1] = "'" /\ t[i + 2] = "s" -> i + 2
    [] i + 2 < Len(t) /\ t[i + 1] = "'" /\ t[i + 2] = "l" /\ t[i + 3] = "l" -> i + 3
    [] OTHER -> i

\* Upper* Lower+ gives back as much of Upper* as Lower+ needs; Upper+ Lower*.
LowerWord(t, i) ==
  LET starts == {j \in i..RunOf(t, i, Upper) : j < Len(t) /\ t[j + 1] \in Lower}
  IN  IF starts = {} THEN 0 ELSE Contraction(t, RunOf(t, Max(starts), Lower))

UpperWord(t, i) ==
  LET j == RunOf(t, i, Upper) IN IF j = i THEN 0 ELSE Contraction(t, RunOf(t, j, Lower))

Digits(t, i) == IF t[i + 1] = "1" THEN Min({RunOf(t, i, {"1"}), i + 3}) ELSE 0

Symbols(t, i) ==
  LET from == IF t[i + 1] = "sp" THEN i + 1 ELSE i
      end == RunOf(t, from, Symbol)
  IN  IF end = from THEN 0 ELSE RunOf(t, end, {"n"})

Spaces(t, i) ==
  LET end == RunOf(t, i, Space)
      newlines == {j \in i + 1..end : t[j] = "n"}
  IN  CASE newlines # {} -> Max(newlines)
        [] newlines = {} /\ end < Len(t) /\ end > i + 1 -> end - 1
        [] OTHER -> end

Else(end, other) == IF end # 0 THEN end ELSE other

\* The alternatives in the order they are tried, the words with a lead first.
PieceEnd(t, i) ==
  LET Led(Word(_, _)) == Else(IF t[i + 1] \in Lead THEN Word(t, i + 1) ELSE 0, Word(t, i))
  IN  Else(Led(LowerWord), Else(Led(UpperWord),
        Else(Digits(t, i), Else(Symbols(t, i), Spaces(t, i)))))

Boundaries(t) ==
  LET from[i \in 0..Len(t)] ==
        IF i = Len(t) THEN {i} ELSE {i} \cup from[PieceEnd(t, i)]
  IN  from[0]

---------------------------------------------------------------------------
(* The scan for runs and the widening of a long one.                       *)

\* The class of the run that began at i, as far as the runes before k tell.
classes(i, k) == {classOf(text[j]) : j \in i + 1..k - 1} \ {"mark"}

\* A mark extends whatever run this is, or opens one, but never joins a digit;
\* and marks do not open a run of digits.
Joins(i, k) ==
  LET c == classOf(text[k]) IN
    IF c = "mark" THEN "digit" \notin classes(i, k)
    ELSE /\ classes(i, k) \subseteq {c}
         /\ c = "digit" => \A j \in i + 1..k - 1 : classOf(text[j]) # "mark"

runEnd(i) ==
  LET end == Max({e \in i..Len(text) : \A k \in i + 1..e : Joins(i, k)})
      class == classes(i, end + 1)
  IN  [class |-> IF class = {} THEN "other" ELSE CHOOSE c \in class : TRUE, end |-> end]

marksBefore(end) == Min({j \in 0..end : \A k \in j + 1..end : classOf(text[k]) = "mark"})

\* Rune k, before one of the run's: marks at the start or after a digit open it.
Ours(class, k) ==
  LET c == classOf(text[k])
      p == marksBefore(k)
  IN  c = class \/ (c = "mark" /\ class # "digit"
                      /\ (p = 0 \/ classOf(text[p]) \in {class, "digit"}))

Reach(class, start) == Min({j \in 0..start : \A k \in j + 1..start : Ours(class, k)})

\* The run that ends at `end`, by the same rules read backwards.
prevRun(end) ==
  LET p == marksBefore(end)
  IN  CASE p = 0 -> [class |-> "other", start |-> 0]
        [] p > 0 /\ p < end /\ classOf(text[p]) = "digit" -> [class |-> "other", start |-> p]
        [] OTHER -> LET c == classOf(text[p]) IN [class |-> c, start |-> Reach(c, p - 1)]

\* Back over the letters that a lone apostrophe may be a contraction of, and
\* over what may lead them.
contractionStart(ra, letters) ==
  LET Lone(r, l) == r > 0 /\ l = r + 1 /\ text[l] = "'"
      back[r \in 0..Len(text)] ==
        LET word == prevRun(r)
            before == prevRun(word.start)
        IN  IF word.class # "letter" THEN r
            ELSE IF word.start = 0 THEN 0
            ELSE IF before.class # "other" THEN word.start
            ELSE IF Lone(before.start, word.start) THEN back[before.start]
            ELSE before.start
  IN  IF Lone(ra, letters) THEN back[ra] ELSE ra

\* Forward: a run that is not letters takes the letters after it, and any run
\* the contractions that follow.
Contractions(re) ==
  LET on[e \in 0..Len(text)] ==
        IF e + 1 < Len(text) /\ text[e + 1] = "'" /\ runEnd(e + 1).class = "letter"
        THEN on[runEnd(e + 1).end] ELSE e
  IN  on[re]

\* Mutant: a run of symbols does not take the letters after it.
LeadRune_Left(class, b) == b

LeadRune(class, b) ==
  IF class # "letter" /\ b < Len(text) /\ runEnd(b).class = "letter" THEN runEnd(b).end ELSE b

region(class, a, b, prev) ==
  [ra |-> CASE class = "letter" /\ prev.class = "other" -> contractionStart(prev.start, a)
            [] class = "other" /\ b = a + 1 /\ text[a + 1] = "'" /\ prev.class = "letter"
                 -> contractionStart(a, b)
            [] OTHER -> a,
   re |-> Contractions(LeadRune(class, b))]

NoRun == [class |-> "none", start |-> 0]
Unscanned == [i |-> 0, spanStart |-> 0, prev |-> NoRun, regions |-> {}, spans |-> {}]

TokensInit == text \in Texts /\ limit \in Limits /\ scan = Unscanned

\* A run that the codec can take, or one of digits, which it cuts itself.
ShortRun ==
  /\ scan.i < Len(text)
  /\ LET run == runEnd(scan.i) IN
       /\ run.end - scan.i < limit \/ run.class = "digit"
       /\ scan' = [scan EXCEPT !.i = run.end,
                               !.prev = [class |-> run.class, start |-> scan.i]]
  /\ UNCHANGED <<text, limit>>

LongRun ==
  /\ scan.i < Len(text)
  /\ LET run == runEnd(scan.i)
         wide == region(run.class, scan.i, run.end, scan.prev)
         ra == Max({wide.ra, scan.spanStart})
     IN  /\ run.end - scan.i >= limit /\ run.class # "digit"
         /\ scan' = [i |-> wide.re, spanStart |-> wide.re, prev |-> NoRun,
                     regions |-> scan.regions \cup {<<ra, wide.re>>},
                     spans |-> scan.spans \cup {<<scan.spanStart, ra>>}]
  /\ UNCHANGED <<text, limit>>

LastSpan ==
  /\ scan.i = Len(text)
  /\ scan' = [scan EXCEPT !.i = @ + 1, !.spans = @ \cup {<<scan.spanStart, Len(text)>>}]
  /\ UNCHANGED <<text, limit>>

TokensNext == ShortRun \/ LongRun \/ LastSpan

---------------------------------------------------------------------------
(* PROPERTIES *)

\* No piece that the codec cuts a span into is longer than n.
PiecesBounded(n) ==
  \A s \in scan.spans :
    LET own == Boundaries(SubSeq(text, s[1] + 1, s[2])) IN
      \A j \in own \ {Max(own)} : \E k \in own : j < k /\ k <= j + n

(* What keeps the estimate a lower bound: "the pieces inside it are whole,  *)
(* and the spans on either side of it split exactly as they did with it in *)
(* place" (region).  A region is tiled by pieces of the whole text and a   *)
(* span on its own splits where it did in place.  What keeps it linear: no *)
(* piece that the codec is given is longer than two short runs and a       *)
(* contraction (marks that close a run of symbols may open a word).        *)
CutsExact ==
  LET cuts == Boundaries(text) IN
    /\ \A r \in scan.regions : r[1] \in cuts /\ r[2] \in cuts
    /\ \A s \in scan.spans :
         {s[1] + j : j \in Boundaries(SubSeq(text, s[1] + 1, s[2]))}
            = {j \in cuts : s[1] <= j /\ j <= s[2]}
    /\ PiecesBounded(2 * limit + 1)

(* "Pieces are at most a run plus a leading rune and a contraction"        *)
(* (maxPieceBytes): one rune, a run below the limit, an apostrophe and two *)
(* letters.                                                                *)
PieceIsOneRun == PiecesBounded(1 + (limit - 1) + 3)
=============================================================================
