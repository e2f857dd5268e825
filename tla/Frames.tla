------------------------------- MODULE Frames -------------------------------
(***************************************************************************)
(* The SSE codec (internal/sse): a Scanner reads what a FrameWriter, or an *)
(* upstream with line ends and comments of its own, wrote, from a          *)
(* connection that may be cut at any byte.  A field name is two bytes      *)
(* here, so that a cut can fall inside it, and a payload a few.            *)
(***************************************************************************)
EXTENDS Integers, SequencesExt

CONSTANTS
  Payloads,   \* data of a frame: sequences of "x", ":", SP and LF
  MaxLine     \* maxLine, the longest line the Scanner accepts

SP == "SP"
LF == "LF"
CR == "CR"

ASSUME FramesAssumption ==
  /\ MaxLine \in Nat \ {0}
  /\ \A data \in Payloads : data \in Seq({"x", ":", SP, LF})

VARIABLES
  sent,    \* what was written: its frames, whether it is cut and what it ends
           \* with, and how many data fields begin before that
  sse      \* the Scanner: the rest of the wire, and what Scan has gathered and read

frameVars == <<sent, sse>>

NameOf(field) == IF field = "event" THEN <<"ev", "ent">> ELSE <<"da", "ta">>

Line(field, value) == NameOf(field) \o <<":", SP>> \o value

\* A line feed begins a line of its own, any other byte goes on with the last.
NextSegment(lines, c) ==
  IF c = LF THEN Append(lines, <<>>)
  ELSE [lines EXCEPT ![Len(lines)] = Append(@, c)]

\* The payload's lines: one more than it has line feeds.
Segments(data) ==
  LET lines[i \in 0..Len(data)] ==
        IF i = 0 THEN <<<<>>>> ELSE NextSegment(lines[i - 1], data[i])
  IN  lines[Len(data)]

\* The lines of a frame: an event line unless it has no name, a data line for
\* each line of the payload, and the blank one.
WriteFrame(f) ==
  (IF f.event = <<>> THEN <<>> ELSE <<Line("event", f.event)>>)
    \o [n \in DOMAIN Segments(f.data) |-> Line("data", Segments(f.data)[n])]
    \o <<<<>>>>

\* The wire that a sequence of frames makes, with a comment (or none) before
\* some line, and each line ended as the writer of it does.
Wire(frames, comment, at, eol) ==
  LET lines == FlattenSeq([n \in DOMAIN frames |-> WriteFrame(frames[n])])
      all == IF comment = <<>> THEN lines ELSE InsertAt(lines, at, comment)
  IN  FlattenSeq([n \in DOMAIN all |-> all[n] \o eol])

Comments == {<<>>, <<":", "x">>, <<"id", ":", "x">>}
LineEnds == {<<LF>>, <<CR, LF>>, <<CR>>}

\* At the start of a Scan: no field seen, and no frame handed out.
Fresh == [event |-> <<>>, data |-> <<>>, haveData |-> FALSE]

\* What is sent, up to the cut, and the Scanner before it reads.
Sends(frames, whole, cut, ending) ==
  /\ sent = [frames |-> frames, cut |-> cut < Len(whole), ending |-> ending,
             dataFields |-> Cardinality({k \in 1..cut : whole[k] = "ta"})]
  /\ sse = [rest |-> SubSeq(whole, 1, cut), locals |-> Fresh,
            read |-> <<>>, done |-> FALSE, err |-> "none"]

FramesInit ==
  \E first, second \in [event : {<<>>, <<"x">>}, data : Payloads] :
  \E whole \in {Wire(<<first, second>>, comment, at, eol) :
                 comment \in Comments, at \in 2..3, eol \in LineEnds} :
  \E cut \in 0..Len(whole), ending \in {"EOF", "reset"} :
    Sends(<<first, second>>, whole, cut, ending)

---------------------------------------------------------------------------
(* readLine *)

\* The line in front, without its end.
LineLen(bytes) ==
  LET ends == {k \in DOMAIN bytes : bytes[k] \in {LF, CR}}
  IN  IF ends = {} THEN Len(bytes) ELSE Min(ends) - 1

\* A CR swallows the LF that follows it: CRLF is one line end.
AfterLine(bytes) ==
  LET n == LineLen(bytes)
      crlf == n + 2 <= Len(bytes) /\ bytes[n + 1] = CR /\ bytes[n + 2] = LF
  IN  SubSeq(bytes, n + (IF crlf THEN 3 ELSE 2), Len(bytes))

\* The value of a field, without the one space after the colon; the whole line
\* is the name if it has no colon.
splitField(line) ==
  LET colons == {k \in DOMAIN line : line[k] = ":"}
      i == IF colons = {} THEN Len(line) + 1 ELSE Min(colons)
      v == SubSeq(line, i + 1, Len(line))
  IN  [name |-> SubSeq(line, 1, i - 1),
       value |-> IF v # <<>> /\ v[1] = SP THEN Tail(v) ELSE v]

---------------------------------------------------------------------------
(* Scan *)

\* What a line that is not blank adds to the frame being gathered.
Field(locals, line) ==
  LET f == splitField(line)
  IN  CASE f.name = NameOf("event") -> [locals EXCEPT !.event = f.value]
        [] f.name = NameOf("data") ->
             [locals EXCEPT !.data = (IF locals.haveData THEN @ \o <<LF>> ELSE @) \o f.value,
                            !.haveData = TRUE]
        [] OTHER -> locals

Dispatched(locals) == [event |-> locals.event, data |-> locals.data]

Scanning == ~sse.done /\ sse.rest # <<>>
LineInHand == SubSeq(sse.rest, 1, LineLen(sse.rest))

\* A comment, a field, or one of no interest; the last line may lack its end.
ScanField ==
  /\ Scanning /\ LineInHand # <<>> /\ Len(LineInHand) <= MaxLine
  /\ sse' = [sse EXCEPT
       !.rest = AfterLine(@),
       !.locals = IF LineInHand[1] = ":" THEN @ ELSE Field(@, LineInHand)]
  /\ UNCHANGED sent

\* A blank line hands out a frame that has a data field, and Scan is called
\* again; one without data goes on gathering.
ScanBlank ==
  /\ Scanning /\ LineInHand = <<>>
  /\ sse' =
       IF sse.locals.haveData
       THEN [sse EXCEPT !.rest = AfterLine(@), !.locals = Fresh,
                            !.read = Append(@, Dispatched(sse.locals))]
       ELSE [sse EXCEPT !.rest = AfterLine(@)]
  /\ UNCHANGED sent

LineTooLong ==
  /\ Scanning /\ Len(LineInHand) > MaxLine
  /\ sse' = [sse EXCEPT !.done = TRUE, !.err = "tooLong"]
  /\ UNCHANGED sent

\* Mutant: anything gathered is handed out.
FlushAtEOF_Any(locals) == locals # Fresh

\* What an end of the stream inside a frame makes of it.
FlushAtEOF(locals) == locals.haveData

\* The end of the stream hands out a frame that was not finished, if it has a
\* data field; a read error hands out nothing.
ScanEnd ==
  /\ ~sse.done /\ sse.rest = <<>>
  /\ sse' =
       CASE sent.ending = "reset" -> [sse EXCEPT !.done = TRUE, !.err = "reset"]
         [] sent.ending # "reset" /\ FlushAtEOF(sse.locals) ->
              [sse EXCEPT !.done = TRUE, !.read = Append(@, Dispatched(sse.locals))]
         [] OTHER -> [sse EXCEPT !.done = TRUE]
  /\ UNCHANGED sent

FramesNext == ScanField \/ ScanBlank \/ LineTooLong \/ ScanEnd

---------------------------------------------------------------------------
(* PROPERTIES *)

\* The frame that a cut left: its event is whole, and its data the beginning of
\* what was written.
CutFrom(got, written) == got.event = written.event /\ IsPrefix(got.data, written.data)

(* The codec is "a faithful round trip" (readLine), and "a stream cut off   *)
(* after an event: line cannot fabricate a terminal event" (Scan): the      *)
(* frames read are those that were written, in order, whatever ends the     *)
(* lines and whatever is between them, and a stream that came whole is read *)
(* whole.  The last may be one that a cut left, at the end of the stream    *)
(* and never at an error; every line of its data, the first included, comes *)
(* from a field that had at least begun.  An error is never mistaken for    *)
(* the end.                                                                 *)
FramesFaithful ==
  LET n == Len(sse.read) IN
    /\ n <= Len(sent.frames)
    /\ \A k \in 1..n :
         \/ sse.read[k] = sent.frames[k]
         \/ /\ k = n /\ sse.done /\ sse.err = "none" /\ sent.cut
            /\ CutFrom(sse.read[k], sent.frames[k])
    /\ Len(FlattenSeq([k \in 1..n |-> Segments(sse.read[k].data)])) <= sent.dataFields
    /\ sse.done /\ sse.err = "none" =>
         sent.ending = "EOF" /\ (sent.cut \/ n = Len(sent.frames))
=============================================================================
