------------------------------- MODULE FilePages -------------------------------
(***************************************************************************)
(* The tool read shows a file in pieces that fit the limits, and ends each *)
(* with the offset to continue at; bash shows the end of an output.  A     *)
(* line is its number of bytes.  A text that ends with a newline has an    *)
(* empty last line, which splitCountLines does not count.                  *)
(***************************************************************************)
EXTENDS Naturals, FiniteSets, SequencesExt

CONSTANTS
  Files,     \* lines of the files read: an empty one has one empty line
  MaxLines,  \* defaultMaxLines
  MaxBytes,  \* defaultMaxBytes
  Limits     \* values of the argument limit, 0 for any that is not positive

ASSUME PagesAssumption ==
  /\ {MaxLines, MaxBytes} \subseteq Nat \ {0}
  /\ Limits \subseteq Nat
  /\ Files \subseteq Seq(Nat) \ {<<>>}

VARIABLES
  lines,   \* the file
  offset,  \* the offset of the next call, as the last page suggested it
  shown,   \* the pages with lines so far, each the numbers of its lines
  status,  \* reading, done, or stopped at a line that fits no page
  tail     \* the end of the same text as an output of bash

pageVars == <<lines, offset, shown, status, tail>>

\* The bytes of the lines, and the newlines between them.
Bytes(text) ==
  LET sum[n \in 0..Len(text)] == IF n = 0 THEN 0 ELSE sum[n - 1] + text[n]
  IN  sum[Len(text)] + Len(text) - 1

splitCountLines(text) ==
  IF text = <<>> \/ Last(text) = 0 THEN SubSeq(text, 1, Len(text) - 1) ELSE text

Fits(text) == Len(splitCountLines(text)) <= MaxLines /\ Bytes(text) <= MaxBytes

\* A slip, for the check of the properties: the newlines are not counted.
BadTakes(text, k) ==
  /\ k <= MaxLines
  /\ \A j \in 1..k : Bytes(SubSeq(text, 1, j)) <= MaxBytes + j - 1

\* The first k lines are taken as long as they fit.
Takes(text, k) ==
  /\ k <= MaxLines
  /\ \A j \in 1..k : Bytes(SubSeq(text, 1, j)) <= MaxBytes

\* How many lines of the text are shown; all but a line too long are some.
truncateHead(text) ==
  LET counted == splitCountLines(text)
  IN  IF Fits(text) THEN Len(counted)
      ELSE Max({k \in 0..Len(counted) : Takes(counted, k)})

FirstLineExceeds(text) ==
  ~Fits(text) /\ splitCountLines(text) # <<>> /\ text[1] > MaxBytes

\* From the end, whole lines; the last line alone may be cut.
truncateTail(text) ==
  LET counted == splitCountLines(text)
      back    == Reverse(counted)
  IN  IF Fits(text) THEN [lines |-> Len(counted), partial |-> FALSE]
      ELSE IF back[1] > MaxBytes THEN [lines |-> 1, partial |-> TRUE]
      ELSE [lines |-> Max({k \in 0..Len(back) : Takes(back, k)}), partial |-> FALSE]

PagesInit ==
  /\ lines \in Files
  /\ offset = 1 /\ shown = <<>> /\ status = "reading"
  /\ tail = truncateTail(lines)

\* Where a selection ends: with the file, when the call has no limit, or where
\* its limit has it, which is before the offset when it is not positive.
PageEnds ==
  {Len(lines)} \cup
    {IF offset - 1 + limit > Len(lines) THEN Len(lines) ELSE offset - 1 + limit :
       limit \in Limits}

\* The page, and the hint after it: where it was cut, or where the limit of
\* the call ended it.  After an empty selection the hint is the same offset.
Page(end) ==
  LET selected == SubSeq(lines, offset, end)
      count    == truncateHead(selected)
      next     == IF ~Fits(selected) THEN offset + count ELSE end + 1
  IN  /\ status = "reading"
      /\ ~FirstLineExceeds(selected)
      /\ shown' = IF count = 0 THEN shown
                  ELSE Append(shown, [i \in 1..count |-> offset + i - 1])
      /\ IF ~Fits(selected) \/ end < Len(lines)
         THEN offset' = next /\ UNCHANGED status
         ELSE status' = "done" /\ UNCHANGED offset
      /\ UNCHANGED <<lines, tail>>

\* The hint names a command instead of an offset.
LineTooLong(end) ==
  /\ status = "reading"
  /\ FirstLineExceeds(SubSeq(lines, offset, end))
  /\ status' = "stopped"
  /\ UNCHANGED <<lines, offset, shown, tail>>

PagesNext == \E end \in PageEnds : Page(end) \/ LineTooLong(end)

PagesSpec == PagesInit /\ [][PagesNext]_pageVars

-----------------------------------------------------------------------------
(* Properties.                                                             *)

\* A cut output is its end, and as much of it as fits.
TailFits ==
  LET counted == splitCountLines(lines)
      End(n)  == SubSeq(counted, Len(counted) - n + 1, Len(counted))
  IN  IF tail.partial THEN Last(counted) > MaxBytes
      ELSE /\ End(tail.lines) # <<>> => Bytes(End(tail.lines)) <= MaxBytes
           /\ tail.lines < Len(counted) =>
                tail.lines = MaxLines \/ Bytes(End(tail.lines + 1)) > MaxBytes

\* "When you need the full file, continue with offset until complete"
\* (tools.go:48).  Whatever limits the calls have, the pages show every line
\* that is not empty once and in order, each within the limits, and the hints
\* lead past the end of the file or to a line that fits no page.  An output of
\* bash that does not fit shows the longest end that does.
PagesCoverFile ==
  LET all == UNION {ToSet(shown[i]) : i \in DOMAIN shown}
  IN  /\ \A i, j \in DOMAIN shown : \A k \in DOMAIN shown[i], l \in DOMAIN shown[j] :
           i < j \/ (i = j /\ k < l) => shown[i][k] < shown[j][l]
      /\ \A n \in 1..Len(lines) :
           (n < offset \/ status = "done") /\ n \notin all => lines[n] = 0
      /\ \A n \in all : n \in 1..Len(lines) /\ (n < offset \/ status = "done")
      /\ \A i \in DOMAIN shown :
           LET page == [k \in DOMAIN shown[i] |-> lines[shown[i][k]]]
           IN  page # <<>> => Len(page) <= MaxLines /\ Bytes(page) <= MaxBytes
      /\ status = "stopped" => offset \in 1..Len(lines) /\ lines[offset] > MaxBytes
      /\ TailFits
=============================================================================
