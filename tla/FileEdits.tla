------------------------------- MODULE FileEdits -------------------------------
(***************************************************************************)
(* The tools edit and write, called in parallel on one file.  A call waits *)
(* for the file's lock, reads, applies its replacements, and writes.  An   *)
(* edit that matches nowhere as it is written is matched again on a        *)
(* normalised text (typographic quotes, blanks at the end of a line), and  *)
(* a table of boundaries leads back to the text as it is.                  *)
(*                                                                         *)
(* A text is a sequence of characters: "crlf" is a newline of two, "cr" a  *)
(* carriage return with no newline behind it, "bom" the byte order mark,   *)
(* "curly" stands for the characters that fuzzyRune maps to "quote".       *)
(***************************************************************************)
EXTENDS Naturals, FiniteSets, SequencesExt

CONSTANTS
  Chars,   \* what texts consist of
  Calls,   \* tool calls of a batch, or of agents that work in parallel
  Texts,   \* contents of the file before the calls
  Batches  \* what the calls ask for

ASSUME EditsAssumption ==
  /\ {"lf", "crlf", "blank", "curly", "quote"} \subseteq Chars
  /\ "none" \notin Calls
  /\ Texts \subseteq Seq(Chars)
  /\ Batches \subseteq [Calls -> [tool : {"edit", "write"}, content : Seq(Chars),
                                 edits : Seq([old : Seq(Chars), new : Seq(Chars)])]]

\* The replacements of an edit, or the content of a write.
Edit(edits)    == [tool |-> "edit", edits |-> edits, content |-> <<>>]
Write(content) == [tool |-> "write", edits |-> <<>>, content |-> content]

VARIABLES
  file,    \* the content
  lock,    \* the holder of fileMutationLocks[path], or "none"
  request, \* by call
  step,    \* waiting, locked, read, or how the call ended
  data     \* what a call has read

editVars == <<file, lock, request, step, data>>

EditInit ==
  /\ file \in Texts
  /\ request \in Batches
  /\ lock = "none"
  /\ step = [c \in Calls |-> "waiting"]
  /\ data = [c \in Calls |-> <<>>]

-----------------------------------------------------------------------------
(* applyFileEdits.                                                         *)

Replaced(text, from, to) == [i \in DOMAIN text |-> IF text[i] = from THEN to ELSE text[i]]

normalizeLF(text) ==
  [i \in DOMAIN text |-> IF text[i] \in {"crlf", "cr"} THEN "lf" ELSE text[i]]

\* The byte order mark that a file may begin with, and the rest of it.
Mark(raw)        == IF raw # <<>> /\ raw[1] = "bom" THEN <<"bom">> ELSE <<>>
WithoutMark(raw) == SubSeq(raw, Len(Mark(raw)) + 1, Len(raw))

CRLF(text) ==
  \E i \in DOMAIN text : text[i] = "crlf" /\ \A j \in 1..(i - 1) : text[j] # "lf"

\* The characters that the normalised text keeps: no blank before the end of
\* a line.
Kept(text) ==
  {i \in DOMAIN text :
     text[i] = "blank" => \E j \in (i + 1)..Len(text) :
                            /\ text[j] \notin {"blank", "lf"}
                            /\ \A k \in i..j : text[k] # "lf"}

KeptInOrder(text) ==
  [k \in 1..Cardinality(Kept(text)) |->
     CHOOSE i \in Kept(text) : Cardinality({j \in Kept(text) : j < i}) = k - 1]

Fuzzy(text) ==
  LET kept == KeptInOrder(text)
  IN  Replaced([k \in DOMAIN kept |-> text[kept[k]]], "curly", "quote")

\* Where the k-th character of the normalised text begins; the end of the
\* text after the last one.
Boundary(text, k) ==
  LET kept == KeptInOrder(text)
  IN  IF k \in DOMAIN kept THEN kept[k] ELSE Len(text) + 1

OccursAt(text, old, i) == SubSeq(text, i, i + Len(old) - 1) = old
Occurrences(text, old) == {i \in 1..(Len(text) - Len(old) + 1) : OccursAt(text, old, i)}

\* strings.Count counts occurrences that do not overlap.
Several(text, old) ==
  IF old = <<>> THEN text # <<>>
  ELSE \E i, j \in Occurrences(text, old) : i + Len(old) <= j

\* A slip, for the check of the properties: a place in the normalised text is
\* taken for the place in the text.
BadMatch(base, fuzzy, old) ==
  LET text   == IF fuzzy THEN Fuzzy(base) ELSE base
      needle == IF fuzzy THEN Fuzzy(old) ELSE old
      i      == Min(Occurrences(text, needle))
  IN  <<i, i + Len(needle)>>

\* The place of an edit in the text, as the half-open interval <<from, to>>.
Match(base, fuzzy, old) ==
  LET text   == IF fuzzy THEN Fuzzy(base) ELSE base
      needle == IF fuzzy THEN Fuzzy(old) ELSE old
      i      == Min(Occurrences(text, needle))
  IN  IF fuzzy THEN <<Boundary(base, i), Boundary(base, i + Len(needle))>>
      ELSE <<i, i + Len(needle)>>

Spliced(text, place, new) ==
  SubSeq(text, 1, place[1] - 1) \o new \o SubSeq(text, place[2], Len(text))

\* The edits are applied from the last place to the first; with the same place,
\* from the last edit to the first.
Backward(place) ==
  LET Behind(e) == {d \in DOMAIN place : \/ place[d][1] > place[e][1]
                                        \/ (place[d][1] = place[e][1] /\ d > e)}
  IN  [k \in DOMAIN place |-> CHOOSE e \in DOMAIN place : Cardinality(Behind(e)) = k - 1]

Applied(base, edits, place) ==
  LET order == Backward(place)
      text[k \in 0..Len(edits)] ==
        IF k = 0 THEN base
        ELSE Spliced(text[k - 1], place[order[k]], normalizeLF(edits[order[k]].new))
  IN  text[Len(edits)]

\* The new content behind the mark, or "error".
EditedText(raw, edits) ==
  LET base   == normalizeLF(raw)
      old(e) == normalizeLF(edits[e].old)
      fuzzy  == \E e \in DOMAIN edits : Occurrences(base, old(e)) = {}
      text   == IF fuzzy THEN Fuzzy(base) ELSE base
      sought(e) == IF fuzzy THEN Fuzzy(old(e)) ELSE old(e)
      found  == \A e \in DOMAIN edits :
                  /\ old(e) # <<>>
                  /\ Occurrences(text, sought(e)) # {}
                  /\ ~Several(text, sought(e))
      place  == [e \in DOMAIN edits |-> Match(base, fuzzy, old(e))]
      result == Applied(base, edits, place)
  IN  IF ~found THEN <<"error">>
      ELSE IF \E d, e \in DOMAIN edits :
                d # e /\ place[d][1] <= place[e][1] /\ place[d][2] > place[e][1]
      THEN <<"error">>
      ELSE IF result = base THEN <<"error">>
      ELSE IF CRLF(raw) THEN Replaced(result, "lf", "crlf") ELSE result

applyFileEdits(raw, edits) ==
  LET updated == EditedText(WithoutMark(raw), edits)
  IN  IF updated = <<"error">> THEN updated ELSE Mark(raw) \o updated

-----------------------------------------------------------------------------
(* The calls.                                                              *)

lockFileMutation(c) ==
  /\ step[c] = "waiting"
  /\ lock = "none"
  /\ lock' = c
  /\ step' = [step EXCEPT ![c] = "locked"]
  /\ UNCHANGED <<file, request, data>>

ReadFile(c) ==
  /\ step[c] = "locked"
  /\ request[c].tool = "edit"
  /\ data' = [data EXCEPT ![c] = file]
  /\ step' = [step EXCEPT ![c] = "read"]
  /\ UNCHANGED <<file, lock, request>>

End(c, how) == lock' = "none" /\ step' = [step EXCEPT ![c] = how]

WriteFile(c) ==
  /\ step[c] = "read"
  /\ LET updated == applyFileEdits(data[c], request[c].edits)
     IN  IF updated = <<"error">> THEN End(c, "failed") /\ UNCHANGED file
         ELSE End(c, "done") /\ file' = updated
  /\ UNCHANGED <<request, data>>

write(c) ==
  /\ step[c] = "locked"
  /\ request[c].tool = "write"
  /\ End(c, "done")
  /\ file' = request[c].content
  /\ UNCHANGED <<request, data>>

\* The context is looked at after the lock and before the write.
Abort(c) ==
  /\ step[c] \in {"locked", "read"}
  /\ End(c, "failed")
  /\ UNCHANGED <<file, request, data>>

EditNext ==
  \E c \in Calls : lockFileMutation(c) \/ ReadFile(c) \/ WriteFile(c) \/ write(c) \/ Abort(c)

EditSpec == EditInit /\ [][EditNext]_editVars

-----------------------------------------------------------------------------
(* Properties.                                                             *)

Places(text) == {p \in (1..(Len(text) + 1)) \X (1..(Len(text) + 1)) : p[1] <= p[2]}
Apart(p, q)  == p[2] <= q[1] \/ q[2] <= p[1]
At(text, p)  == SubSeq(text, p[1], p[2] - 1)

\* The text at p is the edit's, as it is or up to what Fuzzy ignores.
ReadsAs(text, p, old, fuzzy) ==
  IF fuzzy THEN Fuzzy(At(text, p)) = Fuzzy(old) ELSE At(text, p) = old

\* One place for every replacement, which reads as its oldText; no other place
\* apart from it does (blanks excepted: an oldText of blanks goes into a file of
\* nothing else), and all other characters stay.
Replaces(base, edits, place, result) ==
  LET old(e) == normalizeLF(edits[e].old)
      fuzzy  == \E e \in DOMAIN edits : Occurrences(base, old(e)) = {}
  IN  /\ \A e \in DOMAIN edits :
           /\ ReadsAs(base, place[e], old(e), fuzzy)
           /\ \A p \in Places(base) :
                Apart(p, place[e]) /\ Fuzzy(At(base, p)) # <<>>
                  => ~ReadsAs(base, p, old(e), fuzzy)
      /\ \A d, e \in DOMAIN edits : d # e => Apart(place[d], place[e])
      /\ result = Applied(base, edits, place)

\* The mark stays, and the rest is edited, but for its line ends.
Edited(raw, edits, updated) ==
  LET base == normalizeLF(WithoutMark(raw))
      rest == SubSeq(updated, Len(Mark(raw)) + 1, Len(updated))
  IN  /\ SubSeq(updated, 1, Len(Mark(raw))) = Mark(raw)
      /\ \E place \in [DOMAIN edits -> Places(base)] :
           Replaces(base, edits, place, normalizeLF(rest))

\* "fuzzy matching never rewrites unrelated whitespace or Unicode characters"
\* (file_edit.go:139), and "Each edits[].oldText is matched against the original
\* file, not after earlier edits are applied" (tools.go:50): a successful edit
\* replaces these places in the file as it is at that moment, behind its mark.
EditsOnlyMatches ==
  [][\A c \in Calls :
       step[c] = "read" /\ step'[c] = "done" => Edited(file, request[c].edits, file')]_editVars
=============================================================================
