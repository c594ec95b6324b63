------------------------------ MODULE FileProofs -------------------------------
(***************************************************************************)
(* The file tools: read's pages cover the file, for any contents, marker   *)
(* and limits, and edit replaces what it was asked to and nothing else,    *)
(* for any texts, calls and replacements.                                  *)
(***************************************************************************)
EXTENDS FileEdits, FilePages, Numbers, SequenceTheorems

-----------------------------------------------------------------------------
(* Pages: the bytes of a text, of its beginnings and of its ends.          *)

\* s tells the sums of the first lines of a text, up to n of them.
Sums(text, n, s) == s = [i \in 0..n |-> IF i = 0 THEN 0 ELSE s[i - 1] + text[i]]

LEMMA SumsExist ==
  ASSUME NEW text \in Seq(Nat)
  PROVE  \E s : Sums(text, Len(text), s)
<1> DEFINE Gaps == {n \in 0..Len(text) : \A s : ~Sums(text, n, s)}
<1>1. SUFFICES ASSUME Gaps # {} PROVE FALSE
  <2>1. Len(text) \in 0..Len(text)
    OBVIOUS
  <2> QED
    BY <2>1
<1>2. PICK n \in Gaps : \A m \in Gaps : n <= m
  <2>1. Gaps \in SUBSET Nat
    OBVIOUS
  <2> HIDE DEF Gaps
  <2> QED
    BY <1>1, <2>1, LeastNat
<1>3. n \in 0..Len(text) /\ n \in Nat /\ \A s : ~Sums(text, n, s)
  BY <1>2
<1>4. CASE n = 0
  <2> DEFINE s == [i \in 0..0 |-> 0]
  <2>1. s = [i \in 0..0 |-> IF i = 0 THEN 0 ELSE s[i - 1] + text[i]]
    OBVIOUS
  <2>2. Sums(text, 0, s)
    BY <2>1 DEF Sums
  <2> HIDE DEF s
  <2> QED
    BY <1>3, <1>4, <2>2
<1>5. CASE n # 0
  <2>1. n > 0 /\ n - 1 \in 0..Len(text) /\ n - 1 \notin Gaps
    BY <1>2, <1>3, <1>5
  <2>2. PICK s : Sums(text, n - 1, s)
    BY <2>1
  <2> DEFINE own == s[n - 1] + text[n]
             g == [i \in 0..n |-> IF i = n THEN own ELSE s[i]]
  <2>3. ASSUME NEW i \in 0..n
        PROVE  g[i] = IF i = 0 THEN 0 ELSE g[i - 1] + text[i]
    <3>1. i # 0 => g[i - 1] = s[i - 1]
      BY <2>1, <1>3
    <3>2. CASE i = n
      <4>1. g[i] = own
        BY <3>2
      <4> HIDE DEF g
      <4> QED
        BY <1>5, <3>1, <3>2, <4>1
    <3>3. CASE i # n
      <4>1. i \in 0..(n - 1)
        BY <2>1, <3>3, <1>3
      <4>2. s[i] = IF i = 0 THEN 0 ELSE s[i - 1] + text[i]
        BY <2>2, <4>1 DEF Sums
      <4>3. g[i] = s[i]
        BY <3>3
      <4> HIDE DEF g
      <4> QED
        BY <3>1, <4>2, <4>3
    <3> QED
      BY <3>2, <3>3
  <2>4. g = [i \in 0..n |-> g[i]]
    OBVIOUS
  <2> HIDE DEF g
  <2>5. Sums(text, n, g)
    BY <2>3, <2>4 DEF Sums
  <2> QED
    BY <1>3, <2>5
<1> QED
  BY <1>4, <1>5

\* The sums of a text, which Bytes adds the newlines to.
Totals(text, s) ==
  /\ s \in [0..Len(text) -> Nat] /\ s[0] = 0
  /\ \A n \in 1..Len(text) : s[n] = s[n - 1] + text[n]

LEMMA SumsTyped ==
  ASSUME NEW text \in Seq(Nat), NEW s, Sums(text, Len(text), s)
  PROVE  Totals(text, s)
<1>1. s[0] = 0 /\ s = [i \in 0..Len(text) |-> s[i]]
  BY DEF Sums
<1>2. \A n \in 1..Len(text) : s[n] = s[n - 1] + text[n]
  BY DEF Sums
<1> DEFINE Gaps == {n \in 0..Len(text) : s[n] \notin Nat}
<1>3. Gaps = {}
  <2>1. SUFFICES ASSUME Gaps # {} PROVE FALSE
    OBVIOUS
  <2>2. PICK n \in Gaps : \A m \in Gaps : n <= m
    <3>1. Gaps \in SUBSET Nat
      OBVIOUS
    <3> HIDE DEF Gaps
    <3> QED
      BY <2>1, <3>1, LeastNat
  <2>3. n # 0
    BY <1>1, <2>2
  <2>4. n - 1 \in 0..Len(text) /\ ~(n <= n - 1) /\ n \in 1..Len(text)
    BY <2>2, <2>3
  <2>5. s[n - 1] \in Nat /\ text[n] \in Nat
    BY <2>2, <2>4
  <2> QED
    BY <1>2, <2>2, <2>4, <2>5
<1> QED
  BY <1>1, <1>2, <1>3 DEF Totals

LEMMA BytesTold ==
  ASSUME NEW text \in Seq(Nat)
  PROVE  \E s : Totals(text, s) /\ Bytes(text) = s[Len(text)] + Len(text) - 1
<1> DEFINE P(g) == g = [n \in 0..Len(text) |-> IF n = 0 THEN 0 ELSE g[n - 1] + text[n]]
           s == CHOOSE g : P(g)
<1>1. PICK g : P(g)
  BY SumsExist DEF Sums
<1>2. P(s)
  <2> HIDE DEF P
  <2> QED
    BY <1>1
<1>3. Sums(text, Len(text), s)
  <2> HIDE DEF s
  <2> QED
    BY <1>2 DEF Sums
<1>4. Bytes(text) = s[Len(text)] + Len(text) - 1
  BY DEF Bytes
<1> HIDE DEF s
<1>5. Totals(text, s)
  BY <1>3, SumsTyped
<1> QED
  BY <1>4, <1>5

\* Where two texts agree from a line on, so do the differences of their sums.
LEMMA SumsAgree ==
  ASSUME NEW text \in Seq(Nat), NEW s, Totals(text, s),
         NEW part \in Seq(Nat), NEW v, Totals(part, v),
         NEW from \in Nat, NEW n \in Nat, n <= Len(part), from + n <= Len(text),
         \A i \in 1..n : part[i] = text[from + i]
  PROVE  v[n] = s[from + n] - s[from]
<1> DEFINE Gaps == {i \in 0..n : v[i] # s[from + i] - s[from]}
<1>1. SUFFICES ASSUME Gaps # {} PROVE FALSE
  <2>1. n \in 0..n
    OBVIOUS
  <2> QED
    BY <2>1
<1>2. PICK i \in Gaps : \A j \in Gaps : i <= j
  <2>1. Gaps \in SUBSET Nat
    OBVIOUS
  <2> HIDE DEF Gaps
  <2> QED
    BY <1>1, <2>1, LeastNat
<1>3. \A j \in 0..n : v[j] \in Nat /\ s[from + j] \in Nat
  <2>1. Len(text) \in Nat /\ Len(part) \in Nat
    OBVIOUS
  <2>2. \A j \in 0..n : j \in 0..Len(part) /\ from + j \in 0..Len(text)
    BY <2>1
  <2>3. v \in [0..Len(part) -> Nat] /\ s \in [0..Len(text) -> Nat]
    BY DEF Totals
  <2> QED
    BY <2>2, <2>3
<1>4. i # 0
  <2>1. s[from + 0] \in Nat /\ from + 0 = from
    BY <1>3
  <2>2. v[0] = 0 /\ s[from] - s[from] = 0
    BY <2>1 DEF Totals
  <2> QED
    BY <1>2, <2>1, <2>2
<1>5. i \in 1..n /\ i - 1 \in 0..n /\ ~(i <= i - 1)
  BY <1>2, <1>4
<1>6. v[i - 1] = s[from + (i - 1)] - s[from]
  BY <1>2, <1>5
<1>7. v[i] = v[i - 1] + part[i] /\ s[from + i] = s[from + (i - 1)] + text[from + i]
  <2>1. i \in 1..Len(part) /\ from + i \in 1..Len(text) /\ (from + i) - 1 = from + (i - 1)
    BY <1>5
  <2>2. s[from + i] = s[(from + i) - 1] + text[from + i]
    BY <2>1 DEF Totals
  <2> QED
    BY <2>1, <2>2 DEF Totals
<1>8. part[i] = text[from + i] /\ part[i] \in Nat /\ s[from] \in Nat
      /\ s[from + (i - 1)] \in Nat
  <2>1. s[from + 0] \in Nat /\ from + 0 = from /\ part[i] = text[from + i] /\ i \in 1..Len(part)
    BY <1>3, <1>5
  <2>2. part[i] \in Nat /\ i - 1 \in 0..n
    <3>1. \A m \in 1..Len(part) : part[m] \in Nat
      OBVIOUS
    <3> QED
      BY <1>5, <2>1, <3>1
  <2>3. s[from + (i - 1)] \in Nat
    BY <1>3, <2>2
  <2> QED
    BY <2>1, <2>2, <2>3
<1>9. v[i] = s[from + i] - s[from]
  <2>1. PICK a \in Nat, b \in Nat, e \in Nat :
          a = s[from + (i - 1)] /\ b = s[from] /\ e = part[i]
    BY <1>8
  <2>2. v[i] = v[i - 1] + e /\ s[from + i] = a + e
    BY <1>7, <1>8, <2>1
  <2>3. v[i - 1] = a - b
    BY <1>6, <2>1
  <2>4. (a - b) + e = (a + e) - b
    BY ONLY a \in Nat, b \in Nat, e \in Nat
  <2>5. v[i] = (a - b) + e
    BY ONLY <2>2, <2>3
  <2>6. s[from + i] - s[from] = (a + e) - b
    BY ONLY <2>1, <2>2
  <2> QED
    BY ONLY <2>4, <2>5, <2>6
<1> QED
  BY <1>2, <1>9

\* The bytes of a part of a text, from its sums.
PartTotals(text, s, from, n) ==
  /\ SubSeq(text, from + 1, from + n) \in Seq(Nat)
  /\ Len(SubSeq(text, from + 1, from + n)) = n
  /\ \A i \in 1..n : SubSeq(text, from + 1, from + n)[i] = text[from + i]
  /\ Bytes(SubSeq(text, from + 1, from + n)) = s[from + n] - s[from] + n - 1
  /\ s[from + n] \in Nat /\ s[from] \in Nat

LEMMA PartBytes ==
  ASSUME NEW text \in Seq(Nat), NEW s, Totals(text, s),
         NEW from \in Nat, NEW n \in Nat, from + n <= Len(text)
  PROVE  PartTotals(text, s, from, n)
<1> DEFINE part == SubSeq(text, from + 1, from + n)
<1>1. /\ part \in Seq(Nat) /\ Len(part) = n
      /\ \A i \in 1..n : part[i] = text[from + i]
  <2>1. \A i \in (from + 1)..(from + n) : text[i] \in Nat
    OBVIOUS
  <2>2. /\ part \in Seq(Nat)
        /\ Len(part) = IF from + 1 <= from + n THEN (from + n) - (from + 1) + 1 ELSE 0
        /\ \A i \in 1..((from + n) - (from + 1) + 1) : part[i] = text[(from + 1) + i - 1]
    BY <2>1, SubSeqProperties
  <2> HIDE DEF part
  <2> QED
    BY <2>2
<1> HIDE DEF part
<1>2. PICK v : Totals(part, v) /\ Bytes(part) = v[Len(part)] + Len(part) - 1
  BY <1>1, BytesTold
<1>3. v[n] = s[from + n] - s[from]
  <2>1. n <= Len(part) /\ part \in Seq(Nat) /\ \A i \in 1..n : part[i] = text[from + i]
    BY <1>1
  <2>2. Totals(part, v)
    BY <1>2
  <2> QED
    BY <2>1, <2>2, SumsAgree
<1>4. s[from + n] \in Nat /\ s[from] \in Nat
  <2>1. from + n \in 0..Len(text) /\ from \in 0..Len(text)
    OBVIOUS
  <2>2. s \in [0..Len(text) -> Nat]
    BY DEF Totals
  <2> QED
    BY <2>1, <2>2
<1>5. Bytes(part) = s[from + n] - s[from] + n - 1
  BY <1>1, <1>2, <1>3
<1> QED
  BY <1>1, <1>4, <1>5 DEF part, PartTotals

LEMMA FirstLines ==
  ASSUME NEW text \in Seq(Nat), NEW n \in Nat, n <= Len(text)
  PROVE  /\ SubSeq(text, 1, n) \in Seq(Nat) /\ Len(SubSeq(text, 1, n)) = n
         /\ \A i \in 1..n : SubSeq(text, 1, n)[i] = text[i]
<1>1. PICK s : Totals(text, s)
  BY BytesTold
<1>2. 0 + n <= Len(text) /\ 0 + 1 = 1 /\ 0 + n = n /\ \A i \in 1..n : 0 + i = i
  OBVIOUS
<1>3. /\ SubSeq(text, 0 + 1, 0 + n) \in Seq(Nat) /\ Len(SubSeq(text, 0 + 1, 0 + n)) = n
      /\ \A i \in 1..n : SubSeq(text, 0 + 1, 0 + n)[i] = text[0 + i]
  BY <1>1, <1>2, PartBytes
<1> QED
  BY <1>2, <1>3
-----------------------------------------------------------------------------
(* Pages: what is taken of a text.                                         *)

LEMMA LinesCounted ==
  ASSUME NEW text \in Seq(Nat), text # <<>>
  PROVE  /\ splitCountLines(text) \in Seq(Nat)
         /\ \A i \in 1..Len(splitCountLines(text)) : splitCountLines(text)[i] = text[i]
         /\ \/ splitCountLines(text) = text
            \/ /\ Len(splitCountLines(text)) = Len(text) - 1 /\ text[Len(text)] = 0
<1>1. CASE text[Len(text)] # 0
  BY <1>1 DEF splitCountLines, Last
<1>2. CASE text[Len(text)] = 0
  <2> DEFINE counted == SubSeq(text, 1, Len(text) - 1)
  <2>1. splitCountLines(text) = counted
    BY <1>2 DEF splitCountLines, Last
  <2>2. Len(text) - 1 \in Nat /\ Len(text) - 1 <= Len(text)
    OBVIOUS
  <2>3. /\ counted \in Seq(Nat) /\ Len(counted) = Len(text) - 1
        /\ \A i \in 1..(Len(text) - 1) : counted[i] = text[i]
    BY <2>2, FirstLines
  <2> HIDE DEF counted
  <2> QED
    BY <1>2, <2>1, <2>3
<1> QED
  BY <1>1, <1>2

\* The greatest number of first lines that fit.
LEMMA MostTaken ==
  ASSUME NEW text \in Seq(Nat)
  PROVE  LET taken == {k \in 0..Len(text) : Takes(text, k)}
         IN  /\ Max(taken) \in 0..Len(text) /\ Takes(text, Max(taken))
             /\ \A k \in 0..Len(text) : Takes(text, k) => k <= Max(taken)
<1> DEFINE taken == {k \in 0..Len(text) : Takes(text, k)}
           left == {Len(text) - k : k \in taken}
<1>1. Len(text) \in Nat /\ 0 \in taken
  BY PagesAssumption DEF Takes
<1>2. left \in SUBSET Nat /\ left # {}
  BY <1>1
<1>3. PICK least \in left : \A m \in left : least <= m
  <2> HIDE DEF left
  <2> QED
    BY <1>2, LeastNat
<1>4. PICK most \in taken : least = Len(text) - most
  BY <1>3
<1>5. \A k \in taken : most >= k
  <2> SUFFICES ASSUME NEW k \in taken PROVE most >= k
    OBVIOUS
  <2>1. Len(text) - most <= Len(text) - k
    BY <1>3, <1>4
  <2>2. k \in 0..Len(text) /\ most \in 0..Len(text)
    BY <1>4
  <2> QED
    BY <1>1, <2>1, <2>2
<1>6. Max(taken) \in taken /\ \A k \in taken : Max(taken) >= k
  <2> HIDE DEF taken
  <2> QED
    BY <1>4, <1>5 DEF Max
<1>7. Max(taken) \in 0..Len(text) /\ Takes(text, Max(taken))
      /\ \A k \in 0..Len(text) : Takes(text, k) => Max(taken) >= k
  BY <1>6
<1>8. \A k \in 0..Len(text) : Takes(text, k) => k <= Max(taken)
  BY <1>1, <1>7
<1> QED
  BY <1>7, <1>8

\* What the head of a text shows fits; it is the whole text but an empty last
\* line, or else less than the text.
LEMMA HeadFits ==
  ASSUME NEW text \in Seq(Nat), text # <<>>
  PROVE  LET n == truncateHead(text)
         IN  /\ n \in 0..Len(text) /\ n <= MaxLines
             /\ n # 0 => Bytes(SubSeq(text, 1, n)) <= MaxBytes
             /\ Fits(text) => n = Len(text) \/ (n = Len(text) - 1 /\ text[Len(text)] = 0)
             /\ ~Fits(text) => n < Len(text)
<1>1. PICK counted : counted = splitCountLines(text)
  OBVIOUS
<1>2. /\ counted \in Seq(Nat) /\ Len(counted) \in Nat /\ Len(text) \in Nat
      /\ Len(text) >= 1 /\ \A i \in 1..Len(counted) : counted[i] = text[i]
      /\ counted = text \/ (Len(counted) = Len(text) - 1 /\ text[Len(text)] = 0)
  BY <1>1, LinesCounted
<1>3. PICK s : Totals(text, s) /\ Bytes(text) = s[Len(text)] + Len(text) - 1
  BY BytesTold
<1>4. MaxLines \in Nat /\ MaxLines > 0 /\ MaxBytes \in Nat
  BY PagesAssumption
<1>5. ASSUME NEW n \in Nat, n <= Len(text)
      PROVE  /\ Bytes(SubSeq(text, 1, n)) = s[n] + n - 1 /\ s[n] \in Nat
  <2>1. s[0] = 0 /\ 0 + n <= Len(text)
    BY <1>2, <1>3, <1>5 DEF Totals
  <2>2. Bytes(SubSeq(text, 0 + 1, 0 + n)) = s[0 + n] - s[0] + n - 1 /\ s[0 + n] \in Nat
    <3>1. PICK z \in Nat : z = 0
      OBVIOUS
    <3>2. PartTotals(text, s, z, n)
      BY <1>3, <2>1, <3>1, PartBytes
    <3> QED
      BY ONLY <3>1, <3>2 DEF PartTotals
  <2>3. 0 + n = n /\ 0 + 1 = 1
    OBVIOUS
  <2> QED
    BY <2>1, <2>2, <2>3
<1>6. CASE Fits(text)
  <2>1. truncateHead(text) = Len(counted) /\ Len(counted) <= MaxLines /\ Bytes(text) <= MaxBytes
    BY <1>1, <1>6 DEF truncateHead, Fits
  <2>2. Bytes(SubSeq(text, 1, Len(counted))) <= MaxBytes
    <3>1. CASE Len(counted) = Len(text)
      BY <1>2, <1>3, <1>5, <2>1, <3>1
    <3>2. CASE Len(counted) = Len(text) - 1
      <4>1. Len(text) \in 1..Len(text) /\ text[Len(text)] \in Nat
        BY <1>2
      <4>2. s[Len(text)] = s[Len(text) - 1] + text[Len(text)]
        BY <1>3, <4>1 DEF Totals
      <4>3. Bytes(SubSeq(text, 1, Len(counted))) = s[Len(counted)] + Len(counted) - 1
            /\ s[Len(counted)] \in Nat
        BY <1>2, <1>5, <3>2
      <4> QED
        BY <1>2, <1>3, <1>4, <2>1, <3>2, <4>1, <4>2, <4>3
    <3> QED
      BY <1>2, <3>1, <3>2
  <2>3. Len(counted) \in 0..Len(text)
        /\ (Len(counted) = Len(text) \/ (Len(counted) = Len(text) - 1 /\ text[Len(text)] = 0))
    BY <1>2
  <2> QED
    BY <1>6, <2>1, <2>2, <2>3
<1>7. CASE ~Fits(text)
  <2>1. PICK n : n = truncateHead(text)
    OBVIOUS
  <2>2. n \in 0..Len(counted) /\ Takes(counted, n)
    <3>1. n = Max({k \in 0..Len(counted) : Takes(counted, k)})
      BY <1>1, <1>7, <2>1 DEF truncateHead
    <3> QED
      BY <1>2, <3>1, MostTaken
  <2>3. n \in Nat /\ n <= Len(text) /\ n <= MaxLines
    BY <1>2, <2>2 DEF Takes
  <2>4. ASSUME n # 0 PROVE Bytes(SubSeq(text, 1, n)) <= MaxBytes
    <3>1. n \in 1..n /\ n <= Len(counted)
      BY <2>2, <2>3, <2>4
    <3>2. Bytes(SubSeq(counted, 1, n)) <= MaxBytes
      BY <2>2, <3>1 DEF Takes
    <3>3. SubSeq(counted, 1, n) = SubSeq(text, 1, n)
      <4>1. /\ SubSeq(counted, 1, n) \in Seq(Nat) /\ Len(SubSeq(counted, 1, n)) = n
            /\ \A i \in 1..n : SubSeq(counted, 1, n)[i] = counted[i]
        BY <1>2, <2>3, <3>1, FirstLines
      <4>2. /\ SubSeq(text, 1, n) \in Seq(Nat) /\ Len(SubSeq(text, 1, n)) = n
            /\ \A i \in 1..n : SubSeq(text, 1, n)[i] = text[i]
        BY <2>3, FirstLines
      <4>3. \A i \in 1..n : counted[i] = text[i]
        BY <1>2, <3>1
      <4> QED
        BY <4>1, <4>2, <4>3
    <3> QED
      BY <3>2, <3>3
  <2>5. n < Len(text)
    <3> SUFFICES ASSUME n = Len(text) PROVE FALSE
      BY <1>2, <2>3
    <3>1. counted = text
      BY <1>2, <2>2
    <3>2. Bytes(text) <= MaxBytes
      BY <1>2, <1>3, <1>5, <2>4
    <3> QED
      BY <1>1, <1>7, <2>3, <3>1, <3>2 DEF Fits
  <2>6. n \in 0..Len(text)
    BY <2>3
  <2> QED
    BY <1>7, <2>1, <2>3, <2>4, <2>5, <2>6
<1> QED
  BY <1>6, <1>7

\* The end of a text has the bytes of the beginning of its reverse.
LEMMA EndBytes ==
  ASSUME NEW text \in Seq(Nat), NEW n \in 0..Len(text)
  PROVE  /\ Bytes(SubSeq(text, Len(text) - n + 1, Len(text))) = Bytes(SubSeq(Reverse(text), 1, n))
         /\ Len(SubSeq(text, Len(text) - n + 1, Len(text))) = n
<1>1. PICK back : back = Reverse(text)
  OBVIOUS
<1>2. PICK top : top = Len(text)
  OBVIOUS
<1>3. top \in Nat /\ n \in Nat /\ n <= top /\ top - n \in Nat /\ \A i \in 1..top : text[i] \in Nat
  BY <1>2
<1>4. back \in Seq(Nat) /\ Len(back) = top /\ \A i \in 1..top : back[i] = text[top - i + 1]
  <2>1. back = [i \in 1..top |-> text[top - i + 1]]
    BY <1>1, <1>2 DEF Reverse
  <2>2. \A i \in 1..top : text[top - i + 1] \in Nat
    BY <1>3
  <2> QED
    BY <1>3, <2>1, <2>2
<1>5. PICK s : Totals(text, s)
  BY BytesTold
<1>6. PICK v : Totals(back, v)
  BY <1>4, BytesTold
<1>7. /\ s \in [0..top -> Nat] /\ s[0] = 0 /\ \A i \in 1..top : s[i] = s[i - 1] + text[i]
      /\ v \in [0..top -> Nat] /\ v[0] = 0 /\ \A i \in 1..top : v[i] = v[i - 1] + back[i]
  BY <1>2, <1>4, <1>5, <1>6 DEF Totals
<1> DEFINE Gaps == {i \in 0..top : v[i] # s[top] - s[top - i]}
<1>8. Gaps = {}
  <2>1. SUFFICES ASSUME Gaps # {} PROVE FALSE
    OBVIOUS
  <2>2. PICK i \in Gaps : \A j \in Gaps : i <= j
    <3>1. Gaps \in SUBSET Nat
      BY <1>3
    <3> HIDE DEF Gaps
    <3> QED
      BY <2>1, <3>1, LeastNat
  <2>3. PICK k \in 0..top : k = i /\ v[k] # s[top] - s[top - k]
    BY <2>2
  <2>4. k # 0
    <3>1. s[top] \in Nat /\ top - 0 = top
      BY <1>3, <1>7
    <3> QED
      BY <1>7, <2>3, <3>1
  <2>5. k \in 1..top /\ k - 1 \in 0..top /\ ~(k <= k - 1) /\ top - k \in 0..top
        /\ top - k + 1 \in 1..top /\ (top - k + 1) - 1 = top - k /\ top - (k - 1) = top - k + 1
    BY <1>3, <2>3, <2>4
  <2>6. v[k - 1] = s[top] - s[top - (k - 1)]
    BY <2>2, <2>3, <2>5
  <2>7. v[k] = v[k - 1] + text[top - k + 1]
    BY <1>4, <1>7, <2>5
  <2>8. s[top - k + 1] = s[top - k] + text[top - k + 1]
    BY <1>7, <2>5
  <2>9. PICK t \in Nat : t = text[top - k + 1]
    BY <1>3, <2>5
  <2>10. PICK a \in Nat, b \in Nat : a = s[top] /\ b = s[top - k]
    BY <1>3, <1>7, <2>5
  <2>11. s[top - (k - 1)] = b + t /\ v[k] = v[k - 1] + t
    BY <2>5, <2>7, <2>8, <2>9, <2>10
  <2>12. v[k - 1] = a - (b + t)
    BY <2>6, <2>10, <2>11
  <2>13. a - (b + t) + t = a - b
    BY ONLY a \in Nat, b \in Nat, t \in Nat
  <2>14. v[k] = s[top] - s[top - k]
    BY <2>10, <2>11, <2>12, <2>13
  <2> QED
    BY <2>3, <2>14
<1>9. v[n] = s[top] - s[top - n]
  <2>1. n \in 0..top
    BY <1>3
  <2> QED
    BY ONLY <1>8, <2>1
<1>10. (top - n) + n = top /\ 0 + n = n /\ 0 + 1 = 1 /\ 0 + n <= top
  BY <1>3
<1>11. /\ Bytes(SubSeq(text, (top - n) + 1, (top - n) + n)) = s[(top - n) + n] - s[top - n] + n - 1
       /\ Len(SubSeq(text, (top - n) + 1, (top - n) + n)) = n
  <2>1. PICK from \in Nat : from = top - n
    BY <1>3
  <2>2. from + n <= Len(text) /\ n \in Nat
    BY <1>2, <1>3, <1>10, <2>1
  <2>3. PartTotals(text, s, from, n)
    BY <1>5, <2>2, PartBytes
  <2> QED
    BY ONLY <2>1, <2>3 DEF PartTotals
<1>12. Bytes(SubSeq(back, 0 + 1, 0 + n)) = v[0 + n] - v[0] + n - 1 /\ v[0 + n] \in Nat
  <2>1. PICK z \in Nat : z = 0
    OBVIOUS
  <2>2. n \in Nat /\ z + n <= Len(back) /\ back \in Seq(Nat)
    BY <1>3, <1>4, <1>10, <2>1
  <2>3. PartTotals(back, v, z, n)
    BY <1>6, <2>2, PartBytes
  <2> QED
    BY ONLY <2>1, <2>3 DEF PartTotals
<1> QED
  BY <1>1, <1>2, <1>7, <1>9, <1>10, <1>11, <1>12

LEMMA TailWhole ==
  ASSUME lines \in Seq(Nat), lines # <<>>, tail = truncateTail(lines)
  PROVE  TailFits
<1>1. PICK counted : counted = splitCountLines(lines)
  OBVIOUS
<1>2. /\ counted \in Seq(Nat) /\ Len(counted) \in Nat /\ Len(lines) \in Nat /\ Len(lines) >= 1
      /\ \A i \in 1..Len(counted) : counted[i] = lines[i]
      /\ counted = lines \/ (Len(counted) = Len(lines) - 1 /\ lines[Len(lines)] = 0)
  BY <1>1, LinesCounted
<1> DEFINE Ending(n) == SubSeq(counted, Len(counted) - n + 1, Len(counted))
<1>3. MaxLines \in Nat /\ MaxLines > 0 /\ MaxBytes \in Nat
  BY PagesAssumption
<1>4. SUFFICES IF tail.partial THEN Last(counted) > MaxBytes
               ELSE /\ Ending(tail.lines) # <<>> => Bytes(Ending(tail.lines)) <= MaxBytes
                    /\ tail.lines < Len(counted) =>
                         tail.lines = MaxLines \/ Bytes(Ending(tail.lines + 1)) > MaxBytes
  BY <1>1 DEF TailFits
<1>5. CASE Fits(lines)
  <2>1. tail = [lines |-> Len(counted), partial |-> FALSE]
    BY <1>1, <1>5 DEF truncateTail
  <2>2. Ending(Len(counted)) = counted
    <3>1. Len(counted) - Len(counted) + 1 = 1
      BY <1>2
    <3> QED
      BY <1>2, <3>1, SubSeqFull
  <2>3. counted # <<>> => Bytes(counted) <= MaxBytes
    <3> SUFFICES ASSUME counted # <<>> PROVE Bytes(counted) <= MaxBytes
      OBVIOUS
    <3>1. truncateHead(lines) = Len(counted)
      BY <1>1, <1>5 DEF truncateHead
    <3>2. Len(counted) # 0
      BY <1>2
    <3>3. Bytes(SubSeq(lines, 1, Len(counted))) <= MaxBytes
      BY <3>1, <3>2, HeadFits
    <3>4. SubSeq(lines, 1, Len(counted)) = counted
      <4>1. Len(counted) <= Len(lines)
        BY <1>2
      <4>2. /\ SubSeq(lines, 1, Len(counted)) \in Seq(Nat)
            /\ Len(SubSeq(lines, 1, Len(counted))) = Len(counted)
            /\ \A i \in 1..Len(counted) : SubSeq(lines, 1, Len(counted))[i] = lines[i]
        BY <1>2, <4>1, FirstLines
      <4> QED
        BY <1>2, <4>2
    <3> QED
      BY <3>3, <3>4
  <2>4. ~(Len(counted) < Len(counted))
    BY <1>2
  <2>5. tail.lines = Len(counted) /\ tail.partial = FALSE
    BY <2>1
  <2> HIDE DEF Ending
  <2> QED
    BY <2>2, <2>3, <2>4, <2>5
<1>6. CASE ~Fits(lines)
  <2>1. PICK back : back = Reverse(counted)
    OBVIOUS
  <2>2. Len(counted) > 0
    <3> SUFFICES ASSUME Len(counted) = 0 PROVE FALSE
      BY <1>2
    <3>1. Len(lines) = 1 /\ lines[1] = 0
      BY <1>2
    <3>2. PICK s : Totals(lines, s) /\ Bytes(lines) = s[Len(lines)] + Len(lines) - 1
      BY BytesTold
    <3>3. s[1] = s[1 - 1] + lines[1] /\ s[0] = 0 /\ 1 - 1 = 0
      BY <3>1, <3>2 DEF Totals
    <3>4. Bytes(lines) = 0
      BY <3>1, <3>2, <3>3
    <3> QED
      BY <1>1, <1>3, <1>6, <3>4 DEF Fits
  <2>3. back \in Seq(Nat) /\ Len(back) = Len(counted) /\ back[1] = Last(counted)
    <3>1. back = [i \in 1..Len(counted) |-> counted[(Len(counted) - i) + 1]]
      BY <2>1 DEF Reverse
    <3>2. \A i \in 1..Len(counted) : counted[(Len(counted) - i) + 1] \in Nat
      BY <1>2
    <3>3. back \in Seq(Nat) /\ Len(back) = Len(counted)
      BY <1>2, <3>1, <3>2
    <3>4. 1 \in 1..Len(counted) /\ (Len(counted) - 1) + 1 = Len(counted)
      BY <1>2, <2>2
    <3> QED
      BY <3>1, <3>3, <3>4 DEF Last
  <2>4. CASE back[1] > MaxBytes
    <3>1. tail = [lines |-> 1, partial |-> TRUE]
      BY <1>1, <1>6, <2>1, <2>4 DEF truncateTail
    <3> QED
      BY <2>3, <2>4, <3>1
  <2>5. CASE ~(back[1] > MaxBytes)
    <3>1. PICK most : most = Max({k \in 0..Len(back) : Takes(back, k)})
      OBVIOUS
    <3>2. tail = [lines |-> most, partial |-> FALSE]
      BY <1>1, <1>6, <2>1, <2>5, <3>1 DEF truncateTail
    <3>3. /\ most \in 0..Len(counted) /\ Takes(back, most)
          /\ \A k \in 0..Len(counted) : Takes(back, k) => k <= most
      BY <2>3, <3>1, MostTaken
    <3>4. \A n \in 0..Len(counted) : /\ Bytes(Ending(n)) = Bytes(SubSeq(back, 1, n))
                                     /\ Len(Ending(n)) = n
      BY <1>2, <2>1, EndBytes
    <3> HIDE DEF Ending
    <3>5. ASSUME Ending(most) # <<>> PROVE Bytes(Ending(most)) <= MaxBytes
      <4>1. CASE most = 0
        <5>1. Len(counted) - 0 + 1 \in Int /\ Len(counted) \in Int
              /\ Len(counted) < Len(counted) - 0 + 1
          BY <1>2
        <5>2. SubSeq(counted, Len(counted) - 0 + 1, Len(counted)) = <<>>
          BY <5>1, SubSeqEmpty
        <5>3. Ending(0) = <<>>
          BY <5>2 DEF Ending
        <5> QED
          BY <3>5, <4>1, <5>3
      <4>2. CASE most # 0
        <5>1. most \in 1..most
          BY <1>2, <3>3, <4>2
        <5> QED
          BY <3>3, <3>4, <5>1 DEF Takes
      <4> QED
        BY <4>1, <4>2
    <3>6. ASSUME most < Len(counted), most # MaxLines PROVE Bytes(Ending(most + 1)) > MaxBytes
      <4>1. most + 1 \in 0..Len(counted) /\ ~(most + 1 <= most) /\ most \in Nat
        BY <1>2, <3>3, <3>6
      <4>2. ~Takes(back, most + 1) /\ most <= MaxLines
        BY <3>3, <4>1 DEF Takes
      <4>3. most + 1 <= MaxLines
        BY <1>3, <3>6, <4>1, <4>2
      <4>4. PICK j \in 1..(most + 1) : ~(Bytes(SubSeq(back, 1, j)) <= MaxBytes)
        BY <4>2, <4>3 DEF Takes
      <4>5. j = most + 1
        <5>1. j \notin 1..most
          BY <3>3, <4>4 DEF Takes
        <5> QED
          BY <4>1, <5>1
      <4>6. ~(Bytes(Ending(most + 1)) <= MaxBytes)
        BY <3>4, <4>1, <4>4, <4>5
      <4>7. Bytes(Ending(most + 1)) \in Int
        <5>1. SubSeq(back, 1, most + 1) \in Seq(Nat)
          BY <2>3, <4>1, FirstLines
        <5>2. PICK s : /\ Totals(SubSeq(back, 1, most + 1), s)
                       /\ Bytes(SubSeq(back, 1, most + 1))
                            = s[Len(SubSeq(back, 1, most + 1))] + Len(SubSeq(back, 1, most + 1)) - 1
          BY <5>1, BytesTold
        <5>3. Len(SubSeq(back, 1, most + 1)) = most + 1
          BY <2>3, <4>1, FirstLines
        <5>4. s[most + 1] \in Nat
          BY <4>1, <5>2, <5>3 DEF Totals
        <5> QED
          BY <3>4, <4>1, <5>2, <5>3, <5>4
      <4> QED
        BY <1>3, <4>6, <4>7
    <3> QED
      BY <3>2, <3>5, <3>6 DEF Ending
  <2> QED
    BY <2>4, <2>5
<1> QED
  BY <1>5, <1>6

-----------------------------------------------------------------------------
(* Pages: what has been shown.                                             *)

PagesInv ==
  /\ lines \in Seq(Nat) /\ lines # <<>> /\ offset \in 1..Len(lines)
  /\ shown \in Seq(Seq(Nat)) /\ PagesCoverFile

LEMMA Gathered ==
  ASSUME NEW f
  PROVE  \A m : m \in UNION {ToSet(f[i]) : i \in DOMAIN f}
                 <=> \E i \in DOMAIN f : \E k \in DOMAIN f[i] : m = f[i][k]
BY DEF ToSet

LEMMA PagesStart == PagesInit => PagesInv
<1> SUFFICES ASSUME PagesInit PROVE PagesInv
  OBVIOUS
<1>1. lines \in Seq(Nat) /\ lines # <<>> /\ offset = 1 /\ offset \in 1..Len(lines)
  BY PagesAssumption DEF PagesInit
<1>2. shown \in Seq(Seq(Nat)) /\ DOMAIN shown = {} /\ status = "reading"
  BY DEF PagesInit
<1>3. TailFits
  BY <1>1, TailWhole DEF PagesInit
<1>4. UNION {ToSet(shown[i]) : i \in DOMAIN shown} = {}
  BY <1>2
<1>5. \A n \in 1..Len(lines) : ~(n < offset \/ status = "done")
  BY <1>1, <1>2
<1> QED
  BY <1>1, <1>2, <1>3, <1>4, <1>5 DEF PagesInv, PagesCoverFile

\* The lines that a call selects, and how many of them its page has.
LEMMA Selected ==
  ASSUME PagesInv, NEW end \in PageEnds, end >= offset
  PROVE  LET selected == SubSeq(lines, offset, end)
             n        == truncateHead(selected)
         IN  /\ end \in offset..Len(lines) /\ n \in Nat /\ offset + n <= end + 1 /\ n <= MaxLines
             /\ selected[1] = lines[offset]
             /\ n # 0 => Bytes([k \in 1..n |-> lines[offset + k - 1]]) <= MaxBytes
             /\ Fits(selected) => offset + n = end + 1 \/ (offset + n = end /\ lines[end] = 0)
             /\ ~Fits(selected) => offset + n <= end
<1>1. PICK o : o = offset
  OBVIOUS
<1>3. lines \in Seq(Nat) /\ Len(lines) \in Nat /\ o \in 1..Len(lines)
  BY <1>1 DEF PagesInv
<1>4. end \in o..Len(lines)
  BY <1>1, <1>3, PagesAssumption DEF PageEnds
<1>5. PICK selected : selected = SubSeq(lines, o, end)
  OBVIOUS
<1>6. /\ selected \in Seq(Nat) /\ Len(selected) = end - o + 1 /\ Len(selected) >= 1
      /\ \A i \in 1..(end - o + 1) : selected[i] = lines[o + i - 1]
  <2>1. PICK s : Totals(lines, s)
    BY <1>3, BytesTold
  <2>2. /\ o - 1 \in Nat /\ end - o + 1 \in Nat /\ (o - 1) + 1 = o
        /\ (o - 1) + (end - o + 1) = end /\ end <= Len(lines) /\ end - o + 1 >= 1
        /\ \A i \in 1..(end - o + 1) : (o - 1) + i = o + i - 1
    BY <1>3, <1>4
  <2>3. (o - 1) + (end - o + 1) <= Len(lines)
    BY <2>2
  <2>4. /\ SubSeq(lines, (o - 1) + 1, (o - 1) + (end - o + 1)) \in Seq(Nat)
        /\ Len(SubSeq(lines, (o - 1) + 1, (o - 1) + (end - o + 1))) = end - o + 1
        /\ \A i \in 1..(end - o + 1) :
             SubSeq(lines, (o - 1) + 1, (o - 1) + (end - o + 1))[i] = lines[(o - 1) + i]
    BY ONLY <1>3, <2>1, <2>2, <2>3, PartBytes
  <2> QED
    BY <1>5, <2>2, <2>4
<1>7. PICK n : n = truncateHead(selected)
  OBVIOUS
<1>8. /\ n \in 0..Len(selected) /\ n <= MaxLines
      /\ n # 0 => Bytes(SubSeq(selected, 1, n)) <= MaxBytes
      /\ Fits(selected) =>
           n = Len(selected) \/ (n = Len(selected) - 1 /\ selected[Len(selected)] = 0)
      /\ ~Fits(selected) => n < Len(selected)
  BY <1>6, <1>7, HeadFits
<1>9. /\ n \in Nat /\ o + n <= end + 1
      /\ ~Fits(selected) => o + n <= end
      /\ Fits(selected) => o + n = end + 1 \/ (o + n = end /\ lines[end] = 0)
  <2>1. selected[Len(selected)] = lines[end] /\ Len(selected) = end - o + 1
    <3>1. Len(selected) \in 1..(end - o + 1) /\ o + Len(selected) - 1 = end
      BY <1>3, <1>4, <1>6
    <3> QED
      BY <1>6, <3>1
  <2>2. n \in 0..(end - o + 1) /\ end \in Nat /\ o \in Nat
    BY <1>3, <1>4, <1>8, <2>1
  <2> QED
    BY <1>8, <2>1, <2>2
<1>10. ASSUME n # 0 PROVE Bytes([k \in 1..n |-> lines[o + k - 1]]) <= MaxBytes
  <2>1. n <= Len(selected) /\ n \in Nat
    BY <1>6, <1>8
  <2>2. /\ SubSeq(selected, 1, n) \in Seq(Nat) /\ Len(SubSeq(selected, 1, n)) = n
        /\ \A i \in 1..n : SubSeq(selected, 1, n)[i] = selected[i]
    BY <1>6, <2>1, FirstLines
  <2>3. \A i \in 1..n : selected[i] = lines[o + i - 1]
    BY <1>6, <2>1
  <2>4. SubSeq(selected, 1, n) = [k \in 1..n |-> lines[o + k - 1]]
    BY <2>1, <2>2, <2>3
  <2> QED
    BY <1>8, <1>10, <2>4
<1>11. selected[1] = lines[o]
  <2>1. 1 \in 1..(end - o + 1) /\ o + 1 - 1 = o
    BY <1>3, <1>4
  <2> QED
    BY <1>6, <2>1
<1> QED
  BY <1>1, <1>4, <1>5, <1>7, <1>8, <1>9, <1>10, <1>11

\* A limit that is not positive selects nothing, and the page is empty.
LEMMA NothingSelected ==
  ASSUME PagesInv, NEW end \in PageEnds, ~(end >= offset)
  PROVE  LET selected == SubSeq(lines, offset, end)
         IN  /\ end = offset - 1 /\ end < Len(lines)
             /\ Fits(selected) /\ truncateHead(selected) = 0 /\ ~FirstLineExceeds(selected)
<1>1. lines \in Seq(Nat) /\ Len(lines) \in Nat /\ offset \in 1..Len(lines)
  BY DEF PagesInv
<1>2. end = offset - 1 /\ end < Len(lines)
  <2>1. end = Len(lines)
        \/ \E limit \in Nat : end = IF offset - 1 + limit > Len(lines) THEN Len(lines)
                                    ELSE offset - 1 + limit
    BY PagesAssumption DEF PageEnds
  <2>2. ~(end >= offset) /\ offset - 1 < Len(lines) /\ offset - 1 \in Nat
    BY <1>1
  <2>3. \E limit \in Nat : end = offset - 1 + limit
    BY <1>1, <2>1, <2>2
  <2> QED
    BY <1>1, <2>2, <2>3
<1>3. PICK selected : selected = SubSeq(lines, offset, end)
  OBVIOUS
<1>4. selected = <<>>
  BY <1>1, <1>2, <1>3
<1>5. Fits(<<>>) /\ truncateHead(<<>>) = 0
  <2>1. splitCountLines(<<>>) = <<>>
    BY DEF splitCountLines
  <2>2. <<>> \in Seq(Nat) /\ Len(<<>>) = 0
    OBVIOUS
  <2>3. PICK s : Totals(<<>>, s) /\ Bytes(<<>>) = s[0] + 0 - 1
    BY <2>2, BytesTold
  <2>4. s[0] = 0
    BY <2>2, <2>3 DEF Totals
  <2>5. Bytes(<<>>) <= MaxBytes /\ 0 <= MaxLines
    BY <2>3, <2>4, PagesAssumption
  <2> QED
    BY <2>1, <2>2, <2>5 DEF Fits, truncateHead
<1> QED
  BY <1>2, <1>3, <1>4, <1>5 DEF FirstLineExceeds

\* A page without lines, after which the lines before edge are shown or empty.
LEMMA PageEmpty ==
  ASSUME PagesInv, status = "reading", NEW edge \in Nat, edge <= Len(lines) + 1,
         offset = edge \/ (offset = edge - 1 /\ lines[edge - 1] = 0),
         \/ offset' = edge /\ edge <= Len(lines) /\ status' = status
         \/ offset' = offset /\ edge = Len(lines) + 1 /\ status' = "done",
         UNCHANGED <<lines, shown, tail>>
  PROVE  PagesInv'
<1>1. lines \in Seq(Nat) /\ Len(lines) \in Nat /\ offset \in 1..Len(lines)
  BY DEF PagesInv
<1>2. offset' \in 1..Len(lines) /\ offset' >= offset /\ status' # "stopped"
  BY <1>1
<1>3. ASSUME NEW m \in 1..Len(lines), m < offset' \/ status' = "done"
      PROVE  m < offset \/ lines[m] = 0
  BY <1>1, <1>3
<1>4. \A m \in 1..Len(lines) : m < offset => m < offset'
  BY <1>1, <1>2
<1> QED
  BY <1>2, <1>3, <1>4 DEF PagesInv, PagesCoverFile, TailFits

\* A page of the n lines at the offset, after which the lines before edge are
\* shown, but for an empty one that ends the selection.
LEMMA PageAdded ==
  ASSUME PagesInv, status = "reading", NEW n \in Nat, NEW edge \in Nat, n <= MaxLines,
         edge <= Len(lines) + 1,
         offset + n = edge \/ (offset + n = edge - 1 /\ lines[edge - 1] = 0),
         n # 0 => Bytes([k \in 1..n |-> lines[offset + k - 1]]) <= MaxBytes,
         shown' = Append(shown, [i \in 1..n |-> offset + i - 1]),
         \/ offset' = edge /\ edge <= Len(lines) /\ status' = status
         \/ offset' = offset /\ edge = Len(lines) + 1 /\ status' = "done",
         UNCHANGED <<lines, tail>>
  PROVE  PagesInv'
<1>1. PICK o : o = offset
  OBVIOUS
<1>2. PICK new : new = [i \in 1..n |-> o + i - 1]
  OBVIOUS
<1>3. PICK last : last = Len(shown) + 1
  OBVIOUS
<1>4. lines \in Seq(Nat) /\ lines # <<>> /\ Len(lines) \in Nat /\ o \in 1..Len(lines)
      /\ shown \in Seq(Seq(Nat)) /\ Len(shown) \in Nat /\ DOMAIN shown = 1..Len(shown)
  <2>1. lines \in Seq(Nat) /\ lines # <<>> /\ o \in 1..Len(lines) /\ shown \in Seq(Seq(Nat))
    BY <1>1 DEF PagesInv
  <2> QED
    BY ONLY <2>1
<1>5. new \in Seq(Nat) /\ Len(new) = n /\ DOMAIN new = 1..n /\ \A k \in 1..n : new[k] = o + k - 1
  <2>1. \A k \in 1..n : o + k - 1 \in Nat
    BY <1>4
  <2> QED
    BY <1>2, <2>1
<1>6. /\ shown' \in Seq(Seq(Nat)) /\ DOMAIN shown' = 1..last /\ shown'[last] = new
      /\ \A i \in 1..(last - 1) : i \in DOMAIN shown /\ shown'[i] = shown[i]
      /\ last \in Nat /\ last > 0
  <2>1. shown' = Append(shown, new) /\ new \in Seq(Nat) /\ shown \in Seq(Seq(Nat))
    BY <1>1, <1>2, <1>4, <1>5
  <2>2. /\ shown' \in Seq(Seq(Nat)) /\ Len(shown') = Len(shown) + 1
        /\ \A i \in 1..Len(shown) : shown'[i] = shown[i]
        /\ shown'[Len(shown) + 1] = new
    BY ONLY <2>1, AppendProperties
  <2>3. last \in Nat /\ last > 0 /\ last - 1 = Len(shown) /\ Len(shown') = last
    <3>1. Len(shown) \in Nat /\ Len(shown') = Len(shown) + 1
      BY <1>4, <2>2
    <3> QED
      BY ONLY <1>3, <3>1
  <2>4. DOMAIN shown' = 1..Len(shown')
    BY <2>2
  <2> QED
    BY <1>3, <1>4, <2>2, <2>3, <2>4
<1> DEFINE all == UNION {ToSet(shown[i]) : i \in DOMAIN shown}
           all2 == UNION {ToSet(shown'[i]) : i \in DOMAIN shown'}
<1>7. \A i \in DOMAIN shown : \A k \in DOMAIN shown[i] : shown[i][k] \in all
  BY DEF ToSet
<1>8. \A m \in all : m \in 1..Len(lines) /\ m < o
  <2>1. \A m \in all : m \in 1..Len(lines) /\ (m < offset \/ status = "done")
    BY DEF PagesInv, PagesCoverFile
  <2> QED
    BY <1>1, <2>1
<1>9. \A m : m \in all2 <=> (m \in all \/ \E k \in 1..n : m = o + k - 1)
  <2>1. \A m : m \in all <=> \E i \in DOMAIN shown : \E k \in DOMAIN shown[i] : m = shown[i][k]
    BY ONLY Gathered
  <2>2. \A m : m \in all2 <=> \E i \in DOMAIN shown' : \E k \in DOMAIN shown'[i] : m = shown'[i][k]
    BY ONLY Gathered
  <2> HIDE DEF all, all2
  <2>3. DOMAIN shown = 1..(last - 1) /\ DOMAIN shown' = DOMAIN shown \cup {last}
    BY <1>3, <1>4, <1>6
  <2>4. \A i \in DOMAIN shown : shown'[i] = shown[i]
    BY <1>6, <2>3
  <2>5. \A m : (\E k \in DOMAIN shown'[last] : m = shown'[last][k])
               <=> \E k \in 1..n : m = o + k - 1
    <3>1. shown'[last] = new /\ DOMAIN new = 1..n /\ \A k \in 1..n : new[k] = o + k - 1
      BY <1>5, <1>6
    <3> QED
      BY ONLY <3>1, Zenon
  <2>6. \A m : m \in all2
               <=> \/ \E i \in DOMAIN shown : \E k \in DOMAIN shown'[i] : m = shown'[i][k]
                   \/ \E k \in DOMAIN shown'[last] : m = shown'[last][k]
    BY ONLY <2>2, <2>3, Zenon
  <2>7. \A m : (\E i \in DOMAIN shown : \E k \in DOMAIN shown'[i] : m = shown'[i][k])
               <=> \E i \in DOMAIN shown : \E k \in DOMAIN shown[i] : m = shown[i][k]
    BY ONLY <2>4, Zenon
  <2> QED
    BY ONLY <2>1, <2>5, <2>6, <2>7, Zenon
<1> HIDE DEF all, all2
<1>10. ASSUME NEW i \in DOMAIN shown', NEW j \in DOMAIN shown',
              NEW k \in DOMAIN shown'[i], NEW l \in DOMAIN shown'[j], i < j \/ (i = j /\ k < l)
       PROVE  shown'[i][k] < shown'[j][l]
  <2>1. CASE j # last
    <3>1. i \in 1..(last - 1) /\ j \in 1..(last - 1)
      <4>1. i \in 1..last /\ j \in 1..last /\ last \in Nat
        BY <1>6
      <4>2. i < j \/ i = j
        BY <1>10
      <4> QED
        BY ONLY <2>1, <4>1, <4>2
    <3>2. i \in DOMAIN shown /\ j \in DOMAIN shown /\ shown'[i] = shown[i] /\ shown'[j] = shown[j]
      BY <1>6, <3>1
    <3> QED
      BY <1>10, <3>2 DEF PagesInv, PagesCoverFile
  <2>2. CASE j = last /\ i # last
    <3>1. i \in 1..(last - 1)
      BY <1>6, <2>2
    <3>2. shown'[i][k] \in 1..Len(lines) /\ shown'[i][k] < o
      BY <1>6, <1>7, <1>8, <3>1
    <3>3. shown'[j][l] = o + l - 1 /\ l \in 1..n
      BY <1>5, <1>6, <2>2
    <3>4. \A x \in 1..Len(lines), y \in 1..n : x < o => x < o + y - 1
      BY <1>4
    <3> QED
      BY <3>2, <3>3, <3>4
  <2>3. CASE j = last /\ i = last
    <3>1. shown'[i][k] = o + k - 1 /\ shown'[j][l] = o + l - 1 /\ k \in 1..n /\ l \in 1..n
      BY <1>5, <1>6, <2>3
    <3>2. k < l
      BY <1>6, <1>10, <2>3
    <3>3. \A x \in 1..n, y \in 1..n : x < y => o + x - 1 < o + y - 1
      BY <1>4
    <3> QED
      BY ONLY <3>1, <3>2, <3>3
  <2> QED
    BY <2>1, <2>2, <2>3
<1>11. ASSUME NEW m \in 1..Len(lines), m < offset' \/ status' = "done", m \notin all2
       PROVE  lines[m] = 0
  <2>1. CASE m < o
    <3>1. m \notin all /\ m < offset
      BY <1>1, <1>9, <1>11, <2>1
    <3> QED
      BY <3>1 DEF PagesInv, PagesCoverFile, all
  <2>2. CASE ~(m < o)
    <3>1. m < edge
      BY <1>4, <1>11, <2>2, <1>1
    <3>2. ~(m < o + n)
      <4>1. ASSUME m < o + n PROVE FALSE
        <5>1. m - o + 1 \in 1..n /\ m = o + (m - o + 1) - 1
          BY <1>4, <2>2, <4>1
        <5> QED
          BY <1>9, <1>11, <5>1
      <4> QED
        BY <4>1
    <3>3. m \in Nat /\ o \in Nat
      BY <1>4
    <3>4. o + n = edge \/ (o + n = edge - 1 /\ lines[edge - 1] = 0)
      BY <1>1
    <3>5. m = edge - 1 /\ o + n # edge
      BY ONLY <3>1, <3>2, <3>3, <3>4, n \in Nat, edge \in Nat
    <3> QED
      BY ONLY <3>4, <3>5
  <2> QED
    BY <2>1, <2>2
<1>12. ASSUME NEW m \in all2
       PROVE  m \in 1..Len(lines) /\ (m < offset' \/ status' = "done")
  <2>1. CASE m \in all
    BY <1>1, <1>4, <1>8, <2>1
  <2>2. CASE m \notin all
    <3>1. PICK k \in 1..n : m = o + k - 1
      BY <1>9, <1>12, <2>2
    <3>2. m < edge /\ m >= o /\ m \in Nat
      BY <1>1, <1>4, <3>1
    <3>3. Len(lines) \in Nat /\ edge <= Len(lines) + 1 /\ o >= 1 /\ o \in Nat
      BY <1>4
    <3>4. m \in 1..Len(lines)
      BY ONLY <3>2, <3>3, edge \in Nat
    <3> QED
      BY <3>2, <3>4
  <2> QED
    BY <2>1, <2>2
<1>13. ASSUME NEW i \in DOMAIN shown', [k \in DOMAIN shown'[i] |-> lines[shown'[i][k]]] # <<>>
       PROVE  /\ Len([k \in DOMAIN shown'[i] |-> lines[shown'[i][k]]]) <= MaxLines
              /\ Bytes([k \in DOMAIN shown'[i] |-> lines[shown'[i][k]]]) <= MaxBytes
  <2>1. CASE i = last
    <3>1. PICK page : page = [k \in DOMAIN shown'[i] |-> lines[shown'[i][k]]]
      OBVIOUS
    <3>2. page = [k \in 1..n |-> lines[o + k - 1]]
      BY <1>5, <1>6, <2>1, <3>1
    <3>3. Len(page) = n
      BY <3>2
    <3>4. n # 0
      BY <1>13, <3>1, <3>2
    <3> QED
      BY <1>1, <3>1, <3>2, <3>3, <3>4
  <2>2. CASE i # last
    <3>1. i \in DOMAIN shown /\ shown'[i] = shown[i]
      <4>1. \A j \in 1..last : j = last \/ j \in 1..(last - 1)
        BY <1>6
      <4> QED
        BY <1>6, <2>2, <4>1
    <3> QED
      BY <1>13, <3>1 DEF PagesInv, PagesCoverFile
  <2> QED
    BY <2>1, <2>2
<1>14. TailFits'
  BY DEF PagesInv, PagesCoverFile, TailFits
<1>15. offset' \in 1..Len(lines) /\ status' # "stopped"
  <2>1. edge >= 1
    BY <1>1, <1>4
  <2>2. edge <= Len(lines) => edge \in 1..Len(lines)
    BY <1>4, <2>1
  <2> QED
    BY <1>1, <1>4, <2>2
<1>16. PagesCoverFile'
  BY <1>10, <1>11, <1>12, <1>13, <1>14, <1>15 DEF PagesCoverFile, all2
<1> QED
  BY <1>4, <1>6, <1>15, <1>16 DEF PagesInv

LEMMA PagesStep == PagesInv /\ [PagesNext]_pageVars => PagesInv'
<1> SUFFICES ASSUME PagesInv, [PagesNext]_pageVars PROVE PagesInv'
  OBVIOUS
<1>1. ASSUME NEW end \in PageEnds, end >= offset, Page(end) PROVE PagesInv'
  <2>2. PICK selected : selected = SubSeq(lines, offset, end)
    OBVIOUS
  <2>3. PICK n : n = truncateHead(selected)
    OBVIOUS
  <2>4. /\ end \in offset..Len(lines) /\ n \in Nat /\ offset + n <= end + 1 /\ n <= MaxLines
        /\ n # 0 => Bytes([k \in 1..n |-> lines[offset + k - 1]]) <= MaxBytes
        /\ Fits(selected) => offset + n = end + 1 \/ (offset + n = end /\ lines[end] = 0)
        /\ ~Fits(selected) => offset + n <= end
    BY <1>1, <2>2, <2>3, Selected
  <2>5. /\ status = "reading"
        /\ shown' = IF n = 0 THEN shown ELSE Append(shown, [i \in 1..n |-> offset + i - 1])
        /\ UNCHANGED <<lines, tail>>
        /\ IF ~Fits(selected) \/ end < Len(lines)
           THEN /\ offset' = IF ~Fits(selected) THEN offset + n ELSE end + 1
                /\ UNCHANGED status
           ELSE status' = "done" /\ UNCHANGED offset
    BY <1>1, <2>2, <2>3 DEF Page
  <2>6. Len(lines) \in Nat /\ offset \in 1..Len(lines)
    BY DEF PagesInv
  <2>7. CASE ~Fits(selected)
    <3>1. offset + n \in Nat /\ offset + n <= Len(lines) /\ offset + n <= Len(lines) + 1
      BY <2>4, <2>6, <2>7
    <3>2. offset' = offset + n /\ status' = status
      BY <2>5, <2>7
    <3> QED
      <4>1. CASE n = 0
        <5>1. /\ offset' = offset + n /\ status' = status /\ offset = offset + n
              /\ UNCHANGED <<lines, shown, tail>>
          BY <2>5, <2>6, <3>2, <4>1
        <5> QED
          BY ONLY PagesInv, <2>5, <3>1, <5>1, PageEmpty
      <4>2. CASE n # 0
        <5>1. shown' = Append(shown, [i \in 1..n |-> offset + i - 1])
          BY <2>5, <4>2
        <5> QED
          BY ONLY PagesInv, <2>4, <2>5, <3>1, <3>2, <5>1, PageAdded
      <4> QED
        BY <4>1, <4>2
  <2>8. CASE Fits(selected)
    <3>1. end + 1 \in Nat /\ end + 1 <= Len(lines) + 1 /\ (end + 1) - 1 = end
      BY <2>4, <2>6
    <3>2. offset + n = end + 1 \/ (offset + n = (end + 1) - 1 /\ lines[(end + 1) - 1] = 0)
      BY <2>4, <2>8, <3>1
    <3>3. \/ offset' = end + 1 /\ end + 1 <= Len(lines) /\ status' = status
          \/ offset' = offset /\ end + 1 = Len(lines) + 1 /\ status' = "done"
      <4>1. CASE end < Len(lines)
        BY <2>4, <2>5, <2>6, <2>8, <4>1
      <4>2. CASE ~(end < Len(lines))
        <5>1. end = Len(lines)
          BY <2>4, <2>6, <4>2
        <5> QED
          BY <2>5, <2>8, <4>2, <5>1
      <4> QED
        BY <4>1, <4>2
    <3> QED
      <4>1. CASE n = 0
        <5>1. /\ offset = end + 1 \/ (offset = (end + 1) - 1 /\ lines[(end + 1) - 1] = 0)
              /\ UNCHANGED <<lines, shown, tail>>
          BY <2>5, <2>6, <3>2, <4>1
        <5> QED
          BY ONLY PagesInv, <2>5, <3>1, <3>3, <5>1, PageEmpty
      <4>2. CASE n # 0
        <5>1. shown' = Append(shown, [i \in 1..n |-> offset + i - 1])
          BY <2>5, <4>2
        <5> QED
          BY ONLY PagesInv, <2>4, <2>5, <3>1, <3>2, <3>3, <5>1, PageAdded
      <4> QED
        BY <4>1, <4>2
  <2> QED
    BY <2>7, <2>8
<1>2. ASSUME NEW end \in PageEnds, end >= offset, LineTooLong(end) PROVE PagesInv'
  <2>1. lines[offset] > MaxBytes
    <3>1. SubSeq(lines, offset, end)[1] = lines[offset]
      BY <1>2, Selected
    <3> QED
      BY <1>2, <3>1 DEF LineTooLong, FirstLineExceeds
  <2>2. status = "reading" /\ status' = "stopped" /\ UNCHANGED <<lines, offset, shown, tail>>
    BY <1>2 DEF LineTooLong
  <2> QED
    BY <2>1, <2>2 DEF PagesInv, PagesCoverFile, TailFits
<1>3. ASSUME UNCHANGED pageVars PROVE PagesInv'
  BY <1>3 DEF pageVars, PagesInv, PagesCoverFile, TailFits
<1>4. ASSUME NEW end \in PageEnds, ~(end >= offset), Page(end) \/ LineTooLong(end)
      PROVE  UNCHANGED pageVars
  <2>1. PICK selected : selected = SubSeq(lines, offset, end)
    OBVIOUS
  <2>2. /\ end = offset - 1 /\ end < Len(lines)
        /\ Fits(selected) /\ truncateHead(selected) = 0 /\ ~FirstLineExceeds(selected)
    BY <1>4, <2>1, NothingSelected
  <2>3. /\ shown' = shown /\ offset' = end + 1 /\ UNCHANGED <<status, lines, tail>>
    BY <1>4, <2>1, <2>2 DEF Page, LineTooLong
  <2>4. offset' = offset
    BY <2>2, <2>3 DEF PagesInv
  <2> QED
    BY <2>3, <2>4 DEF pageVars
<1> QED
  BY <1>1, <1>2, <1>3, <1>4 DEF PagesNext

\* Whatever the file, the limits of the tool and those of the calls: following
\* the hints of read (tools.go) shows every line that is not empty once and in
\* order, every page fits, and a cut output of bash is the longest end that does.
THEOREM HintsCoverFile == PagesSpec => []PagesCoverFile
<1>1. PagesSpec => []PagesInv
  BY PagesStart, PagesStep, PTL DEF PagesSpec
<1>2. PagesInv => PagesCoverFile
  BY DEF PagesInv
<1> QED
  BY <1>1, <1>2, PTL

-----------------------------------------------------------------------------
(* Edits: the normalised text.                                             *)

LEMMA KeptTold ==
  ASSUME NEW text \in Seq(Chars)
  PROVE  LET kept == KeptInOrder(text)
             n    == Cardinality(Kept(text))
         IN  /\ n \in Nat /\ kept \in [1..n -> Kept(text)] /\ DOMAIN kept = 1..n
             /\ \A i \in Kept(text) : \E k \in 1..n : kept[k] = i
             /\ \A k \in 1..n : \A j \in 1..(k - 1) : kept[j] < kept[k]
             /\ \A i \in Kept(text) : i \in Nat /\ i \in 1..Len(text)
<1>1. Kept(text) \in SUBSET Nat /\ Kept(text) \subseteq 1..Len(text) /\ Len(text) \in Nat
  BY DEF Kept
<1>2. IsFiniteSet(Kept(text))
  <2>1. IsFiniteSet(1..Len(text))
    BY <1>1, FS_Interval
  <2> QED
    BY <1>1, <2>1, FS_Subset
<1> DEFINE D == Kept(text)
           n == Cardinality(D)
           order == [k \in 1..n |-> CHOOSE i \in D : Cardinality({j \in D : j < i}) = k - 1]
<1>3. KeptInOrder(text) = order
  BY DEF KeptInOrder
<1>4. /\ n \in Nat /\ order \in [1..n -> D] /\ \A i \in D : \E k \in 1..n : order[k] = i
      /\ \A k \in 1..n : \A j \in 1..(k - 1) : order[j] < order[k]
  <2>1. D \in SUBSET Nat /\ IsFiniteSet(D)
    BY <1>1, <1>2
  <2> HIDE DEF D
  <2> QED
    BY <2>1, Sorted
<1> HIDE DEF order
<1> QED
  BY <1>1, <1>3, <1>4

\* The order of the places is that of the characters.
LEMMA KeptOrdered ==
  ASSUME NEW text \in Seq(Chars), NEW j \in 1..Cardinality(Kept(text)),
         NEW k \in 1..Cardinality(Kept(text)), KeptInOrder(text)[j] <= KeptInOrder(text)[k]
  PROVE  j <= k
<1>1. j \in Nat /\ k \in Nat
  BY KeptTold
<1>2. ASSUME k < j PROVE FALSE
  <2>1. k \in 1..(j - 1)
    BY <1>1, <1>2
  <2>2. KeptInOrder(text)[k] < KeptInOrder(text)[j]
    BY <2>1, KeptTold
  <2>3. KeptInOrder(text)[k] \in Nat /\ KeptInOrder(text)[j] \in Nat
    BY KeptTold
  <2> QED
    BY <2>2, <2>3
<1> QED
  BY <1>1, <1>2

\* What Fuzzy makes of a character.
Plain(c) == IF c = "curly" THEN "quote" ELSE c

LEMMA FuzzyTold ==
  ASSUME NEW text \in Seq(Chars)
  PROVE  /\ Fuzzy(text) \in Seq(Chars) /\ Len(Fuzzy(text)) = Cardinality(Kept(text))
         /\ \A k \in 1..Cardinality(Kept(text)) :
              Fuzzy(text)[k] = Plain(text[KeptInOrder(text)[k]])
<1>1. PICK kept : kept = KeptInOrder(text)
  OBVIOUS
<1>2. PICK n \in Nat : n = Cardinality(Kept(text))
  BY KeptTold
<1>3. /\ DOMAIN kept = 1..n /\ \A k \in 1..n : kept[k] \in 1..Len(text)
  BY <1>1, <1>2, KeptTold
<1>4. Fuzzy(text) = [k \in 1..n |-> Plain(text[kept[k]])]
  BY <1>1, <1>3 DEF Fuzzy, Replaced, Plain
<1>5. \A k \in 1..n : Plain(text[kept[k]]) \in Chars
  <2>1. \A i \in 1..Len(text) : text[i] \in Chars
    OBVIOUS
  <2>2. \A c \in Chars : Plain(c) \in Chars
    BY EditsAssumption DEF Plain
  <2> QED
    BY <1>3, <2>1, <2>2
<1>6. Fuzzy(text) \in Seq(Chars) /\ Len(Fuzzy(text)) = n
  BY <1>4, <1>5
<1> QED
  BY <1>1, <1>2, <1>4, <1>6

\* The last character is not a blank.
LEMMA LastNotBlank ==
  ASSUME NEW text \in Seq(Chars), NEW n \in Nat, n = Len(Fuzzy(text)), n # 0
  PROVE  Fuzzy(text)[n] # "blank"
<1>1. PICK kept : kept = KeptInOrder(text)
  OBVIOUS
<1>2. n = Cardinality(Kept(text)) /\ n \in 1..n /\ Fuzzy(text)[n] = Plain(text[kept[n]])
  <2>1. n = Cardinality(Kept(text)) /\ n \in 1..n
    BY FuzzyTold
  <2> QED
    BY <1>1, <2>1, FuzzyTold
<1>3. SUFFICES ASSUME text[kept[n]] = "blank" PROVE FALSE
  BY <1>2 DEF Plain
<1>4. kept[n] \in Kept(text) /\ kept[n] \in Nat
  BY <1>1, <1>2, KeptTold
<1>5. PICK j \in (kept[n] + 1)..Len(text) : text[j] \notin {"blank", "lf"}
  BY <1>3, <1>4 DEF Kept
<1>6. j \in Kept(text)
  BY <1>4, <1>5 DEF Kept
<1>7. PICK k \in 1..n : kept[k] = j
  BY <1>1, <1>2, <1>6, KeptTold
<1>8. kept[n] <= kept[k]
  BY <1>4, <1>5, <1>7
<1>9. k = n
  <2>1. n <= k
    BY <1>1, <1>2, <1>8, KeptOrdered
  <2> QED
    BY <1>2, <2>1
<1> QED
  BY <1>4, <1>5, <1>7, <1>9
-----------------------------------------------------------------------------
(* Edits: the normalised text of a part of a text.                         *)

LEMMA PartTold ==
  ASSUME NEW text \in Seq(Chars), NEW p \in Places(text)
  PROVE  /\ At(text, p) \in Seq(Chars) /\ Len(At(text, p)) = p[2] - p[1]
         /\ p[1] \in Nat /\ p[2] \in Nat /\ p[1] >= 1 /\ p[1] <= p[2] /\ p[2] <= Len(text) + 1
         /\ \A i \in 1..(p[2] - p[1]) : At(text, p)[i] = text[p[1] + i - 1]
<1>1. /\ p[1] \in Nat /\ p[2] \in Nat /\ p[1] >= 1 /\ p[1] <= p[2]
      /\ p[2] <= Len(text) + 1 /\ Len(text) \in Nat
  BY DEF Places
<1>2. PICK a \in Nat : a = p[1]
  BY <1>1
<1>3. PICK b \in Int : b = p[2] - 1
  BY <1>1
<1>4. \A i \in a..b : text[i] \in Chars
  BY <1>1, <1>2, <1>3
<1>5. /\ SubSeq(text, a, b) \in Seq(Chars)
      /\ Len(SubSeq(text, a, b)) = IF a <= b THEN b - a + 1 ELSE 0
      /\ \A i \in 1..(b - a + 1) : SubSeq(text, a, b)[i] = text[a + i - 1]
  BY <1>4, SubSeqProperties
<1>6. b - a + 1 = p[2] - p[1] /\ (a <= b \/ p[2] - p[1] = 0)
  BY <1>1, <1>2, <1>3
<1> QED
  BY <1>1, <1>2, <1>3, <1>5, <1>6 DEF At

\* What a part keeps the text keeps; and what the text keeps before that, the
\* part keeps.
LEMMA PartKeeps ==
  ASSUME NEW text \in Seq(Chars), NEW p \in Places(text), NEW y \in Kept(At(text, p))
  PROVE  /\ y \in Nat /\ p[1] + y - 1 \in Kept(text)
         /\ p[1] + y - 1 >= p[1] /\ p[1] + y - 1 < p[2]
         /\ \A x \in Kept(text) : p[1] <= x /\ x < p[1] + y - 1 =>
              x - p[1] + 1 \in Kept(At(text, p))
<1>1. PICK part : part = At(text, p)
  OBVIOUS
<1>2. PICK a : a = p[1]
  OBVIOUS
<1>3. PICK n : n = p[2] - p[1]
  OBVIOUS
<1>4. /\ part \in Seq(Chars) /\ Len(part) = n /\ n \in Nat /\ a \in Nat /\ a >= 1
      /\ a + n = p[2] /\ a + n <= Len(text) + 1 /\ Len(text) \in Nat
      /\ \A i \in 1..n : part[i] = text[a + i - 1]
  <2>1. /\ part \in Seq(Chars) /\ Len(part) = n
        /\ \A i \in 1..n : part[i] = text[a + i - 1]
    BY <1>1, <1>2, <1>3, PartTold
  <2>2. p[1] \in Nat /\ p[2] \in Nat /\ p[1] >= 1 /\ p[1] <= p[2] /\ p[2] <= Len(text) + 1
    BY PartTold
  <2> QED
    BY <1>2, <1>3, <2>1, <2>2
<1>5. /\ y \in 1..n
      /\ part[y] = "blank" => \E j \in (y + 1)..n : /\ part[j] \notin {"blank", "lf"}
                                                    /\ \A k \in y..j : part[k] # "lf"
  BY <1>1, <1>4 DEF Kept
<1>6. a + y - 1 \in 1..Len(text) /\ text[a + y - 1] = part[y]
      /\ a + y - 1 >= a /\ a + y - 1 < a + n
  BY <1>4, <1>5
<1>7. ASSUME part[y] = "blank"
      PROVE  \E w \in (a + y)..(a + n - 1) : /\ text[w] \notin {"blank", "lf"}
                                            /\ \A k \in (a + y - 1)..w : text[k] # "lf"
  <2>1. PICK j \in (y + 1)..n : /\ part[j] \notin {"blank", "lf"}
                                /\ \A k \in y..j : part[k] # "lf"
    BY <1>5, <1>7
  <2>2. a + j - 1 \in (a + y)..(a + n - 1) /\ j \in 1..n
    BY <1>4, <1>5
  <2>3. text[a + j - 1] = part[j]
    BY <1>4, <2>2
  <2>4. ASSUME NEW k \in (a + y - 1)..(a + j - 1) PROVE text[k] # "lf"
    <3>1. k - a + 1 \in y..j /\ k - a + 1 \in 1..n /\ a + (k - a + 1) - 1 = k
      BY <1>4, <1>5, <2>2
    <3> QED
      BY <1>4, <2>1, <3>1
  <2> QED
    BY <2>1, <2>2, <2>3, <2>4
<1>8. a + y - 1 \in Kept(text)
  <2>1. CASE part[y] # "blank"
    BY <1>6, <2>1 DEF Kept
  <2>2. CASE part[y] = "blank"
    <3>1. PICK w \in (a + y)..(a + n - 1) : /\ text[w] \notin {"blank", "lf"}
                                           /\ \A k \in (a + y - 1)..w : text[k] # "lf"
      BY <1>7, <2>2
    <3>2. w \in ((a + y - 1) + 1)..Len(text)
      BY <1>4, <1>5, <3>1
    <3> QED
      BY <1>6, <3>1, <3>2 DEF Kept
  <2> QED
    BY <2>1, <2>2
<1>9. ASSUME NEW x \in Kept(text), a <= x, x < a + y - 1
      PROVE  x - a + 1 \in Kept(part)
  <2>1. x \in 1..Len(text) /\ x - a + 1 \in 1..n /\ x - a + 1 < y /\ a + (x - a + 1) - 1 = x
    BY <1>4, <1>5, <1>9 DEF Kept
  <2>2. part[x - a + 1] = text[x]
    BY <1>4, <2>1
  <2>3. CASE text[x] # "blank"
    BY <1>4, <2>1, <2>2, <2>3 DEF Kept
  <2>4. CASE text[x] = "blank"
    <3>1. PICK w \in (x + 1)..Len(text) : /\ text[w] \notin {"blank", "lf"}
                                         /\ \A k \in x..w : text[k] # "lf"
      BY <2>4 DEF Kept
    <3>2. SUFFICES \E v \in (x + 1)..(a + n - 1) : /\ text[v] \notin {"blank", "lf"}
                                                  /\ \A k \in x..v : text[k] # "lf"
      <4>1. PICK v \in (x + 1)..(a + n - 1) : /\ text[v] \notin {"blank", "lf"}
                                             /\ \A k \in x..v : text[k] # "lf"
        BY <3>2
      <4>2. v - a + 1 \in ((x - a + 1) + 1)..n /\ v - a + 1 \in 1..n /\ a + (v - a + 1) - 1 = v
        BY <1>4, <2>1, <4>1
      <4>3. part[v - a + 1] = text[v]
        BY <1>4, <4>2
      <4>4. ASSUME NEW k \in (x - a + 1)..(v - a + 1) PROVE part[k] # "lf"
        <5>1. k \in 1..n /\ a + k - 1 \in x..v
          BY <1>4, <2>1, <4>2
        <5> QED
          BY <1>4, <4>1, <5>1
      <4>5. x - a + 1 \in DOMAIN part /\ v - a + 1 \in ((x - a + 1) + 1)..Len(part)
            /\ part[v - a + 1] \notin {"blank", "lf"}
            /\ \A k \in (x - a + 1)..(v - a + 1) : part[k] # "lf"
        BY <1>4, <2>1, <4>1, <4>2, <4>3, <4>4
      <4> QED
        BY ONLY <4>5 DEF Kept
    <3>3. CASE w <= a + n - 1
      BY <3>1, <3>3
    <3>4. CASE w > a + n - 1
      <4>1. \A k \in x..(a + n - 1) : text[k] # "lf"
        BY <1>4, <2>1, <3>1, <3>4
      <4>2. a + y - 1 \in (x + 1)..(a + n - 1)
        BY <1>4, <1>5, <1>9, <2>1
      <4>3. CASE part[y] # "blank"
        <5>1. text[a + y - 1] \notin {"blank", "lf"}
          BY <1>6, <2>1, <4>1, <4>2, <4>3
        <5>2. \A k \in x..(a + y - 1) : k \in x..(a + n - 1)
          BY <1>4, <2>1, <4>2
        <5> QED
          BY <4>1, <4>2, <5>1, <5>2
      <4>4. CASE part[y] = "blank"
        <5>1. PICK v \in (a + y)..(a + n - 1) : text[v] \notin {"blank", "lf"}
          BY <1>7, <4>4
        <5>2. v \in (x + 1)..(a + n - 1) /\ \A k \in x..v : k \in x..(a + n - 1)
          BY <1>4, <2>1, <4>2, <5>1
        <5> QED
          BY <4>1, <5>1, <5>2
      <4> QED
        BY <4>3, <4>4
    <3> QED
      BY <1>4, <3>1, <3>3, <3>4
  <2> QED
    BY <2>3, <2>4
<1> QED
  BY <1>1, <1>2, <1>4, <1>5, <1>6, <1>8, <1>9

\* What a part keeps is a run of what the text keeps.
LEMMA RunKept ==
  ASSUME NEW text \in Seq(Chars), NEW p \in Places(text),
         NEW n \in Nat, n = Len(Fuzzy(At(text, p))), n # 0
  PROVE  \E j \in 1..Cardinality(Kept(text)) :
           /\ j + n - 1 <= Cardinality(Kept(text))
           /\ \A t \in 1..n :
                KeptInOrder(text)[j + t - 1] = p[1] + KeptInOrder(At(text, p))[t] - 1
<1>1. PICK part : part = At(text, p)
  OBVIOUS
<1>2. PICK a : a = p[1]
  OBVIOUS
<1>3. part \in Seq(Chars) /\ a \in Nat /\ n = Cardinality(Kept(part))
  BY <1>1, <1>2, PartTold, FuzzyTold
<1>4. PICK m \in Nat : m = Cardinality(Kept(text))
  BY KeptTold
<1>5. PICK kept : kept = KeptInOrder(text)
  OBVIOUS
<1>6. PICK keptP : keptP = KeptInOrder(part)
  OBVIOUS
<1>7. /\ \A k \in 1..m : kept[k] \in Kept(text) /\ kept[k] \in Nat
      /\ \A i \in Kept(text) : \E k \in 1..m : kept[k] = i
      /\ \A k \in 1..m : \A j \in 1..(k - 1) : kept[j] < kept[k]
      /\ \A j, k \in 1..m : kept[j] <= kept[k] => j <= k
  BY <1>4, <1>5, KeptTold, KeptOrdered
<1>8. /\ \A k \in 1..n : keptP[k] \in Kept(part) /\ keptP[k] \in Nat
      /\ \A i \in Kept(part) : \E k \in 1..n : keptP[k] = i
      /\ \A k \in 1..n : \A j \in 1..(k - 1) : keptP[j] < keptP[k]
      /\ \A j, k \in 1..n : keptP[j] <= keptP[k] => j <= k
  BY <1>3, <1>6, KeptTold, KeptOrdered
<1>9. ASSUME NEW t \in 1..n
      PROVE  /\ a + keptP[t] - 1 \in Kept(text)
             /\ \A x \in Kept(text) : a <= x /\ x < a + keptP[t] - 1 => x - a + 1 \in Kept(part)
             /\ a + keptP[t] - 1 >= a
  <2>1. keptP[t] \in Kept(part)
    BY <1>8
  <2> QED
    BY <1>1, <1>2, <2>1, PartKeeps
<1>10. PICK j \in 1..m : kept[j] = a + keptP[1] - 1
  <2>1. 1 \in 1..n
    OBVIOUS
  <2> QED
    BY <1>7, <1>9, <2>1
<1> DEFINE Gaps == {t \in 1..n : ~(j + t - 1 <= m /\ kept[j + t - 1] = a + keptP[t] - 1)}
<1>11. Gaps = {}
  <2>1. SUFFICES ASSUME Gaps # {} PROVE FALSE
    OBVIOUS
  <2>2. PICK t \in Gaps : \A r \in Gaps : t <= r
    <3>1. Gaps \in SUBSET Nat
      OBVIOUS
    <3> HIDE DEF Gaps
    <3> QED
      BY <2>1, <3>1, LeastNat
  <2>3. t \in 1..n /\ ~(j + t - 1 <= m /\ kept[j + t - 1] = a + keptP[t] - 1)
    BY <2>2
  <2>4. t # 1
    <3>1. j + 1 - 1 = j /\ j <= m
      BY <1>10
    <3> QED
      BY <1>10, <2>3, <3>1
  <2>5. t - 1 \in 1..n /\ ~(t <= t - 1) /\ t \in Nat /\ j \in Nat /\ j >= 1 /\ t > 1
        /\ t - 1 \in 1..(t - 1)
    BY <2>3, <2>4, <1>10
  <2>6. j + (t - 1) - 1 <= m /\ kept[j + (t - 1) - 1] = a + keptP[t - 1] - 1
    BY <2>2, <2>5
  <2>7. PICK q \in Nat : q = j + t - 1 /\ q - 1 = j + (t - 1) - 1 /\ q - 1 >= 1
    BY <2>5
  <2>8. q - 1 \in 1..m /\ kept[q - 1] = a + keptP[t - 1] - 1
    BY <2>6, <2>7
  <2>9. keptP[t - 1] < keptP[t] /\ keptP[t - 1] \in Nat /\ keptP[t] \in Nat
    BY <1>8, <2>3, <2>5
  <2>10. PICK s \in 1..m : kept[s] = a + keptP[t] - 1
    BY <1>7, <1>9, <2>3
  <2>11. kept[q - 1] < kept[s]
    BY <1>3, <2>8, <2>9, <2>10
  <2>12. s > q - 1
    <3>1. ASSUME s <= q - 1 PROVE FALSE
      <4>1. s = q - 1 \/ s \in 1..((q - 1) - 1)
        BY <2>7, <3>1
      <4>2. s = q - 1 \/ kept[s] < kept[q - 1]
        BY <1>7, <2>8, <4>1
      <4>3. kept[s] \in Nat /\ kept[q - 1] \in Nat
        BY <1>7, <2>8
      <4> QED
        BY <2>11, <4>2, <4>3
    <3> QED
      BY <2>7, <3>1
  <2>13. q \in 1..m
    BY <2>7, <2>12
  <2>14. s # q
    BY <2>3, <2>7, <2>10, <2>13
  <2>15. kept[q - 1] < kept[q] /\ kept[q] < kept[s]
    <3>1. q - 1 \in 1..(q - 1) /\ q \in 1..(s - 1)
      BY <2>7, <2>12, <2>14
    <3> QED
      BY <1>7, <2>13, <3>1
  <2>16. kept[q] \in Kept(text) /\ kept[q] \in Nat
    BY <1>7, <2>13
  <2>17. a <= kept[q] /\ kept[q] < a + keptP[t] - 1
    <3>1. a <= a + keptP[t - 1] - 1
      BY <1>9, <2>5
    <3> QED
      BY <1>3, <2>8, <2>9, <2>10, <2>15, <2>16, <3>1
  <2>18. kept[q] - a + 1 \in Kept(part)
    BY <1>9, <2>3, <2>16, <2>17
  <2>19. PICK r \in 1..n : keptP[r] = kept[q] - a + 1
    BY <1>8, <2>18
  <2>20. keptP[t - 1] <= keptP[r] /\ keptP[r] <= keptP[t]
         /\ keptP[r] # keptP[t - 1] /\ keptP[r] # keptP[t]
    <3>1. a + keptP[t - 1] - 1 < kept[q] /\ kept[q] < a + keptP[t] - 1
      BY <2>8, <2>10, <2>15
    <3>2. \A x, y, z \in Nat : a + x - 1 < z /\ z < a + y - 1 =>
            /\ x <= z - a + 1 /\ z - a + 1 <= y /\ z - a + 1 # x /\ z - a + 1 # y
      BY <1>3
    <3> QED
      BY <2>9, <2>16, <2>19, <3>1, <3>2
  <2>21. t - 1 <= r /\ r <= t
    BY <1>8, <2>3, <2>5, <2>20
  <2>22. r = t - 1 \/ r = t
    BY <2>5, <2>21
  <2> QED
    BY <2>20, <2>22
<1>12. \A t \in 1..n : j + t - 1 <= m /\ kept[j + t - 1] = a + keptP[t] - 1
  BY <1>11
<1>13. j + n - 1 <= m
  <2>1. n \in 1..n
    OBVIOUS
  <2> QED
    BY <1>12, <2>1
<1> QED
  BY <1>1, <1>2, <1>4, <1>5, <1>6, <1>10, <1>12, <1>13

\* The normalised text of a part is a part of the normalised text, and lies
\* where the table of boundaries has it.
LEMMA PartFuzzy ==
  ASSUME NEW text \in Seq(Chars), NEW p \in Places(text),
         NEW n \in Nat, n = Len(Fuzzy(At(text, p))), n # 0
  PROVE  \E j \in 1..Cardinality(Kept(text)) :
           /\ j + n - 1 <= Cardinality(Kept(text))
           /\ p[1] <= KeptInOrder(text)[j] /\ KeptInOrder(text)[j + n - 1] < p[2]
           /\ \A t \in 1..n : Fuzzy(At(text, p))[t] = Fuzzy(text)[j + t - 1]
           /\ \A x \in Kept(At(text, p)) :
                \E t \in 1..n : p[1] + x - 1 = KeptInOrder(text)[j + t - 1]
<1>1. PICK part : part = At(text, p)
  OBVIOUS
<1>2. PICK m \in Nat : m = Cardinality(Kept(text))
  BY KeptTold
<1>3. PICK kept : kept = KeptInOrder(text)
  OBVIOUS
<1>4. PICK keptP : keptP = KeptInOrder(part)
  OBVIOUS
<1>5. PICK j \in 1..m : /\ j + n - 1 <= m
                        /\ \A t \in 1..n : kept[j + t - 1] = p[1] + keptP[t] - 1
  BY <1>1, <1>2, <1>3, <1>4, RunKept
<1>6. /\ part \in Seq(Chars) /\ Len(part) = p[2] - p[1] /\ n = Cardinality(Kept(part))
      /\ p[1] \in Nat /\ p[2] \in Nat
      /\ \A i \in 1..(p[2] - p[1]) : part[i] = text[p[1] + i - 1]
  BY <1>1, PartTold, FuzzyTold
<1>7. /\ \A k \in 1..n : keptP[k] \in Kept(part) /\ keptP[k] \in 1..(p[2] - p[1])
      /\ \A i \in Kept(part) : \E k \in 1..n : keptP[k] = i
  BY <1>4, <1>6, KeptTold
<1>8. p[1] <= kept[j] /\ kept[j + n - 1] < p[2]
  <2>1. 1 \in 1..n /\ n \in 1..n /\ j + 1 - 1 = j
    OBVIOUS
  <2>2. kept[j] = p[1] + keptP[1] - 1 /\ kept[j + n - 1] = p[1] + keptP[n] - 1
    BY <1>5, <2>1
  <2>3. keptP[1] \in 1..(p[2] - p[1]) /\ keptP[n] \in 1..(p[2] - p[1])
    BY <1>7, <2>1
  <2>4. \A x \in 1..(p[2] - p[1]) : p[1] <= p[1] + x - 1 /\ p[1] + x - 1 < p[2]
    BY <1>6
  <2> QED
    BY <2>2, <2>3, <2>4
<1>9. ASSUME NEW t \in 1..n PROVE Fuzzy(part)[t] = Fuzzy(text)[j + t - 1]
  <2>1. Fuzzy(part)[t] = Plain(part[keptP[t]])
    BY <1>4, <1>6, FuzzyTold
  <2>2. j + t - 1 \in 1..m
    BY <1>5
  <2>3. Fuzzy(text)[j + t - 1] = Plain(text[kept[j + t - 1]])
    BY <1>2, <1>3, <2>2, FuzzyTold
  <2>4. part[keptP[t]] = text[kept[j + t - 1]]
    BY <1>5, <1>6, <1>7
  <2> QED
    BY <2>1, <2>3, <2>4
<1>10. ASSUME NEW x \in Kept(part) PROVE \E t \in 1..n : p[1] + x - 1 = kept[j + t - 1]
  BY <1>5, <1>7
<1> QED
  BY <1>1, <1>2, <1>3, <1>5, <1>8, <1>9, <1>10

-----------------------------------------------------------------------------
(* Edits: the place of a replacement.                                      *)

LEMMA OccursTold ==
  ASSUME NEW text \in Seq(Chars), NEW needle \in Seq(Chars), NEW i
  PROVE  i \in Occurrences(text, needle)
           <=> /\ i \in 1..(Len(text) - Len(needle) + 1)
               /\ \A k \in 1..Len(needle) : text[i + k - 1] = needle[k]
<1>1. PICK n \in Nat : n = Len(needle)
  OBVIOUS
<1>2. SUFFICES ASSUME i \in 1..(Len(text) - n + 1)
               PROVE  SubSeq(text, i, i + n - 1) = needle
                        <=> \A k \in 1..n : text[i + k - 1] = needle[k]
  BY <1>1 DEF Occurrences, OccursAt
<1>3. PICK p : p = <<i, i + n>>
  OBVIOUS
<1>4. p \in Places(text) /\ p[1] = i /\ p[2] = i + n /\ i \in Nat
  BY <1>2, <1>3 DEF Places
<1>5. PICK part : part = At(text, p)
  OBVIOUS
<1>6. SubSeq(text, i, i + n - 1) = part
  BY <1>4, <1>5 DEF At
<1>7. p[2] - p[1] = n
  BY <1>4
<1>8. part \in Seq(Chars) /\ Len(part) = n /\ \A k \in 1..n : part[k] = text[i + k - 1]
  <2>1. /\ At(text, p) \in Seq(Chars) /\ Len(At(text, p)) = p[2] - p[1]
        /\ \A k \in 1..(p[2] - p[1]) : At(text, p)[k] = text[p[1] + k - 1]
    BY <1>4, PartTold
  <2> QED
    BY <1>4, <1>5, <1>7, <2>1
<1>9. part = needle <=> \A k \in 1..n : part[k] = needle[k]
  BY <1>1, <1>8
<1> QED
  BY <1>6, <1>8, <1>9

\* The place of a normalised text reads like it.
LEMMA FuzzyFound ==
  ASSUME NEW text \in Seq(Chars), NEW old \in Seq(Chars), Fuzzy(old) # <<>>,
         NEW i \in Occurrences(Fuzzy(text), Fuzzy(old)), NEW p,
         p = <<Boundary(text, i), Boundary(text, i + Len(Fuzzy(old)))>>
  PROVE  p \in Places(text) /\ Fuzzy(At(text, p)) = Fuzzy(old)
<1>1. PICK needle : needle = Fuzzy(old)
  OBVIOUS
<1>2. PICK n \in Nat : n = Len(needle)
  BY <1>1, FuzzyTold
<1>3. needle \in Seq(Chars) /\ n # 0 /\ Fuzzy(text) \in Seq(Chars)
  BY <1>1, <1>2, FuzzyTold
<1>4. PICK m \in Nat : m = Cardinality(Kept(text)) /\ m = Len(Fuzzy(text))
  BY KeptTold, FuzzyTold
<1>5. i \in 1..(m - n + 1) /\ \A t \in 1..n : Fuzzy(text)[i + t - 1] = needle[t]
  <2>1. PICK whole \in Seq(Chars) : whole = Fuzzy(text) /\ Len(whole) = m
    BY <1>3, <1>4
  <2>2. i \in Occurrences(whole, needle)
    BY <1>1, <2>1
  <2>3. i \in 1..(Len(whole) - Len(needle) + 1)
    BY <2>2 DEF Occurrences
  <2>4. i \in Nat /\ needle \in Seq(Chars)
    BY <1>3, <2>3
  <2>5. /\ i \in 1..(Len(whole) - Len(needle) + 1)
        /\ \A t \in 1..Len(needle) : whole[i + t - 1] = needle[t]
    BY ONLY <2>1, <2>2, <2>4, OccursTold
  <2> QED
    BY ONLY <1>2, <2>1, <2>5
<1>6. i \in 1..m /\ i \in Nat /\ i + n - 1 \in 1..m /\ i + n - 1 >= i /\ Len(text) \in Nat
  BY <1>3, <1>5
<1>7. PICK kept : kept = KeptInOrder(text)
  OBVIOUS
<1>8. /\ DOMAIN kept = 1..m
      /\ \A k \in 1..m : kept[k] \in Kept(text) /\ kept[k] \in 1..Len(text) /\ kept[k] \in Nat
      /\ \A k \in 1..m : \A j \in 1..(k - 1) : kept[j] < kept[k]
      /\ \A j, k \in 1..m : kept[j] <= kept[k] => j <= k
  BY <1>4, <1>7, KeptTold, KeptOrdered
<1>9. p[1] = kept[i] /\ p[2] = IF i + n \in 1..m THEN kept[i + n] ELSE Len(text) + 1
  BY <1>1, <1>2, <1>6, <1>7, <1>8 DEF Boundary
<1>10. \A k \in 1..m : kept[k] < p[2] => k <= i + n - 1
  <2> SUFFICES ASSUME NEW k \in 1..m, kept[k] < p[2] PROVE k <= i + n - 1
    OBVIOUS
  <2>1. CASE i + n \in 1..m
    <3>1. kept[k] < kept[i + n] /\ kept[k] \in Nat /\ kept[i + n] \in Nat
      BY <1>8, <1>9, <2>1
    <3>2. kept[k] <= kept[i + n] /\ k # i + n
      BY <3>1
    <3>3. k <= i + n
      BY <1>8, <2>1, <3>2
    <3> QED
      BY <1>6, <3>2, <3>3
  <2>2. CASE i + n \notin 1..m
    BY <1>6, <2>2
  <2> QED
    BY <2>1, <2>2
<1>11. PICK z \in Nat : z = kept[i + n - 1]
  BY <1>6, <1>8
<1>12. p[1] <= z /\ z < p[2] /\ z \in 1..Len(text) /\ p[2] <= Len(text) + 1
       /\ p[1] \in Nat /\ p[2] \in Nat /\ p[1] >= 1
  <2>1. kept[i] \in 1..Len(text) /\ z \in 1..Len(text) /\ kept[i] <= z
    <3>1. i = i + n - 1 \/ i \in 1..((i + n - 1) - 1)
      BY <1>6
    <3>2. kept[i] = z \/ kept[i] < z
      BY <1>6, <1>8, <1>11, <3>1
    <3> QED
      BY <1>6, <1>8, <1>11, <3>2
  <2>2. CASE i + n \in 1..m
    <3>1. i + n - 1 \in 1..((i + n) - 1)
      BY <1>6
    <3>2. z < kept[i + n] /\ kept[i + n] \in 1..Len(text)
      BY <1>8, <1>11, <2>2, <3>1
    <3> QED
      BY <1>6, <1>9, <2>1, <2>2, <3>2
  <2>3. CASE i + n \notin 1..m
    BY <1>6, <1>9, <2>1, <2>3
  <2> QED
    BY <2>2, <2>3
<1>13. p \in Places(text)
  BY <1>12 DEF Places
<1>14. text[z] # "blank"
  <2>1. needle[n] # "blank"
    BY <1>1, <1>2, <1>3, LastNotBlank
  <2>2. n \in 1..n
    BY <1>3
  <2>3. Fuzzy(text)[i + n - 1] = needle[n]
    BY <1>5, <2>2
  <2>4. Fuzzy(text)[i + n - 1] = Plain(text[z])
    BY <1>4, <1>6, <1>7, <1>11, FuzzyTold
  <2> QED
    BY <2>1, <2>3, <2>4 DEF Plain
<1>15. PICK part : part = At(text, p)
  OBVIOUS
<1>16. /\ part \in Seq(Chars) /\ Len(part) = p[2] - p[1]
       /\ \A k \in 1..(p[2] - p[1]) : part[k] = text[p[1] + k - 1]
  BY <1>13, <1>15, PartTold
<1>17. PICK y \in Nat : y = z - p[1] + 1
  BY <1>12
<1>18. y \in Kept(part)
  <2>1. y \in 1..Len(part) /\ p[1] + y - 1 = z
    BY <1>12, <1>16, <1>17
  <2>2. part[y] # "blank"
    BY <1>14, <1>16, <2>1
  <2> QED
    BY <1>16, <2>1, <2>2 DEF Kept
<1>19. PICK l \in Nat : l = Len(Fuzzy(part)) /\ l = Cardinality(Kept(part))
  BY <1>16, KeptTold, FuzzyTold
<1>20. l # 0
  <2>1. \E k \in 1..l : KeptInOrder(part)[k] = y
    BY <1>16, <1>18, <1>19, KeptTold
  <2> QED
    BY <2>1
<1>21. PICK j \in 1..m :
         /\ j + l - 1 <= m /\ p[1] <= kept[j] /\ kept[j + l - 1] < p[2]
         /\ \A t \in 1..l : Fuzzy(part)[t] = Fuzzy(text)[j + t - 1]
         /\ \A x \in Kept(part) : \E t \in 1..l : p[1] + x - 1 = kept[j + t - 1]
  <2>1. l = Len(Fuzzy(At(text, p)))
    BY <1>15, <1>19
  <2>2. PICK j \in 1..Cardinality(Kept(text)) :
          /\ j + l - 1 <= Cardinality(Kept(text))
          /\ p[1] <= KeptInOrder(text)[j] /\ KeptInOrder(text)[j + l - 1] < p[2]
          /\ \A t \in 1..l : Fuzzy(At(text, p))[t] = Fuzzy(text)[j + t - 1]
          /\ \A x \in Kept(At(text, p)) :
               \E t \in 1..l : p[1] + x - 1 = KeptInOrder(text)[j + t - 1]
    BY ONLY text \in Seq(Chars), <1>13, <1>20, <2>1, PartFuzzy
  <2> QED
    BY ONLY <1>4, <1>7, <1>15, <2>2
<1>22. j >= i
  BY <1>6, <1>8, <1>9, <1>21
<1>23. j + l - 1 <= i + n - 1
  <2>1. j + l - 1 \in 1..m
    BY <1>20, <1>21
  <2> QED
    BY <1>10, <1>21, <2>1
<1>24. j + l - 1 >= i + n - 1
  <2>1. PICK t \in 1..l : z = kept[j + t - 1]
    <3>1. p[1] + y - 1 = z
      BY <1>12, <1>17
    <3> QED
      BY <1>18, <1>21, <3>1
  <2>2. j + t - 1 \in 1..m /\ j + t - 1 <= j + l - 1
    BY <1>21
  <2>3. kept[i + n - 1] <= kept[j + t - 1]
    BY <1>11, <2>1
  <2>4. i + n - 1 <= j + t - 1
    BY <1>6, <1>8, <2>2, <2>3
  <2> QED
    BY <1>6, <1>21, <2>2, <2>4
<1>25. j <= i
  <2>1. 1 \in Kept(part)
    <3>1. CASE z = p[1]
      BY <1>12, <1>17, <1>18, <3>1
    <3>2. CASE z # p[1]
      <4>1. kept[i] \in Kept(text) /\ p[1] <= kept[i] /\ kept[i] < p[1] + y - 1
        BY <1>6, <1>8, <1>9, <1>12, <1>17, <3>2
      <4>2. kept[i] - p[1] + 1 \in Kept(part)
        BY <1>13, <1>15, <1>18, <4>1, PartKeeps
      <4> QED
        BY <1>9, <1>12, <4>2
    <3> QED
      BY <3>1, <3>2
  <2>2. PICK t \in 1..l : p[1] + 1 - 1 = kept[j + t - 1]
    BY <1>21, <2>1
  <2>3. kept[j + t - 1] <= kept[i] /\ j + t - 1 \in 1..m /\ j <= j + t - 1
    BY <1>9, <1>12, <1>21, <2>2
  <2>4. j + t - 1 <= i
    BY <1>6, <1>8, <2>3
  <2> QED
    BY <1>6, <1>21, <2>3, <2>4
<1>26. j = i /\ l = n
  BY <1>6, <1>21, <1>22, <1>23, <1>24, <1>25
<1>27. Fuzzy(part) = needle
  <2>1. Fuzzy(part) \in Seq(Chars) /\ Len(Fuzzy(part)) = n
    BY <1>16, <1>19, <1>26, FuzzyTold
  <2>2. \A t \in 1..n : Fuzzy(part)[t] = needle[t]
    BY <1>5, <1>21, <1>26
  <2> QED
    BY <1>2, <1>3, <2>1, <2>2
<1> QED
  BY <1>1, <1>13, <1>15, <1>27

\* A second place that reads like it makes the match ambiguous.
LEMMA FuzzyOnce ==
  ASSUME NEW text \in Seq(Chars), NEW old \in Seq(Chars), Fuzzy(old) # <<>>,
         NEW i \in Occurrences(Fuzzy(text), Fuzzy(old)), NEW p,
         p = <<Boundary(text, i), Boundary(text, i + Len(Fuzzy(old)))>>,
         NEW q \in Places(text), Apart(q, p), Fuzzy(At(text, q)) = Fuzzy(old)
  PROVE  Several(Fuzzy(text), Fuzzy(old))
<1>1. PICK needle : needle = Fuzzy(old)
  OBVIOUS
<1>2. PICK n \in Nat : n = Len(needle)
  BY <1>1, FuzzyTold
<1>3. needle \in Seq(Chars) /\ n # 0 /\ Fuzzy(text) \in Seq(Chars)
  BY <1>1, <1>2, FuzzyTold
<1>4. PICK m \in Nat : m = Cardinality(Kept(text)) /\ m = Len(Fuzzy(text))
  BY KeptTold, FuzzyTold
<1>5. i \in 1..(m - n + 1)
  BY <1>1, <1>2, <1>3, <1>4, OccursTold
<1>6. i \in 1..m /\ i \in Nat /\ Len(text) \in Nat
  BY <1>3, <1>5
<1>7. PICK kept : kept = KeptInOrder(text)
  OBVIOUS
<1>8. /\ DOMAIN kept = 1..m
      /\ \A k \in 1..m : kept[k] \in 1..Len(text) /\ kept[k] \in Nat
      /\ \A j, k \in 1..m : kept[j] <= kept[k] => j <= k
  BY <1>4, <1>7, KeptTold, KeptOrdered
<1>9. p[1] = kept[i] /\ p[2] = IF i + n \in 1..m THEN kept[i + n] ELSE Len(text) + 1
  BY <1>1, <1>2, <1>6, <1>7, <1>8 DEF Boundary
<1>10. PICK j \in 1..m :
         /\ j + n - 1 <= m /\ q[1] <= kept[j] /\ kept[j + n - 1] < q[2]
         /\ \A t \in 1..n : needle[t] = Fuzzy(text)[j + t - 1]
  <2>1. n = Len(Fuzzy(At(text, q)))
    BY <1>1, <1>2
  <2>2. PICK j \in 1..Cardinality(Kept(text)) :
          /\ j + n - 1 <= Cardinality(Kept(text))
          /\ q[1] <= KeptInOrder(text)[j] /\ KeptInOrder(text)[j + n - 1] < q[2]
          /\ \A t \in 1..n : Fuzzy(At(text, q))[t] = Fuzzy(text)[j + t - 1]
    BY ONLY text \in Seq(Chars), q \in Places(text), <1>2, <1>3, <2>1, PartFuzzy
  <2>3. Fuzzy(At(text, q)) = needle
    BY <1>1
  <2> QED
    BY ONLY <1>4, <1>7, <2>2, <2>3
<1>11. q[1] \in Nat /\ q[2] \in Nat
  BY PartTold
<1>12. j \in Occurrences(Fuzzy(text), needle) /\ i \in Occurrences(Fuzzy(text), needle)
  <2>1. j \in 1..(m - n + 1)
    BY <1>3, <1>10
  <2> QED
    BY <1>1, <1>2, <1>3, <1>4, <1>10, <2>1, OccursTold
<1>13. CASE q[2] <= p[1]
  <2>1. j + n - 1 \in 1..m
    BY <1>3, <1>10
  <2>2. kept[j + n - 1] < kept[i] /\ kept[j + n - 1] \in Nat /\ kept[i] \in Nat
    BY <1>6, <1>8, <1>9, <1>10, <1>11, <1>13, <2>1
  <2>3. kept[j + n - 1] <= kept[i] /\ j + n - 1 # i
    BY <2>2
  <2>4. j + n - 1 <= i
    BY <1>6, <1>8, <2>1, <2>3
  <2>5. j + n <= i
    BY <1>6, <2>1, <2>3, <2>4
  <2> QED
    BY <1>1, <1>2, <1>12, <2>5 DEF Several
<1>14. CASE p[2] <= q[1]
  <2>1. kept[j] \in 1..Len(text)
    BY <1>8
  <2>2. i + n \in 1..m /\ kept[i + n] <= kept[j]
    <3>1. CASE i + n \in 1..m
      <4>1. kept[i + n] \in Nat
        BY <1>8, <3>1
      <4> QED
        BY <1>9, <1>10, <1>11, <1>14, <2>1, <3>1, <4>1
    <3>2. CASE i + n \notin 1..m
      BY <1>6, <1>9, <1>10, <1>11, <1>14, <2>1, <3>2
    <3> QED
      BY <3>1, <3>2
  <2>3. i + n <= j
    BY <1>8, <2>2
  <2> QED
    BY <1>1, <1>2, <1>12, <2>3 DEF Several
<1> QED
  BY <1>13, <1>14 DEF Apart

\* As written, the same.
LEMMA ExactFound ==
  ASSUME NEW text \in Seq(Chars), NEW old \in Seq(Chars), old # <<>>,
         NEW i \in Occurrences(text, old), NEW p, p = <<i, i + Len(old)>>
  PROVE  /\ p \in Places(text) /\ At(text, p) = old
         /\ \A q \in Places(text) : Apart(q, p) /\ At(text, q) = old => Several(text, old)
<1>1. PICK n \in Nat : n = Len(old)
  OBVIOUS
<1>2. /\ i \in 1..(Len(text) - n + 1) /\ SubSeq(text, i, i + n - 1) = old
  BY <1>1 DEF Occurrences, OccursAt
<1>3. n > 0 /\ Len(text) \in Nat /\ i \in Nat
  BY <1>1, <1>2
<1>4. p \in Places(text) /\ p[1] = i /\ p[2] = i + n
  BY <1>1, <1>2, <1>3 DEF Places
<1>5. At(text, p) = old
  BY <1>2, <1>3, <1>4 DEF At
<1>6. ASSUME NEW q \in Places(text), Apart(q, p), At(text, q) = old
      PROVE  Several(text, old)
  <2>1. /\ q[1] \in Nat /\ q[2] \in Nat /\ q[1] >= 1 /\ q[2] <= Len(text) + 1
        /\ q[2] - q[1] = n
    BY <1>1, <1>6, PartTold
  <2>2. q[2] = q[1] + n /\ q[1] \in 1..(Len(text) - n + 1)
    BY <1>3, <2>1
  <2>3. SubSeq(text, q[1], q[1] + n - 1) = old
    <3>1. \A x, y, k \in Nat : y - x = k => x + k - 1 = y - 1
      OBVIOUS
    <3>2. q[1] + n - 1 = q[2] - 1
      BY <2>1, <3>1
    <3> QED
      BY <1>6, <3>2 DEF At
  <2>4. q[1] \in Occurrences(text, old)
    BY <1>1, <2>2, <2>3 DEF Occurrences, OccursAt
  <2>5. q[1] + n <= i \/ i + n <= q[1]
    BY <1>4, <1>6, <2>2 DEF Apart
  <2> QED
    BY <1>1, <2>4, <2>5 DEF Several
<1> QED
  BY <1>4, <1>5, <1>6

LEMMA EmptyFuzzy == Fuzzy(<<>>) = <<>>
<1>1. <<>> \in Seq(Chars) /\ Kept(<<>>) = {}
  BY DEF Kept
<1>2. Fuzzy(<<>>) \in Seq(Chars) /\ Len(Fuzzy(<<>>)) = 0
  BY <1>1, FuzzyTold, FS_EmptySet
<1> QED
  BY <1>2

\* Blanks alone go into a text of which nothing is left.
LEMMA BlankFound ==
  ASSUME NEW text \in Seq(Chars), NEW old \in Seq(Chars), Fuzzy(old) = <<>>,
         ~Several(Fuzzy(text), Fuzzy(old)),
         NEW i \in Occurrences(Fuzzy(text), Fuzzy(old)), NEW p,
         p = <<Boundary(text, i), Boundary(text, i + Len(Fuzzy(old)))>>
  PROVE  p \in Places(text) /\ Fuzzy(At(text, p)) = Fuzzy(old)
<1>1. Fuzzy(text) = <<>> /\ Len(Fuzzy(old)) = 0
  BY DEF Several
<1>2. i = 1 /\ i + Len(Fuzzy(old)) = 1
  BY <1>1 DEF Occurrences
<1>3. Cardinality(Kept(text)) = 0
  BY <1>1, FuzzyTold
<1>4. DOMAIN KeptInOrder(text) = {}
  BY <1>3, KeptTold
<1>5. p = <<Len(text) + 1, Len(text) + 1>> /\ Len(text) \in Nat
  BY <1>2, <1>4 DEF Boundary
<1>6. p \in Places(text) /\ p[2] - p[1] = 0
  BY <1>5 DEF Places
<1>7. At(text, p) \in Seq(Chars) /\ Len(At(text, p)) = 0
  BY <1>6, PartTold
<1>8. At(text, p) = <<>>
  BY <1>7
<1> QED
  BY <1>6, <1>8, EmptyFuzzy

\* p is where old is read in base, and it is read nowhere else apart from p.
FoundOnce(base, p, old, fuzzy) ==
  /\ p \in Places(base) /\ ReadsAs(base, p, old, fuzzy)
  /\ \A q \in Places(base) :
       Apart(q, p) /\ Fuzzy(At(base, q)) # <<>> => ~ReadsAs(base, q, old, fuzzy)

LEMMA MatchFound ==
  ASSUME NEW base \in Seq(Chars), NEW old \in Seq(Chars), old # <<>>, NEW fuzzy \in BOOLEAN,
         NEW text, text = (IF fuzzy THEN Fuzzy(base) ELSE base),
         NEW needle, needle = (IF fuzzy THEN Fuzzy(old) ELSE old),
         Occurrences(text, needle) # {}, ~Several(text, needle),
         NEW p, p = Match(base, fuzzy, old)
  PROVE  FoundOnce(base, p, old, fuzzy)
<1>1. PICK i : i = Min(Occurrences(text, needle))
  OBVIOUS
<1>2. i \in Occurrences(text, needle)
  <2>1. Occurrences(text, needle) \in SUBSET Nat
    BY DEF Occurrences
  <2>2. PICK j \in Occurrences(text, needle) : \A k \in Occurrences(text, needle) : j <= k
    BY <2>1, LeastNat
  <2> QED
    BY <1>1, <2>2 DEF Min
<1>3. CASE ~fuzzy
  <2>1. text = base /\ needle = old /\ p = <<i, i + Len(old)>>
    BY <1>1, <1>3 DEF Match
  <2>2. /\ p \in Places(base) /\ At(base, p) = old
        /\ \A q \in Places(base) : Apart(q, p) /\ At(base, q) = old => Several(base, old)
    BY <1>2, <2>1, ExactFound
  <2> QED
    BY <1>3, <2>1, <2>2 DEF ReadsAs, FoundOnce
<1>4. CASE fuzzy
  <2>1. text = Fuzzy(base) /\ needle = Fuzzy(old)
        /\ p = <<Boundary(base, i), Boundary(base, i + Len(Fuzzy(old)))>>
    BY <1>1, <1>4 DEF Match
  <2>2. CASE Fuzzy(old) = <<>>
    <3>1. p \in Places(base) /\ Fuzzy(At(base, p)) = Fuzzy(old)
      BY <1>2, <2>1, <2>2, BlankFound
    <3> QED
      BY <1>4, <2>2, <3>1 DEF ReadsAs, FoundOnce
  <2>3. CASE Fuzzy(old) # <<>>
    <3>1. p \in Places(base) /\ Fuzzy(At(base, p)) = Fuzzy(old)
      BY <1>2, <2>1, <2>3, FuzzyFound
    <3>2. \A q \in Places(base) : Apart(q, p) /\ Fuzzy(At(base, q)) = Fuzzy(old) =>
            Several(Fuzzy(base), Fuzzy(old))
      BY <1>2, <2>1, <2>3, FuzzyOnce
    <3> QED
      BY <1>4, <2>1, <3>1, <3>2 DEF ReadsAs, FoundOnce
  <2> QED
    BY <2>2, <2>3
<1> QED
  BY <1>3, <1>4
-----------------------------------------------------------------------------
(* Edits: the replacements, from the last place to the first.              *)

LEMMA BackwardTold ==
  ASSUME NEW base, NEW n \in Nat, NEW place \in [1..n -> Places(base)]
  PROVE  /\ \A k \in 1..n : Backward(place)[k] \in 1..n
         /\ \A k \in 1..n, l \in 1..n : k < l =>
              /\ Backward(place)[k] # Backward(place)[l]
              /\ place[Backward(place)[l]][1] <= place[Backward(place)[k]][1]
<1> DEFINE E == 1..n
           Behind(e) == {d \in E : \/ place[d][1] > place[e][1]
                                   \/ (place[d][1] = place[e][1] /\ d > e)}
           rank == [e \in E |-> Cardinality(Behind(e))]
           nth(k) == CHOOSE e \in E : Cardinality(Behind(e)) = k - 1
<1>1. IsFiniteSet(E) /\ Cardinality(E) = n
  BY FS_Interval
<1>2. \A e \in E : place[e][1] \in Nat /\ e \in Nat
  BY DEF Places
<1>3. Backward(place) = [k \in E |-> nth(k)]
  <2>1. DOMAIN place = E
    OBVIOUS
  <2> QED
    BY <2>1 DEF Backward
<1>4. \A e \in E : Behind(e) \subseteq E /\ e \notin Behind(e)
  BY <1>2
<1>5. \A d, e \in E : d \in Behind(e) => Behind(d) \subseteq Behind(e)
  BY <1>2
<1>6. \A d, e \in E : d = e \/ d \in Behind(e) \/ e \in Behind(d)
  BY <1>2
<1>7. \A d, e \in E : place[d][1] > place[e][1] => d \in Behind(e)
  OBVIOUS
<1> HIDE DEF Behind, E
<1>8. \A e \in E : IsFiniteSet(Behind(e)) /\ Cardinality(Behind(e)) \in Nat
  BY <1>1, <1>4, FS_Subset, FS_CardinalityType
<1>9. \A d, e \in E : d \in Behind(e) => Cardinality(Behind(d)) < Cardinality(Behind(e))
  <2> SUFFICES ASSUME NEW d \in E, NEW e \in E, d \in Behind(e)
               PROVE  Cardinality(Behind(d)) < Cardinality(Behind(e))
    OBVIOUS
  <2>1. Behind(d) \subseteq Behind(e) /\ d \notin Behind(d) /\ IsFiniteSet(Behind(e))
    BY <1>4, <1>5, <1>8
  <2>2. Cardinality(Behind(d)) <= Cardinality(Behind(e))
        /\ (Cardinality(Behind(d)) = Cardinality(Behind(e)) => Behind(d) = Behind(e))
    BY <2>1, FS_Subset
  <2> QED
    BY <1>8, <2>1, <2>2
<1>10. rank \in [E -> Nat] /\ \A e \in E : rank[e] = Cardinality(Behind(e))
  BY <1>8
<1> HIDE DEF rank
<1>11. \A e \in E : Lower(rank, E, e) = Behind(e)
  <2> SUFFICES ASSUME NEW e \in E, NEW d \in E
               PROVE  rank[d] < rank[e] <=> d \in Behind(e)
    BY <1>4 DEF Lower
  <2>1. rank[d] \in Nat /\ rank[e] \in Nat
    BY <1>10
  <2>2. d \in Behind(e) => rank[d] < rank[e]
    BY <1>9, <1>10
  <2>3. e \in Behind(d) => rank[e] < rank[d]
    BY <1>9, <1>10
  <2> QED
    BY <1>6, <2>1, <2>2, <2>3
<1>12. \A d, e \in E : rank[d] = rank[e] => d = e
  <2> SUFFICES ASSUME NEW d \in E, NEW e \in E, rank[d] = rank[e], d # e PROVE FALSE
    OBVIOUS
  <2>1. rank[d] \in Nat /\ (rank[d] < rank[e] \/ rank[e] < rank[d])
    BY <1>6, <1>9, <1>10
  <2> QED
    BY <2>1
<1>13. ASSUME NEW k \in E PROVE nth(k) \in E /\ Cardinality(Behind(nth(k))) = k - 1
  <2>1. k - 1 \in Nat /\ k - 1 < Cardinality(E)
    BY <1>1 DEF E
  <2>2. PICK e \in E : Cardinality(Lower(rank, E, e)) = k - 1
    BY <1>1, <1>10, <1>12, <2>1, RankTaken
  <2>3. Cardinality(Behind(e)) = k - 1
    BY <1>11, <2>2
  <2> QED
    BY <2>3
<1> HIDE DEF nth
<1>14. ASSUME NEW k \in E, NEW l \in E, k < l
       PROVE  nth(k) # nth(l) /\ place[nth(l)][1] <= place[nth(k)][1]
  <2>1. nth(k) \in E /\ nth(l) \in E /\ Cardinality(Behind(nth(k))) = k - 1
        /\ Cardinality(Behind(nth(l))) = l - 1
    BY <1>13
  <2>2. k \in Nat /\ l \in Nat
    BY <1>2
  <2>3. ~(Cardinality(Behind(nth(l))) < Cardinality(Behind(nth(k))))
    BY <1>14, <2>1, <2>2
  <2>4. nth(l) \notin Behind(nth(k))
    BY <1>9, <2>1, <2>3
  <2>5. ~(place[nth(l)][1] > place[nth(k)][1])
    BY <1>7, <2>1, <2>4
  <2>6. place[nth(l)][1] \in Nat /\ place[nth(k)][1] \in Nat
    BY <1>2, <2>1
  <2>7. nth(k) # nth(l)
    <3>1. k - 1 # l - 1
      BY <1>14, <2>2
    <3> QED
      BY <2>1, <3>1
  <2> QED
    BY <2>5, <2>6, <2>7
<1> QED
  BY <1>3, <1>13, <1>14 DEF E

\* Characters after normalizeLF.
Clean == Chars \ {"crlf", "cr"}

LEMMA LineEnds ==
  /\ \A t \in Seq(Chars) : normalizeLF(t) \in Seq(Clean)
  /\ \A t \in Seq(Clean) : /\ t \in Seq(Chars) /\ Replaced(t, "lf", "crlf") \in Seq(Chars)
                           /\ normalizeLF(t) = t
                           /\ normalizeLF(Replaced(t, "lf", "crlf")) = t
<1>1. "lf" \in Clean /\ "crlf" \in Chars
  BY EditsAssumption DEF Clean
<1>2. ASSUME NEW t \in Seq(Chars) PROVE normalizeLF(t) \in Seq(Clean)
  <2>1. \A i \in 1..Len(t) : t[i] \in Chars
    OBVIOUS
  <2>2. normalizeLF(t) = [i \in 1..Len(t) |-> IF t[i] \in {"crlf", "cr"} THEN "lf" ELSE t[i]]
    BY DEF normalizeLF
  <2>3. \A i \in 1..Len(t) : (IF t[i] \in {"crlf", "cr"} THEN "lf" ELSE t[i]) \in Clean
    BY <1>1, <2>1 DEF Clean
  <2> QED
    BY <2>2, <2>3
<1>3. ASSUME NEW t \in Seq(Clean)
      PROVE  /\ t \in Seq(Chars) /\ Replaced(t, "lf", "crlf") \in Seq(Chars)
             /\ normalizeLF(t) = t /\ normalizeLF(Replaced(t, "lf", "crlf")) = t
  <2>1. PICK n \in Nat : n = Len(t)
    OBVIOUS
  <2>2. t = [i \in 1..n |-> t[i]] /\ \A i \in 1..n : t[i] \in Chars /\ t[i] \notin {"crlf", "cr"}
    BY <2>1 DEF Clean
  <2>3. t \in Seq(Chars)
    <3>1. \A i \in 1..n : t[i] \in Chars
      BY <2>2
    <3>2. [i \in 1..n |-> t[i]] \in Seq(Chars)
      BY ONLY <3>1, n \in Nat
    <3> QED
      BY <2>2, <3>2
  <2>4. PICK u : u = Replaced(t, "lf", "crlf")
    OBVIOUS
  <2>5. u = [i \in 1..n |-> IF t[i] = "lf" THEN "crlf" ELSE t[i]]
    BY <2>1, <2>4 DEF Replaced
  <2>6. u \in Seq(Chars)
    <3>1. \A i \in 1..n : (IF t[i] = "lf" THEN "crlf" ELSE t[i]) \in Chars
      BY <1>1, <2>2
    <3> QED
      BY ONLY <2>5, <3>1, n \in Nat
  <2>7. normalizeLF(t) = t
    <3>1. normalizeLF(t) = [i \in 1..n |-> IF t[i] \in {"crlf", "cr"} THEN "lf" ELSE t[i]]
      BY <2>1 DEF normalizeLF
    <3> QED
      BY <2>2, <3>1
  <2>8. normalizeLF(u) = t
    <3>1. normalizeLF(u) = [i \in 1..n |-> IF u[i] \in {"crlf", "cr"} THEN "lf" ELSE u[i]]
      BY <2>5 DEF normalizeLF
    <3>2. \A i \in 1..n : (IF u[i] \in {"crlf", "cr"} THEN "lf" ELSE u[i]) = t[i]
      BY <2>2, <2>5
    <3> QED
      BY <2>2, <3>1, <3>2
  <2> QED
    BY <2>3, <2>4, <2>6, <2>7, <2>8
<1> QED
  BY <1>2, <1>3

\* f tells the text after the first n replacements.
Replacing(base, edits, place, n, f) ==
  f = [k \in 0..n |->
         IF k = 0 THEN base
         ELSE Spliced(f[k - 1], place[Backward(place)[k]],
                      normalizeLF(edits[Backward(place)[k]].new))]

LEMMA ReplacingExists ==
  ASSUME NEW base, NEW edits, NEW place, NEW top \in Nat
  PROVE  \E f : Replacing(base, edits, place, top, f)
<1> DEFINE Next(x, k) == Spliced(x, place[Backward(place)[k]],
                                 normalizeLF(edits[Backward(place)[k]].new))
           Gaps == {n \in 0..top : \A f : ~Replacing(base, edits, place, n, f)}
<1>1. SUFFICES ASSUME Gaps # {} PROVE FALSE
  <2>1. top \in 0..top
    OBVIOUS
  <2> QED
    BY <2>1
<1>2. PICK n \in Gaps : \A m \in Gaps : n <= m
  <2>1. Gaps \in SUBSET Nat
    OBVIOUS
  <2> HIDE DEF Gaps
  <2> QED
    BY <1>1, <2>1, LeastNat
<1>3. n \in 0..top /\ n \in Nat /\ \A f : ~Replacing(base, edits, place, n, f)
  BY <1>2
<1>4. CASE n = 0
  <2> DEFINE f == [k \in 0..0 |-> base]
  <2>1. f = [k \in 0..0 |-> IF k = 0 THEN base ELSE Next(f[k - 1], k)]
    OBVIOUS
  <2>2. Replacing(base, edits, place, 0, f)
    BY <2>1 DEF Replacing
  <2> HIDE DEF f
  <2> QED
    BY <1>3, <1>4, <2>2
<1>5. CASE n # 0
  <2>1. n > 0 /\ n - 1 \in 0..top /\ n - 1 \notin Gaps
    BY <1>2, <1>3, <1>5
  <2>2. PICK f : Replacing(base, edits, place, n - 1, f)
    BY <2>1
  <2>3. \A k \in 0..(n - 1) : f[k] = IF k = 0 THEN base ELSE Next(f[k - 1], k)
    <3> DEFINE h == [k \in 0..(n - 1) |-> IF k = 0 THEN base ELSE Next(f[k - 1], k)]
    <3>1. f = h
      BY <2>2 DEF Replacing
    <3>2. \A k \in 0..(n - 1) : h[k] = IF k = 0 THEN base ELSE Next(f[k - 1], k)
      OBVIOUS
    <3> QED
      BY <3>1, <3>2
  <2> HIDE DEF Next
  <2> DEFINE own == Next(f[n - 1], n)
             g == [k \in 0..n |-> IF k = n THEN own ELSE f[k]]
  <2>4. ASSUME NEW k \in 0..n
        PROVE  g[k] = IF k = 0 THEN base ELSE Next(g[k - 1], k)
    <3>1. k # 0 => g[k - 1] = f[k - 1]
      BY <2>1, <1>3
    <3>2. CASE k = n
      <4>1. g[k] = own
        BY <3>2
      <4> HIDE DEF g
      <4> QED
        BY <1>5, <3>1, <3>2, <4>1
    <3>3. CASE k # n
      <4>1. k \in 0..(n - 1)
        BY <2>1, <3>3, <1>3
      <4>2. g[k] = f[k]
        BY <3>3
      <4> HIDE DEF g
      <4> QED
        BY <2>3, <3>1, <4>1, <4>2
    <3> QED
      BY <3>2, <3>3
  <2>5. g = [k \in 0..n |-> g[k]]
    OBVIOUS
  <2> HIDE DEF g
  <2>6. g = [k \in 0..n |-> IF k = 0 THEN base ELSE Next(g[k - 1], k)]
    BY <2>4, <2>5
  <2>7. Replacing(base, edits, place, n, g)
    BY <2>6 DEF Replacing, Next
  <2> QED
    BY <1>3, <2>7
<1> QED
  BY <1>4, <1>5

Follows(base, edits, place, n, f) ==
  /\ f[0] = base
  /\ \A k \in 1..n : f[k] = Spliced(f[k - 1], place[Backward(place)[k]],
                                    normalizeLF(edits[Backward(place)[k]].new))

LEMMA ReplacingAt ==
  ASSUME NEW base, NEW edits, NEW place, NEW n \in Nat, NEW f,
         Replacing(base, edits, place, n, f)
  PROVE  Follows(base, edits, place, n, f)
<1> DEFINE Next(x, k) == Spliced(x, place[Backward(place)[k]],
                                 normalizeLF(edits[Backward(place)[k]].new))
           h == [k \in 0..n |-> IF k = 0 THEN base ELSE Next(f[k - 1], k)]
<1>1. f = h
  BY DEF Replacing
<1> HIDE DEF Next
<1>2. h[0] = base /\ \A k \in 1..n : h[k] = Next(f[k - 1], k)
  OBVIOUS
<1> QED
  BY <1>1, <1>2 DEF Next, Follows

LEMMA AppliedTold ==
  ASSUME NEW base, NEW edits \in Seq([old : Seq(Chars), new : Seq(Chars)]), NEW place
  PROVE  \E f : /\ Replacing(base, edits, place, Len(edits), f)
                /\ Applied(base, edits, place) = f[Len(edits)]
<1> DEFINE P(g) == g = [k \in 0..Len(edits) |->
                          IF k = 0 THEN base
                          ELSE Spliced(g[k - 1], place[Backward(place)[k]],
                                       normalizeLF(edits[Backward(place)[k]].new))]
           f == CHOOSE g : P(g)
<1>1. \E g : P(g)
  <2>1. Len(edits) \in Nat
    OBVIOUS
  <2>2. PICK g : Replacing(base, edits, place, Len(edits), g)
    BY <2>1, ReplacingExists
  <2> QED
    BY <2>2 DEF Replacing
<1>2. P(f)
  <2> HIDE DEF P
  <2> QED
    BY <1>1
<1>3. Replacing(base, edits, place, Len(edits), f)
  <2> HIDE DEF f
  <2> QED
    BY <1>2 DEF Replacing
<1>4. Applied(base, edits, place) = f[Len(edits)]
  BY DEF Applied
<1> HIDE DEF f
<1> QED
  BY <1>3, <1>4

\* What is before the place of a replacement stays.
FrontStays(text, p, new) ==
  /\ Spliced(text, p, new) \in Seq(Clean) /\ p[1] - 1 <= Len(Spliced(text, p, new))
  /\ \A i \in 1..(p[1] - 1) : Spliced(text, p, new)[i] = text[i]

LEMMA SplicedClean ==
  ASSUME NEW text \in Seq(Clean), NEW new \in Seq(Clean), NEW p,
         p[1] \in Nat, p[1] >= 1, p[1] - 1 <= Len(text), p[2] \in Nat, p[2] >= 1
  PROVE  FrontStays(text, p, new)
<1>1. PICK a \in Nat : a = p[1] - 1 /\ a <= Len(text)
  OBVIOUS
<1>2. PICK b \in Nat : b = p[2] /\ b >= 1
  OBVIOUS
<1>3. PICK front : front = SubSeq(text, 1, a)
  OBVIOUS
<1>4. PICK back : back = SubSeq(text, b, Len(text))
  OBVIOUS
<1>5. front \in Seq(Clean) /\ Len(front) = a
  <2>1. \A i \in 1..a : text[i] \in Clean
    BY <1>1
  <2>2. front \in Seq(Clean) /\ Len(front) = IF 1 <= a THEN a - 1 + 1 ELSE 0
    BY <1>3, <2>1, SubSeqProperties
  <2> QED
    BY <1>1, <2>2
<1>6. back \in Seq(Clean)
  <2>1. \A i \in b..Len(text) : text[i] \in Clean
    BY <1>2
  <2> QED
    BY <1>2, <1>4, <2>1, SubSeqProperties
<1>7. Spliced(text, p, new) = front \o new \o back
  BY <1>1, <1>2, <1>3, <1>4 DEF Spliced
<1>8. front \o new \in Seq(Clean) /\ Len(front \o new) = a + Len(new)
  BY <1>5, ConcatProperties
<1>9. front \o new \o back \in Seq(Clean)
      /\ Len(front \o new \o back) = a + Len(new) + Len(back)
  BY <1>6, <1>8, ConcatProperties
<1>10. Len(new) \in Nat /\ Len(back) \in Nat
  BY <1>6
<1>11. ASSUME NEW i \in 1..a PROVE (front \o new \o back)[i] = text[i]
  <2>1. i \in 1..(Len(front) + Len(new)) /\ i <= Len(front)
        /\ i \in 1..(Len(front \o new) + Len(back)) /\ i <= Len(front \o new)
    BY <1>1, <1>5, <1>8, <1>10
  <2>2. (front \o new \o back)[i] = (front \o new)[i]
    BY ONLY <1>6, <1>8, <2>1, ConcatProperties
  <2>3. (front \o new)[i] = front[i]
    BY ONLY <1>5, new \in Seq(Clean), <2>1, ConcatProperties
  <2>4. front[i] = text[i]
    <3>1. \A j \in 1..a : text[j] \in Clean
      BY <1>1
    <3>2. \A j \in 1..(a - 1 + 1) : front[j] = text[1 + j - 1]
      BY ONLY <1>3, <3>1, a \in Nat, SubSeqProperties
    <3>3. i \in 1..(a - 1 + 1) /\ 1 + i - 1 = i
      BY ONLY a \in Nat, i \in 1..a
    <3> QED
      BY ONLY <3>2, <3>3
  <2> QED
    BY <2>2, <2>3, <2>4
<1>12. p[1] - 1 <= Len(front \o new \o back)
  BY <1>1, <1>9, <1>10
<1> QED
  BY <1>1, <1>7, <1>9, <1>11, <1>12 DEF FrontStays

LEMMA EditTyped ==
  ASSUME NEW edits \in Seq([old : Seq(Chars), new : Seq(Chars)]), NEW e \in DOMAIN edits
  PROVE  edits[e].old \in Seq(Chars) /\ edits[e].new \in Seq(Chars)
<1>1. PICK R : R = [old : Seq(Chars), new : Seq(Chars)]
  OBVIOUS
<1>2. edits \in Seq(R)
  BY <1>1
<1>3. edits[e] \in R
  BY <1>2
<1>4. edits[e] \in [old : Seq(Chars), new : Seq(Chars)]
  BY <1>1, <1>3
<1> QED
  BY ONLY <1>4

LEMMA AppliedClean ==
  ASSUME NEW base \in Seq(Clean), NEW edits \in Seq([old : Seq(Chars), new : Seq(Chars)]),
         NEW place \in [DOMAIN edits -> Places(base)]
  PROVE  Applied(base, edits, place) \in Seq(Clean)
<1>1. PICK n \in Nat : n = Len(edits) /\ DOMAIN edits = 1..n
  OBVIOUS
<1>2. PICK f : Replacing(base, edits, place, n, f) /\ Applied(base, edits, place) = f[n]
  BY <1>1, AppliedTold
<1>3. PICK order : order = Backward(place)
  OBVIOUS
<1>4. place \in [1..n -> Places(base)]
  BY <1>1
<1>5. /\ \A k \in 1..n : order[k] \in 1..n
      /\ \A k \in 1..n, l \in 1..n : k < l => place[order[l]][1] <= place[order[k]][1]
  BY <1>3, <1>4, BackwardTold
<1>6. \A e \in 1..n : /\ place[e][1] \in Nat /\ place[e][1] >= 1 /\ place[e][2] \in Nat
                      /\ place[e][2] >= 1 /\ place[e][1] - 1 <= Len(base)
  <2> SUFFICES ASSUME NEW e \in 1..n
               PROVE  /\ place[e][1] \in Nat /\ place[e][1] >= 1 /\ place[e][2] \in Nat
                      /\ place[e][2] >= 1 /\ place[e][1] - 1 <= Len(base)
    OBVIOUS
  <2>1. place[e] \in Places(base)
    BY <1>4
  <2> QED
    BY <2>1 DEF Places
<1>7. \A e \in 1..n : normalizeLF(edits[e].new) \in Seq(Clean)
  <2>1. \A e \in 1..n : edits[e].new \in Seq(Chars)
    BY <1>1, EditTyped
  <2> QED
    BY <2>1, LineEnds
<1>8. /\ f[0] = base
      /\ \A k \in 1..n : f[k] = Spliced(f[k - 1], place[order[k]], normalizeLF(edits[order[k]].new))
  <2>1. /\ f[0] = base
        /\ \A k \in 1..n : f[k] = Spliced(f[k - 1], place[Backward(place)[k]],
                                          normalizeLF(edits[Backward(place)[k]].new))
    <3>1. Follows(base, edits, place, n, f)
      BY <1>2, ReplacingAt
    <3> QED
      BY <3>1 DEF Follows
  <2> QED
    BY ONLY <1>3, <2>1
<1> DEFINE Whole(k) == /\ f[k] \in Seq(Clean)
                       /\ \A l \in 1..n : k < l => place[order[l]][1] - 1 <= Len(f[k])
           Gaps == {k \in 0..n : ~Whole(k)}
<1>9. Gaps = {}
  <2>1. SUFFICES ASSUME Gaps # {} PROVE FALSE
    OBVIOUS
  <2>2. PICK k \in Gaps : \A j \in Gaps : k <= j
    <3>1. Gaps \in SUBSET Nat
      OBVIOUS
    <3> HIDE DEF Gaps
    <3> QED
      BY <2>1, <3>1, LeastNat
  <2>3. k # 0
    <3>1. Whole(0)
      BY <1>5, <1>6, <1>8
    <3> QED
      BY <2>2, <3>1
  <2>4. k \in 1..n /\ k - 1 \in 0..n /\ ~(k <= k - 1) /\ k - 1 < k /\ k \in Nat
    BY <2>2, <2>3
  <2>5. Whole(k - 1)
    BY <2>2, <2>4
  <2>6. PICK text \in Seq(Clean) : text = f[k - 1]
    BY <2>5
  <2>7. PICK e \in 1..n : e = order[k]
    BY <1>5, <2>4
  <2>8. place[e][1] - 1 <= Len(text)
    BY <2>4, <2>5, <2>6, <2>7
  <2>9. f[k] = Spliced(text, place[e], normalizeLF(edits[e].new))
    BY <1>8, <2>4, <2>6, <2>7
  <2>10. f[k] \in Seq(Clean) /\ place[e][1] - 1 <= Len(f[k])
    <3>1. /\ place[e][1] \in Nat /\ place[e][1] >= 1 /\ place[e][2] \in Nat
          /\ place[e][2] >= 1 /\ normalizeLF(edits[e].new) \in Seq(Clean)
      BY <1>6, <1>7
    <3> QED
      <4>1. FrontStays(text, place[e], normalizeLF(edits[e].new))
        BY ONLY <2>6, <2>8, <3>1, SplicedClean
      <4> QED
        BY ONLY <2>9, <4>1 DEF FrontStays
  <2>11. ASSUME NEW l \in 1..n, k < l PROVE place[order[l]][1] - 1 <= Len(f[k])
    <3>1. PICK d \in 1..n : d = order[l] /\ place[d][1] <= place[e][1]
      BY <1>5, <2>4, <2>7, <2>11
    <3>2. place[d][1] \in Nat /\ place[e][1] \in Nat /\ Len(f[k]) \in Nat
      <4>1. f[k] \in Seq(Clean)
        BY <2>10
      <4>2. Len(f[k]) \in Nat
        BY ONLY <4>1
      <4>3. place[d][1] \in Nat /\ place[e][1] \in Nat
        BY ONLY <1>6, d \in 1..n, e \in 1..n
      <4> QED
        BY <4>2, <4>3
    <3>3. \A x, y, z \in Nat : x <= y /\ y - 1 <= z => x - 1 <= z
      OBVIOUS
    <3>4. place[d][1] - 1 <= Len(f[k])
      BY <2>10, <3>1, <3>2, <3>3
    <3> QED
      BY <3>1, <3>4
  <2>12. Whole(k)
    BY <2>10, <2>11
  <2> QED
    BY <2>2, <2>12
<1>10. Whole(n)
  <2>1. n \in 0..n
    BY ONLY n \in Nat
  <2>2. \A k \in 0..n : Whole(k)
    BY <1>9
  <2> HIDE DEF Whole
  <2> QED
    BY ONLY <2>1, <2>2
<1> QED
  BY <1>2, <1>10

\* Edits whose places do not overlap, applied from the last to the first, each
\* find at their place what was there in the original text: what is replaced
\* before is all behind it (applyFileEdits, file_edit.go:104-115).
THEOREM ReplacementsInPlace ==
  ASSUME NEW base \in Seq(Clean), NEW edits \in Seq([old : Seq(Chars), new : Seq(Chars)]),
         NEW place \in [DOMAIN edits -> Places(base)],
         \A d, e \in DOMAIN edits :
           d # e => ~(place[d][1] <= place[e][1] /\ place[d][2] > place[e][1]),
         NEW f, Replacing(base, edits, place, Len(edits), f)
  PROVE  \A k \in DOMAIN edits :
           At(f[k - 1], place[Backward(place)[k]]) = At(base, place[Backward(place)[k]])
<1>1. PICK n \in Nat : n = Len(edits) /\ DOMAIN edits = 1..n
  OBVIOUS
<1>2. PICK order : order = Backward(place)
  OBVIOUS
<1>3. place \in [1..n -> Places(base)]
  BY <1>1
<1>4. /\ \A k \in 1..n : order[k] \in 1..n
      /\ \A k \in 1..n, l \in 1..n : k < l =>
           order[k] # order[l] /\ place[order[l]][1] <= place[order[k]][1]
  BY <1>2, <1>3, BackwardTold
<1> DEFINE from(k) == place[order[k]][1]
           to(k)   == place[order[k]][2]
<1>5. \A k \in 1..n : /\ from(k) \in Nat /\ to(k) \in Nat /\ from(k) >= 1 /\ from(k) <= to(k)
                      /\ to(k) <= Len(base) + 1
  <2> SUFFICES ASSUME NEW k \in 1..n
               PROVE  /\ from(k) \in Nat /\ to(k) \in Nat /\ from(k) >= 1 /\ from(k) <= to(k)
                      /\ to(k) <= Len(base) + 1
    OBVIOUS
  <2>1. PICK q \in Places(base) : q = place[order[k]]
    BY <1>3, <1>4
  <2>2. q[1] \in Nat /\ q[2] \in Nat /\ q[1] >= 1 /\ q[1] <= q[2] /\ q[2] <= Len(base) + 1
    BY DEF Places
  <2> QED
    BY ONLY <2>1, <2>2
<1>6. \A k \in 1..n, l \in 1..n : k < l => to(l) <= from(k)
  <2> SUFFICES ASSUME NEW k \in 1..n, NEW l \in 1..n, k < l PROVE to(l) <= from(k)
    OBVIOUS
  <2>1. order[l] \in DOMAIN edits /\ order[k] \in DOMAIN edits /\ order[l] # order[k]
        /\ from(l) <= from(k)
    BY <1>1, <1>4
  <2>2. ~(to(l) > from(k))
    BY <2>1
  <2>3. PICK x \in Nat, y \in Nat : x = to(l) /\ y = from(k)
    BY <1>5
  <2>4. ~(x > y)
    BY ONLY <2>2, <2>3
  <2>5. x <= y
    BY ONLY <2>4, x \in Nat, y \in Nat
  <2> QED
    BY <2>3, <2>5
<1>7. \A k \in 1..n : normalizeLF(edits[order[k]].new) \in Seq(Clean)
  <2> SUFFICES ASSUME NEW k \in 1..n PROVE normalizeLF(edits[order[k]].new) \in Seq(Clean)
    OBVIOUS
  <2>1. edits[order[k]].new \in Seq(Chars)
    BY <1>1, <1>4, EditTyped
  <2> QED
    BY <2>1, LineEnds
<1>8. /\ f[0] = base
      /\ \A k \in 1..n : f[k] = Spliced(f[k - 1], place[order[k]], normalizeLF(edits[order[k]].new))
  <2>1. Follows(base, edits, place, n, f)
    BY <1>1, ReplacingAt
  <2> QED
    BY <1>2, <2>1 DEF Follows
<1> DEFINE Unmoved(k) == /\ f[k] \in Seq(Clean)
                         /\ \A l \in 1..n : k < l =>
                              /\ to(l) - 1 <= Len(f[k])
                              /\ \A i \in 1..(to(l) - 1) : f[k][i] = base[i]
           Gaps == {k \in 0..n : ~Unmoved(k)}
<1>9. Gaps = {}
  <2>1. SUFFICES ASSUME Gaps # {} PROVE FALSE
    OBVIOUS
  <2>2. PICK k \in Gaps : \A j \in Gaps : k <= j
    <3>1. Gaps \in SUBSET Nat
      OBVIOUS
    <3> HIDE DEF Gaps
    <3> QED
      BY <2>1, <3>1, LeastNat
  <2>3. k # 0
    <3>1. ASSUME NEW l \in 1..n PROVE to(l) - 1 <= Len(base)
      <4>1. PICK m \in Nat : m = Len(base)
        OBVIOUS
      <4>2. PICK x \in Nat : x = to(l) /\ x <= m + 1
        BY <1>5, <4>1
      <4>3. x - 1 <= m
        <5>1. \A y, z \in Nat : y <= z + 1 => y - 1 <= z
          OBVIOUS
        <5> QED
          BY ONLY x \in Nat, m \in Nat, <4>2, <5>1
      <4> QED
        BY <4>1, <4>2, <4>3
    <3>2. Unmoved(0)
      BY <1>8, <3>1
    <3> QED
      BY <2>2, <3>2
  <2>4. k \in 1..n /\ k - 1 \in 0..n /\ ~(k <= k - 1) /\ k - 1 < k /\ k \in Nat
    BY <2>2, <2>3
  <2>5. Unmoved(k - 1)
    BY <2>2, <2>4
  <2>6. PICK text \in Seq(Clean) : text = f[k - 1]
    BY <2>5
  <2>7. to(k) - 1 <= Len(text) /\ \A i \in 1..(to(k) - 1) : text[i] = base[i]
    BY <2>4, <2>5, <2>6
  <2>8. PICK p, new : p = place[order[k]] /\ new = normalizeLF(edits[order[k]].new)
    OBVIOUS
  <2>9. /\ p[1] \in Nat /\ p[1] >= 1 /\ p[1] - 1 <= Len(text) /\ p[2] \in Nat /\ p[2] >= 1
        /\ new \in Seq(Clean) /\ from(k) = p[1] /\ to(k) = p[2] /\ p[1] <= p[2]
    <3>1. /\ p[1] \in Nat /\ p[1] >= 1 /\ p[2] \in Nat /\ p[1] <= p[2]
          /\ new \in Seq(Clean) /\ from(k) = p[1] /\ to(k) = p[2]
      BY <1>5, <1>7, <2>4, <2>8
    <3>2. p[2] - 1 <= Len(text) /\ Len(text) \in Nat
      BY <2>6, <2>7, <3>1
    <3>3. p[1] - 1 <= Len(text) /\ p[2] >= 1
      BY ONLY <3>1, <3>2
    <3> QED
      BY <3>1, <3>3
  <2>10. f[k] = Spliced(text, p, new)
    BY <1>8, <2>4, <2>6, <2>8
  <2>11. /\ f[k] \in Seq(Clean) /\ p[1] - 1 <= Len(f[k])
         /\ \A i \in 1..(p[1] - 1) : f[k][i] = text[i]
    <3>1. FrontStays(text, p, new)
      BY ONLY text \in Seq(Clean), <2>9, SplicedClean
    <3> QED
      BY ONLY <2>10, <3>1 DEF FrontStays
  <2>12. ASSUME NEW l \in 1..n, k < l
         PROVE  /\ to(l) - 1 <= Len(f[k])
                /\ \A i \in 1..(to(l) - 1) : f[k][i] = base[i]
    <3>1. PICK x \in Nat, a \in Nat, b \in Nat :
            /\ x = to(l) /\ a = p[1] /\ b = p[2] /\ x <= a /\ a <= b
      BY <1>5, <1>6, <2>4, <2>9, <2>12
    <3>2. PICK m \in Nat : m = Len(f[k]) /\ a - 1 <= m
      <4>1. f[k] \in Seq(Clean)
        BY <2>11
      <4>2. Len(f[k]) \in Nat
        BY ONLY <4>1
      <4> QED
        BY <2>11, <3>1, <4>2
    <3>3. to(l) - 1 <= Len(f[k])
      <4>1. \A y, c, z \in Nat : y <= c /\ c - 1 <= z => y - 1 <= z
        OBVIOUS
      <4>2. x - 1 <= m
        BY <3>1, <3>2, <4>1
      <4> QED
        BY ONLY <3>1, <3>2, <4>2
    <3>4. \A i \in 1..(to(l) - 1) : i \in 1..(p[1] - 1) /\ i \in 1..(p[2] - 1)
      <4>1. x <= a /\ x <= b
        <5>1. \A y, c, d \in Nat : y <= c /\ c <= d => y <= d
          OBVIOUS
        <5> QED
          BY ONLY x \in Nat, a \in Nat, b \in Nat, <3>1, <5>1
      <4>2. \A y, z \in Nat : y <= z => \A i \in 1..(y - 1) : i \in 1..(z - 1)
        OBVIOUS
      <4>3. \A i \in 1..(x - 1) : i \in 1..(a - 1) /\ i \in 1..(b - 1)
        BY ONLY x \in Nat, a \in Nat, b \in Nat, <4>1, <4>2
      <4> QED
        BY ONLY <3>1, <4>3
    <3>5. \A i \in 1..(p[2] - 1) : text[i] = base[i]
      BY <2>7, <2>9
    <3> QED
      BY <2>11, <3>3, <3>4, <3>5
  <2>13. Unmoved(k)
    BY <2>11, <2>12
  <2> QED
    BY <2>2, <2>13
<1>10. ASSUME NEW k \in 1..n PROVE At(f[k - 1], place[order[k]]) = At(base, place[order[k]])
  <2>1. k - 1 \in 0..n /\ k - 1 < k
    OBVIOUS
  <2>2. Unmoved(k - 1)
    BY <1>9, <2>1
  <2>3. PICK text \in Seq(Clean) : text = f[k - 1]
    BY <2>2
  <2>4. to(k) - 1 <= Len(text) /\ \A i \in 1..(to(k) - 1) : text[i] = base[i]
    BY <2>1, <2>2, <2>3
  <2>5. PICK a \in Nat, b \in Int : /\ a = from(k) /\ b = to(k) - 1 /\ a >= 1
                                    /\ b <= Len(text) /\ b <= Len(base)
    <3>1. from(k) \in Nat /\ to(k) \in Nat /\ from(k) >= 1 /\ to(k) <= Len(base) + 1
          /\ Len(base) \in Nat
      BY <1>5
    <3>2. to(k) - 1 \in Int /\ to(k) - 1 <= Len(base)
      <4>1. \A y, z \in Nat : y <= z + 1 => y - 1 \in Int /\ y - 1 <= z
        OBVIOUS
      <4> QED
        BY ONLY <3>1, <4>1
    <3> QED
      BY <2>4, <3>1, <3>2
  <2>6. \A i \in a..b : i \in 1..Len(text) /\ i \in 1..Len(base) /\ i \in 1..b
    <3>1. PICK t \in Nat, m \in Nat : t = Len(text) /\ m = Len(base)
      OBVIOUS
    <3>2. a >= 1 /\ b <= t /\ b <= m
      BY <2>5, <3>1
    <3>3. \A c, u \in Nat, d \in Int : c >= 1 /\ d <= u => \A i \in c..d : i \in 1..u /\ i \in 1..d
      OBVIOUS
    <3>4. \A i \in a..b : i \in 1..t /\ i \in 1..m /\ i \in 1..b
      BY ONLY a \in Nat, b \in Int, t \in Nat, m \in Nat, <3>2, <3>3
    <3> QED
      BY ONLY <3>1, <3>4
  <2>7. \A i \in a..b : text[i] \in Clean /\ base[i] \in Clean /\ text[i] = base[i]
    <3>1. \A i \in 1..Len(text) : text[i] \in Clean
      OBVIOUS
    <3>2. \A i \in 1..Len(base) : base[i] \in Clean
      OBVIOUS
    <3>3. \A i \in 1..b : text[i] = base[i]
      BY <2>4, <2>5
    <3> QED
      BY ONLY <2>6, <3>1, <3>2, <3>3
  <2>8. /\ SubSeq(text, a, b) \in Seq(Clean) /\ SubSeq(base, a, b) \in Seq(Clean)
        /\ Len(SubSeq(text, a, b)) = IF a <= b THEN b - a + 1 ELSE 0
        /\ Len(SubSeq(base, a, b)) = IF a <= b THEN b - a + 1 ELSE 0
        /\ \A i \in 1..(b - a + 1) : /\ SubSeq(text, a, b)[i] = text[a + i - 1]
                                     /\ SubSeq(base, a, b)[i] = base[a + i - 1]
    <3>1. /\ SubSeq(text, a, b) \in Seq(Clean)
          /\ Len(SubSeq(text, a, b)) = IF a <= b THEN b - a + 1 ELSE 0
          /\ \A i \in 1..(b - a + 1) : SubSeq(text, a, b)[i] = text[a + i - 1]
      BY ONLY a \in Nat, b \in Int, <2>7, SubSeqProperties
    <3>2. /\ SubSeq(base, a, b) \in Seq(Clean)
          /\ Len(SubSeq(base, a, b)) = IF a <= b THEN b - a + 1 ELSE 0
          /\ \A i \in 1..(b - a + 1) : SubSeq(base, a, b)[i] = base[a + i - 1]
      BY ONLY a \in Nat, b \in Int, <2>7, SubSeqProperties
    <3> QED
      BY <3>1, <3>2
  <2>9. SubSeq(text, a, b) = SubSeq(base, a, b)
    <3>1. PICK s \in Seq(Clean), t \in Seq(Clean) : s = SubSeq(text, a, b) /\ t = SubSeq(base, a, b)
      BY <2>8
    <3>2. Len(s) = Len(t) /\ (Len(s) = b - a + 1 \/ Len(s) = 0)
      BY ONLY <2>8, <3>1
    <3>3. \A i \in 1..(b - a + 1) : a + i - 1 \in a..b
      BY ONLY a \in Nat, b \in Int
    <3>4. \A i \in 1..(b - a + 1) : s[i] = t[i]
      BY ONLY <2>7, <2>8, <3>1, <3>3
    <3>5. \A i \in 1..Len(s) : i \in 1..(b - a + 1)
      BY ONLY <3>2
    <3> QED
      BY ONLY <3>1, <3>2, <3>4, <3>5, SeqEqual
  <2> QED
    BY <2>3, <2>5, <2>9 DEF At
<1> QED
  BY <1>1, <1>2, <1>10

-----------------------------------------------------------------------------
(* Edits: a successful call.                                               *)

LEMMA TextEdited ==
  ASSUME NEW raw \in Seq(Chars), NEW edits \in Seq([old : Seq(Chars), new : Seq(Chars)]),
         EditedText(raw, edits) # <<"error">>
  PROVE  /\ EditedText(raw, edits) \in Seq(Chars)
         /\ \E place \in [DOMAIN edits -> Places(normalizeLF(raw))] :
              Replaces(normalizeLF(raw), edits, place, normalizeLF(EditedText(raw, edits)))
<1>1. PICK base : base = normalizeLF(raw)
  OBVIOUS
<1> DEFINE old(e) == normalizeLF(edits[e].old)
<1>2. PICK fuzzy \in BOOLEAN :
        fuzzy = (\E e \in DOMAIN edits : Occurrences(base, old(e)) = {})
  OBVIOUS
<1>3. PICK text : text = IF fuzzy THEN Fuzzy(base) ELSE base
  OBVIOUS
<1> DEFINE sought(e) == IF fuzzy THEN Fuzzy(old(e)) ELSE old(e)
<1>4. PICK place : place = [e \in DOMAIN edits |-> Match(base, fuzzy, old(e))]
  OBVIOUS
<1>5. PICK result : result = Applied(base, edits, place)
  OBVIOUS
<1>6. /\ \A e \in DOMAIN edits : /\ old(e) # <<>> /\ Occurrences(text, sought(e)) # {}
                                 /\ ~Several(text, sought(e))
      /\ ~\E d, e \in DOMAIN edits :
            d # e /\ place[d][1] <= place[e][1] /\ place[d][2] > place[e][1]
      /\ EditedText(raw, edits) = IF CRLF(raw) THEN Replaced(result, "lf", "crlf") ELSE result
  BY <1>1, <1>2, <1>3, <1>4, <1>5 DEF EditedText
<1>7. base \in Seq(Clean) /\ base \in Seq(Chars)
  BY <1>1, LineEnds
<1>8. \A e \in DOMAIN edits : old(e) \in Seq(Chars)
  <2>1. \A e \in DOMAIN edits : edits[e].old \in Seq(Chars)
    BY EditTyped
  <2> QED
    BY <2>1, LineEnds
<1>9. ASSUME NEW e \in DOMAIN edits
      PROVE  FoundOnce(base, place[e], old(e), fuzzy)
  <2>1. PICK o \in Seq(Chars) : o = old(e)
    BY <1>8
  <2>2. PICK needle : needle = sought(e)
    OBVIOUS
  <2>3. PICK p : p = place[e]
    OBVIOUS
  <2>4. p = Match(base, fuzzy, o) /\ needle = (IF fuzzy THEN Fuzzy(o) ELSE o)
    BY <1>4, <2>1, <2>2, <2>3
  <2>5. o # <<>> /\ Occurrences(text, needle) # {} /\ ~Several(text, needle)
    BY <1>6, <2>1, <2>2
  <2>6. base \in Seq(Chars) /\ text = (IF fuzzy THEN Fuzzy(base) ELSE base)
    BY <1>3, <1>7
  <2>7. FoundOnce(base, p, o, fuzzy)
    BY ONLY <2>4, <2>5, <2>6, fuzzy \in BOOLEAN, o \in Seq(Chars), MatchFound
  <2> QED
    BY <2>1, <2>3, <2>7
<1>10. place \in [DOMAIN edits -> Places(base)]
  BY <1>4, <1>9 DEF FoundOnce
<1>11. ASSUME NEW d \in DOMAIN edits, NEW e \in DOMAIN edits, d # e
       PROVE  Apart(place[d], place[e])
  <2>1. \A c \in DOMAIN edits : place[c][1] \in Nat /\ place[c][2] \in Nat
    <3>1. \A c \in DOMAIN edits : place[c] \in Places(base)
      BY <1>10
    <3>2. \A p \in Places(base) : p[1] \in Nat /\ p[2] \in Nat
      BY DEF Places
    <3> QED
      BY ONLY <3>1, <3>2
  <2>2. ~(place[d][1] <= place[e][1] /\ place[d][2] > place[e][1])
        /\ ~(place[e][1] <= place[d][1] /\ place[e][2] > place[d][1])
    BY <1>6, <1>11
  <2>3. \A w, x, y, z \in Nat : ~(w <= y /\ x > y) /\ ~(y <= w /\ z > w) => x <= y \/ z <= w
    OBVIOUS
  <2>4. place[d][2] <= place[e][1] \/ place[e][2] <= place[d][1]
    BY ONLY <2>1, <2>2, <2>3, d \in DOMAIN edits, e \in DOMAIN edits
  <2> QED
    BY <2>4 DEF Apart
<1>12. result \in Seq(Clean)
  BY <1>5, <1>7, <1>10, AppliedClean
<1>13. /\ EditedText(raw, edits) \in Seq(Chars)
       /\ normalizeLF(EditedText(raw, edits)) = result
  BY <1>6, <1>12, LineEnds
<1> HIDE DEF old
<1>14. Replaces(base, edits, place, result)
  BY <1>2, <1>5, <1>9, <1>11 DEF Replaces, FoundOnce, old
<1> QED
  BY <1>1, <1>10, <1>13, <1>14

\* A file is its mark and the rest of it.
LEMMA MarkTold ==
  ASSUME NEW raw \in Seq(Chars)
  PROVE  Mark(raw) \in Seq(Chars) /\ WithoutMark(raw) \in Seq(Chars)
<1>1. /\ Len(raw) \in Nat
      /\ \A i \in 1..Len(raw) : raw[i] \in Chars
      /\ raw # <<>> => Len(raw) >= 1
  OBVIOUS
<1>2. Mark(raw) \in Seq(Chars) /\ Len(Mark(raw)) \in {0, 1}
  <2>1. CASE raw # <<>> /\ raw[1] = "bom"
    <3>1. "bom" \in Chars
      BY <1>1, <2>1
    <3>2. Mark(raw) = <<"bom">>
      BY <2>1 DEF Mark
    <3> QED
      BY <3>1, <3>2
  <2>2. CASE ~(raw # <<>> /\ raw[1] = "bom")
    <3>1. Mark(raw) = <<>>
      BY <2>2 DEF Mark
    <3> QED
      BY <3>1
  <2> QED
    BY <2>1, <2>2
<1>3. PICK m \in {0, 1} : m = Len(Mark(raw))
  BY <1>2
<1>4. \A i \in (m + 1)..Len(raw) : raw[i] \in Chars
  BY <1>1
<1>5. SubSeq(raw, m + 1, Len(raw)) \in Seq(Chars)
  BY ONLY <1>1, <1>4, m \in {0, 1}, SubSeqProperties
<1> QED
  BY <1>2, <1>3, <1>5 DEF WithoutMark

LEMMA EditApplied ==
  ASSUME NEW raw \in Seq(Chars), NEW edits \in Seq([old : Seq(Chars), new : Seq(Chars)]),
         applyFileEdits(raw, edits) # <<"error">>
  PROVE  /\ applyFileEdits(raw, edits) \in Seq(Chars)
         /\ Edited(raw, edits, applyFileEdits(raw, edits))
<1>1. PICK mark \in Seq(Chars), body \in Seq(Chars) : mark = Mark(raw) /\ body = WithoutMark(raw)
  BY MarkTold
<1>2. PICK rest : rest = EditedText(body, edits)
  OBVIOUS
<1>3. PICK updated : updated = applyFileEdits(raw, edits)
  OBVIOUS
<1>4. rest # <<"error">> /\ updated = mark \o rest
  BY <1>1, <1>2, <1>3 DEF applyFileEdits
<1>5. rest \in Seq(Chars)
  BY <1>2, <1>4, TextEdited
<1>6. \E place \in [DOMAIN edits -> Places(normalizeLF(body))] :
         Replaces(normalizeLF(body), edits, place, normalizeLF(rest))
  BY <1>2, <1>4, TextEdited
<1>7. /\ updated \in Seq(Chars) /\ Len(updated) = Len(mark) + Len(rest)
      /\ SubSeq(updated, 1, Len(mark)) = mark
      /\ SubSeq(updated, Len(mark) + 1, Len(updated)) = rest
  BY <1>4, <1>5
<1> QED
  BY <1>1, <1>3, <1>6, <1>7 DEF Edited

\* What a call has read is still the file's content when it writes: the lock.
EditInv ==
  /\ file \in Seq(Chars)
  /\ request \in Batches
  /\ lock \in Calls \cup {"none"}
  /\ step \in [Calls -> {"waiting", "locked", "read", "failed", "done"}]
  /\ data \in [Calls -> Seq(Chars)]
  /\ \A c \in Calls : /\ step[c] \in {"locked", "read"} => lock = c
                      /\ step[c] = "read" => data[c] = file

LEMMA RequestTyped ==
  ASSUME NEW r \in Batches, NEW c \in Calls
  PROVE  /\ r[c].content \in Seq(Chars)
         /\ r[c].edits \in Seq([old : Seq(Chars), new : Seq(Chars)])
<1>1. PICK E : E = Seq([old : Seq(Chars), new : Seq(Chars)])
  OBVIOUS
<1>2. PICK S : S = Seq(Chars)
  OBVIOUS
<1>3. r \in [Calls -> [tool : {"edit", "write"}, content : S, edits : E]]
  BY <1>1, <1>2, EditsAssumption
<1>4. r[c].content \in S /\ r[c].edits \in E
  BY ONLY <1>3, c \in Calls
<1> QED
  BY <1>1, <1>2, <1>4

LEMMA EditStart == EditInit => EditInv
<1> SUFFICES ASSUME EditInit PROVE EditInv
  OBVIOUS
<1>1. file \in Seq(Chars) /\ request \in Batches /\ lock = "none"
  BY EditsAssumption DEF EditInit
<1>2. step = [c \in Calls |-> "waiting"]
  BY DEF EditInit
<1>3. data = [c \in Calls |-> <<>>]
  BY DEF EditInit
<1>4. data \in [Calls -> Seq(Chars)]
  BY <1>3
<1> QED
  BY <1>1, <1>2, <1>4 DEF EditInv

LEMMA EditStep == EditInv /\ [EditNext]_editVars => EditInv'
<1> SUFFICES ASSUME EditInv, [EditNext]_editVars PROVE EditInv'
  OBVIOUS
<1> USE DEF EditInv
<1>1. "none" \notin Calls
  BY EditsAssumption
<1>2. CASE UNCHANGED editVars
  BY <1>2 DEF editVars
<1>3. ASSUME NEW c \in Calls, lockFileMutation(c) PROVE EditInv'
  BY <1>1, <1>3 DEF lockFileMutation
<1>4. ASSUME NEW c \in Calls, ReadFile(c) PROVE EditInv'
  BY <1>1, <1>4 DEF ReadFile
<1>5. ASSUME NEW c \in Calls, WriteFile(c) PROVE EditInv'
  <2>1. PICK updated : updated = applyFileEdits(data[c], request[c].edits)
    OBVIOUS
  <2>2. /\ step[c] = "read" /\ UNCHANGED <<request, data>>
        /\ lock' = "none"
        /\ \/ step' = [step EXCEPT ![c] = "failed"] /\ file' = file
           \/ step' = [step EXCEPT ![c] = "done"] /\ file' = updated
                /\ updated # <<"error">>
    BY <1>5, <2>1 DEF WriteFile, End
  <2>3. file' \in Seq(Chars)
    <3>1. data[c] \in Seq(Chars) /\ request[c].edits \in Seq([old : Seq(Chars), new : Seq(Chars)])
      BY RequestTyped
    <3>2. updated # <<"error">> => updated \in Seq(Chars)
      BY <2>1, <3>1, EditApplied
    <3> QED
      BY <2>2, <3>2
  <2>4. \A d \in Calls : d # c => step[d] \notin {"locked", "read"}
    BY <2>2
  <2>5. \A d \in Calls : step'[d] \notin {"locked", "read"}
    BY <2>2, <2>4
  <2> QED
    BY <2>2, <2>3, <2>5
<1>6. ASSUME NEW c \in Calls, write(c) PROVE EditInv'
  <2>1. file' \in Seq(Chars)
    BY <1>6, RequestTyped DEF write
  <2>2. \A d \in Calls : step'[d] \notin {"locked", "read"}
    BY <1>6 DEF write, End
  <2> QED
    BY <1>6, <2>1, <2>2 DEF write, End
<1>7. ASSUME NEW c \in Calls, Abort(c) PROVE EditInv'
  BY <1>1, <1>7 DEF Abort, End
<1> QED
  BY <1>2, <1>3, <1>4, <1>5, <1>6, <1>7 DEF EditNext

\* A successful edit replaces what it was asked to, in the file as it is when it
\* is written, and nothing else: what it read under the lock is still there.
THEOREM EditsReplaceMatches == EditSpec => EditsOnlyMatches
<1> DEFINE Only ==
             \A c \in Calls :
               step[c] = "read" /\ step'[c] = "done" =>
                 Edited(file, request[c].edits, file')
<1>1. ASSUME EditInv, EditNext, NEW c \in Calls, step[c] = "read", step'[c] = "done"
      PROVE  Edited(file, request[c].edits, file')
  <2>1. WriteFile(c)
    <3>1. PICK d \in Calls : lockFileMutation(d) \/ ReadFile(d) \/ WriteFile(d) \/ write(d)
                             \/ Abort(d)
      BY <1>1 DEF EditNext
    <3>2. step \in [Calls -> {"waiting", "locked", "read", "failed", "done"}]
      BY <1>1 DEF EditInv
    <3> QED
      BY <1>1, <3>1, <3>2 DEF lockFileMutation, ReadFile, WriteFile, write, Abort, End
  <2>2. data[c] = file /\ file \in Seq(Chars) /\ request \in Batches
    BY <1>1 DEF EditInv
  <2>3. file' = applyFileEdits(file, request[c].edits) /\ file' # <<"error">>
    <3>1. step \in [Calls -> {"waiting", "locked", "read", "failed", "done"}]
      BY <1>1 DEF EditInv
    <3> QED
      BY <1>1, <2>1, <2>2, <3>1 DEF WriteFile, End
  <2>4. request[c].edits \in Seq([old : Seq(Chars), new : Seq(Chars)])
    BY <2>2, RequestTyped
  <2> QED
    BY <2>2, <2>3, <2>4, EditApplied
<1>2. EditInv /\ [EditNext]_editVars => [Only]_editVars
  BY <1>1
<1> QED
  BY <1>2, EditStart, EditStep, PTL DEF EditSpec, EditsOnlyMatches
=============================================================================
