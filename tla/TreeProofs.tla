------------------------------- MODULE TreeProofs -------------------------------
(***************************************************************************)
(* Theorems about SessionTree, for any entries, sizes and bounds: what the *)
(* provider sees of the tree after any compactions and navigations; and    *)
(* about Forks, for any requests, keys and sources.                        *)
(***************************************************************************)
EXTENDS SessionTree, Forks, Numbers, SequenceTheorems

Kind(i) == treeEntries[i].kind
Ids     == DOMAIN treeEntries

UserBetween(a, t) == \E u \in Ids : a <= u /\ u <= t /\ Kind(u) = "user"

\* What a compaction of the branch keeps from first on: every message but
\* those that controls brought while the provider was asked, and no result
\* without its answer.
Retains(branch, first, tail) ==
  /\ first \in branch
  /\ \A i \in tail : i \in branch /\ i >= first /\ entryMessage(i)
  /\ \A i \in branch : i >= first /\ Kind(i) \in {"assistant", "tool", "custom_message"} =>
       i \in tail
  /\ \A i \in branch : Kind(i) = "tool" /\ treeEntries[i].ref < first /\ first <= i =>
       UserBetween(treeEntries[i].ref, i)

\* On the branch an entry is still shown after its last compaction.
Shown(branch, a) ==
  LET c == LastCompaction(branch)
  IN  c > a => \/ a \in treeEntries[c].tail
               \/ treeEntries[c].tail = {} /\ treeEntries[c].ref <= a

\* Between an answer and what follows there is no message, and it is shown.
Follows(branch, a) == (\A i \in branch : i > a => ~entryMessage(i)) /\ Shown(branch, a)

Entries(es) ==
  /\ es \in Seq(TreeEntry) /\ Len(es) <= MaxEntries
  /\ \A i \in DOMAIN es : es[i].parent < i \/ es[i].parent = NoEntry

TreeTypes ==
  /\ Entries(treeEntries)
  /\ leaf \in Ids \cup {NoEntry} \/ (leaf = 0 /\ treeEntries = <<>>)
  /\ open \in {0, 1} /\ (open = 1 => running /\ work = NoWork)
  /\ waiting \in Seq(1..MaxEntries)
  /\ \/ work = NoWork
     \/ work.op = "compact"
     \/ work.op = "navigate" /\ work.first \in Ids \cup {NoEntry}
  /\ work.op # "none" => work.covers \subseteq 1..MaxEntries

\* What a compaction kept of its branch, and what one that waits for the
\* provider is going to.
CompactionsRetain ==
  \A c \in Ids : Kind(c) = "compaction" =>
    Retains(Path[c] \ {c}, treeEntries[c].ref, treeEntries[c].tail)
PlanRetains ==
  work.op = "compact" => Retains(CurrentBranch, work.first, work.tail)

\* Where a result is, and where the one of an open call is going to be.
FollowsAnswer(branch, t, a) ==
  /\ a \in branch /\ a < t /\ Kind(a) = "assistant"
  /\ UserBetween(a, t) \/ Follows(branch, a)
ResultsFollow ==
  \A t \in Ids : Kind(t) = "tool" => FollowsAnswer(Path[t] \ {t}, t, treeEntries[t].ref)
OpenAnswer ==
  open = 1 => FollowsAnswer(CurrentBranch, Len(treeEntries) + 1, LastAnswer)

\* Until a compaction is done, its plan has every message of the context.
PlanCovers ==
  work.op = "compact" =>
    \A m \in ToSet(Context) : entryMessage(m) =>
      m \in work.tail \/ TextOf(m) \in (work.covers \cup ToSet(waiting))

TreeInv ==
  TreeTypes /\ CompactionsRetain /\ PlanRetains /\ ResultsFollow /\ OpenAnswer /\ PlanCovers

-----------------------------------------------------------------------------
(* Greatest and least elements.                                            *)

LEMMA MaxIs ==
  ASSUME NEW n \in Nat, NEW S \in SUBSET (0..n), S # {}
  PROVE  Max(S) \in S /\ \A y \in S : y <= Max(S)
<1> DEFINE T == {n - x : x \in S}
<1>1. T \in SUBSET Nat /\ T # {}
  OBVIOUS
<1>2. PICK t \in T : \A y \in T : t <= y
  <2> HIDE DEF T
  <2> QED
    BY <1>1, LeastNat
<1>3. PICK x \in S : t = n - x
  OBVIOUS
<1>4. \A y \in S : n - y \in T
  OBVIOUS
<1>5. \A y \in S : x >= y
  BY <1>2, <1>3, <1>4
<1> HIDE DEF T
<1>6. Max(S) \in S /\ \A y \in S : Max(S) >= y
  BY <1>3, <1>5 DEF Max
<1> QED
  BY <1>6

LEMMA MinIs ==
  ASSUME NEW S \in SUBSET Nat, S # {}
  PROVE  Min(S) \in S /\ \A y \in S : Min(S) <= y
<1>1. PICK x \in S : \A y \in S : x <= y
  BY LeastNat
<1> QED
  BY <1>1 DEF Min

-----------------------------------------------------------------------------
(* The paths of a tree of entries.                                         *)

Paths(es, n, f) ==
  f = [i \in 0..NoEntry |-> IF i \in 1..n THEN f[es[i].parent] \cup {i} ELSE {}]

LEMMA EntryFields ==
  ASSUME NEW es, Entries(es), NEW i \in DOMAIN es
  PROVE  /\ i \in 1..MaxEntries /\ i \in Nat /\ DOMAIN es = 1..Len(es) /\ Len(es) \in Nat
         /\ es[i] \in TreeEntry
         /\ es[i].parent \in 0..NoEntry /\ es[i].parent # i
         /\ es[i].parent < i \/ es[i].parent = NoEntry
<1>1. MaxEntries \in Nat /\ NoEntry \in Nat /\ NoEntry > MaxEntries
  BY TreeAssumption DEF NoEntry
<1>2. es \in Seq(TreeEntry) /\ Len(es) <= MaxEntries /\ Len(es) \in Nat /\ DOMAIN es = 1..Len(es)
  BY DEF Entries
<1>3. es[i] \in TreeEntry /\ i \in 1..MaxEntries
  BY <1>1, <1>2
<1>4. es[i].parent \in 0..NoEntry
  BY <1>3 DEF TreeEntry
<1>5. es[i].parent < i \/ es[i].parent = NoEntry
  BY DEF Entries
<1> QED
  BY <1>1, <1>2, <1>3, <1>4, <1>5

LEMMA PathAt ==
  ASSUME NEW es, NEW n, NEW f, Paths(es, n, f), NEW i \in 0..NoEntry
  PROVE  f[i] = IF i \in 1..n THEN f[es[i].parent] \cup {i} ELSE {}
<1> DEFINE g == [k \in 0..NoEntry |-> IF k \in 1..n THEN f[es[k].parent] \cup {k} ELSE {}]
<1>1. f = g
  BY DEF Paths
<1>2. g[i] = IF i \in 1..n THEN f[es[i].parent] \cup {i} ELSE {}
  OBVIOUS
<1> QED
  BY <1>1, <1>2

LEMMA PathsExist ==
  ASSUME NEW es, Entries(es)
  PROVE  \E f : Paths(es, Len(es), f)
<1> DEFINE Gaps == {n \in 0..Len(es) : \A f : ~Paths(es, n, f)}
<1>1. Len(es) \in Nat /\ Len(es) <= MaxEntries /\ DOMAIN es = 1..Len(es)
      /\ MaxEntries \in Nat /\ NoEntry = MaxEntries + 1
  BY TreeAssumption DEF Entries, NoEntry
<1>2. SUFFICES ASSUME Gaps # {} PROVE FALSE
  BY <1>1 DEF Gaps
<1>3. PICK n \in Gaps : \A m \in Gaps : n <= m
  <2>1. Gaps \in SUBSET Nat
    BY <1>1
  <2> HIDE DEF Gaps
  <2> QED
    BY <1>2, <2>1, LeastNat
<1>4. n \in 0..Len(es) /\ \A f : ~Paths(es, n, f)
  BY <1>3
<1>5. CASE n = 0
  <2> DEFINE f == [i \in 0..NoEntry |-> {}]
  <2>1. f = [i \in 0..NoEntry |-> IF i \in 1..0 THEN f[es[i].parent] \cup {i} ELSE {}]
    OBVIOUS
  <2>2. Paths(es, 0, f)
    BY <2>1 DEF Paths
  <2> HIDE DEF f
  <2> QED
    BY <1>4, <1>5, <2>2
<1>6. CASE n # 0
  <2>1. n \in Nat /\ n > 0 /\ n - 1 \in 0..Len(es) /\ n - 1 \notin Gaps /\ n \in DOMAIN es
    BY <1>1, <1>3, <1>4, <1>6
  <2>2. PICK f : Paths(es, n - 1, f)
    BY <2>1
  <2> DEFINE g == [i \in 0..NoEntry |-> IF i = n THEN f[es[n].parent] \cup {n} ELSE f[i]]
  <2>3. ASSUME NEW i \in 0..NoEntry
        PROVE  g[i] = IF i \in 1..n THEN g[es[i].parent] \cup {i} ELSE {}
    <3>1. i \in 1..n =>
            es[i].parent \in 0..NoEntry /\ (es[i].parent < i \/ es[i].parent = NoEntry)
      BY <1>1, <2>1, EntryFields
    <3>2. i \in 1..n => es[i].parent # n
      BY <1>1, <2>1, <3>1
    <3>3. i \in 1..n => g[es[i].parent] = f[es[i].parent]
      BY <3>1, <3>2
    <3>4. CASE i = n
      <4>1. g[i] = f[es[i].parent] \cup {i} /\ i \in 1..n
        BY <2>1, <3>4
      <4> HIDE DEF g
      <4> QED
        BY <3>3, <4>1
    <3>5. CASE i # n
      <4>1. f[i] = IF i \in 1..(n - 1) THEN f[es[i].parent] \cup {i} ELSE {}
        BY <2>2 DEF Paths
      <4>2. i \in 1..(n - 1) <=> i \in 1..n
        BY <1>1, <2>1, <3>5
      <4> QED
        BY <3>3, <3>5, <4>1, <4>2
    <3> QED
      BY <3>4, <3>5
  <2>4. g = [i \in 0..NoEntry |-> g[i]]
    OBVIOUS
  <2> HIDE DEF g
  <2>5. Paths(es, n, g)
    BY <2>3, <2>4 DEF Paths
  <2> QED
    BY <1>4, <2>5
<1> QED
  BY <1>5, <1>6

\* A path ends with its entry, and what it shares with that of one of its
\* entries is all up to there.
LEMMA PathEnds ==
  ASSUME NEW es, Entries(es), NEW f, Paths(es, Len(es), f), NEW i \in DOMAIN es
  PROVE  /\ i \in f[i] /\ f[i] \subseteq 1..i
         /\ \A j \in f[i] : f[j] = f[i] \cap (1..j)
<1> DEFINE Ends(k) == /\ k \in f[k] /\ f[k] \subseteq 1..k
                      /\ \A j \in f[k] : f[j] = f[k] \cap (1..j)
           Gaps == {k \in DOMAIN es : ~Ends(k)}
<1>1. Len(es) \in Nat /\ Len(es) <= MaxEntries /\ DOMAIN es = 1..Len(es)
      /\ MaxEntries \in Nat /\ NoEntry = MaxEntries + 1
  BY TreeAssumption DEF Entries, NoEntry
<1>2. SUFFICES ASSUME Gaps # {} PROVE FALSE
  OBVIOUS
<1>3. PICK n \in Gaps : \A m \in Gaps : n <= m
  <2>1. Gaps \in SUBSET Nat
    BY <1>1
  <2> HIDE DEF Gaps
  <2> QED
    BY <1>2, <2>1, LeastNat
<1> DEFINE p == es[n].parent
<1>4. n \in DOMAIN es /\ ~Ends(n) /\ n \in Nat
  BY <1>1, <1>3
<1>5. p \in 0..NoEntry /\ (p < n \/ p = NoEntry)
  BY <1>4, EntryFields
<1>6. f[n] = f[p] \cup {n}
  <2>1. n \in 0..NoEntry /\ n \in 1..Len(es)
    BY <1>1, <1>4
  <2> QED
    BY <2>1, PathAt
<1>7. p \notin DOMAIN es => f[p] = {}
  BY <1>1, <1>5 DEF Paths
<1>8. p \in DOMAIN es => Ends(p) /\ p < n
  <2> SUFFICES ASSUME p \in DOMAIN es PROVE Ends(p) /\ p < n
    OBVIOUS
  <2>1. p < n
    BY <1>1, <1>5
  <2>2. p \notin Gaps
    BY <1>1, <1>3, <1>4, <2>1
  <2> QED
    BY <2>1, <2>2
<1>9. f[p] \subseteq 1..(n - 1) /\ \A j \in f[p] : f[j] = f[p] \cap (1..j)
  <2>1. CASE p \in DOMAIN es
    <3> HIDE DEF p
    <3>1. f[p] \subseteq 1..p
      BY <1>8, <2>1
    <3> QED
      BY <1>1, <1>4, <1>8, <2>1, <3>1
  <2>2. CASE p \notin DOMAIN es
    BY <1>7, <2>2
  <2> QED
    BY <2>1, <2>2
<1>10. Ends(n)
  <2> HIDE DEF p
  <2>1. n \in f[n] /\ f[n] \subseteq 1..n
    BY <1>4, <1>6, <1>9
  <2>2. ASSUME NEW j \in f[n] PROVE f[j] = f[n] \cap (1..j)
    <3>1. CASE j = n
      BY <2>1, <3>1
    <3>2. CASE j # n
      <4>1. j \in f[p] /\ j \in 1..(n - 1)
        BY <1>6, <1>9, <3>2
      <4>2. n \notin 1..j
        BY <1>4, <4>1
      <4> QED
        BY <1>6, <1>9, <4>1, <4>2
    <3> QED
      BY <3>1, <3>2
  <2> QED
    BY <2>1, <2>2
<1> QED
  BY <1>4, <1>10

PathFor(es) == CHOOSE f : f = [i \in 0..NoEntry |->
                 IF i \in DOMAIN es THEN f[es[i].parent] \cup {i} ELSE {}]

LEMMA PathChosen ==
  ASSUME NEW es, Entries(es)
  PROVE  Paths(es, Len(es), PathFor(es))
<1>1. DOMAIN es = 1..Len(es)
  BY DEF Entries
<1>2. PICK f : Paths(es, Len(es), f)
  BY PathsExist
<1>3. f = [i \in 0..NoEntry |-> IF i \in DOMAIN es THEN f[es[i].parent] \cup {i} ELSE {}]
  BY <1>1, <1>2 DEF Paths
<1> DEFINE P(g) == g = [i \in 0..NoEntry |->
                          IF i \in DOMAIN es THEN g[es[i].parent] \cup {i} ELSE {}]
<1>4. P(CHOOSE g : P(g))
  <2>1. P(f)
    BY <1>3
  <2> HIDE DEF P
  <2> QED
    BY <2>1
<1> QED
  BY <1>1, <1>4 DEF Paths, PathFor

LEMMA PathIs ==
  ASSUME Entries(treeEntries)
  PROVE  /\ Paths(treeEntries, Len(treeEntries), Path)
         /\ Path[0] = {} /\ Path[NoEntry] = {}
<1>1. Paths(treeEntries, Len(treeEntries), Path)
  BY PathChosen DEF Path, PathFor
<1>2. Len(treeEntries) \in Nat /\ Len(treeEntries) <= MaxEntries /\ MaxEntries \in Nat
      /\ NoEntry = MaxEntries + 1
  BY TreeAssumption DEF Entries, NoEntry
<1>3. 0 \in 0..NoEntry /\ NoEntry \in 0..NoEntry
      /\ 0 \notin 1..Len(treeEntries) /\ NoEntry \notin 1..Len(treeEntries)
  BY <1>2
<1> QED
  BY <1>1, <1>3, PathAt

\* A branch: some entries, and all before each of them.
Rooted(branch) == branch \subseteq Ids /\ \A j \in branch : Path[j] = branch \cap (1..j)

LEMMA BranchesRooted ==
  ASSUME TreeTypes
  PROVE  /\ CurrentBranch = Path[leaf] /\ Rooted(CurrentBranch)
         /\ \A i \in Ids : /\ Rooted(Path[i]) /\ Rooted(Path[i] \ {i})
                           /\ i \in Path[i] /\ Path[i] \subseteq 1..i
<1>1. Entries(treeEntries) /\ Paths(treeEntries, Len(treeEntries), Path)
      /\ Path[0] = {} /\ Path[NoEntry] = {} /\ Ids = 1..Len(treeEntries)
      /\ Len(treeEntries) \in Nat /\ NoEntry \in Nat \ {0}
  BY PathIs, TreeAssumption DEF TreeTypes, Entries, Ids, NoEntry
<1>2. ASSUME NEW i \in Ids
      PROVE  /\ Rooted(Path[i]) /\ Rooted(Path[i] \ {i})
             /\ i \in Path[i] /\ Path[i] \subseteq 1..i
  <2>1. /\ i \in Path[i] /\ Path[i] \subseteq 1..i
        /\ \A j \in Path[i] : Path[j] = Path[i] \cap (1..j)
    BY <1>1, <1>2, PathEnds DEF Ids
  <2>2. 1..i \subseteq Ids /\ i \in Nat
    BY <1>1
  <2>3. Rooted(Path[i])
    BY <2>1, <2>2 DEF Rooted
  <2>4. ASSUME NEW j \in Path[i] \ {i} PROVE Path[j] = (Path[i] \ {i}) \cap (1..j)
    <3>1. j \in 1..i /\ i \notin 1..j
      BY <2>1, <2>2
    <3> QED
      BY <2>1, <3>1
  <2>5. Rooted(Path[i] \ {i})
    BY <2>1, <2>2, <2>4 DEF Rooted
  <2> QED
    BY <2>1, <2>3, <2>5
<1>3. CurrentBranch = Path[leaf] /\ Rooted(CurrentBranch)
  <2>1. CASE leaf \in Ids
    <3>1. leaf # 0
      BY <1>1, <2>1
    <3> QED
      BY <1>2, <2>1, <3>1 DEF CurrentBranch, branchEntries
  <2>2. CASE leaf = NoEntry
    BY <1>1, <2>2 DEF CurrentBranch, branchEntries, Rooted
  <2>3. CASE leaf = 0 /\ treeEntries = <<>>
    <3>1. Ids = {}
      BY <2>3 DEF Ids
    <3> QED
      BY <1>1, <2>3, <3>1 DEF CurrentBranch, branchEntries, Rooted, Ids
  <2> QED
    BY <2>1, <2>2, <2>3 DEF TreeTypes
<1> QED
  BY <1>2, <1>3

\* An appended entry changes no other path.
LEMMA PathAppended ==
  ASSUME Entries(treeEntries), NEW e, treeEntries' = Append(treeEntries, e),
         Entries(treeEntries')
  PROVE  /\ \A i \in Ids \cup {0, NoEntry} : Path'[i] = Path[i]
         /\ Path'[Len(treeEntries) + 1] = Path[e.parent] \cup {Len(treeEntries) + 1}
         /\ Ids' = Ids \cup {Len(treeEntries) + 1} /\ Len(treeEntries') = Len(treeEntries) + 1
         /\ Len(treeEntries) + 1 \notin Ids
         /\ \A i \in Ids : treeEntries'[i] = treeEntries[i]
         /\ treeEntries'[Len(treeEntries) + 1] = e
<1> DEFINE n == Len(treeEntries)
<1>1. /\ Paths(treeEntries, n, Path) /\ Paths(treeEntries', Len(treeEntries'), Path')
      /\ Path[0] = {} /\ Path[NoEntry] = {}
  <2>1. Paths(treeEntries', Len(treeEntries'), Path')
    <3>1. Paths(treeEntries', Len(treeEntries'), PathFor(treeEntries'))
      BY PathChosen
    <3>2. Path' = PathFor(treeEntries')
      BY DEF Path, PathFor
    <3> QED
      BY <3>1, <3>2
  <2> QED
    BY <2>1, PathIs
<1>2. /\ n \in Nat /\ Ids = 1..n /\ MaxEntries \in Nat /\ NoEntry = MaxEntries + 1
      /\ treeEntries \in Seq(TreeEntry)
  BY TreeAssumption DEF Entries, NoEntry, Ids
<1>3. /\ Len(treeEntries') = n + 1 /\ \A i \in Ids : treeEntries'[i] = treeEntries[i]
      /\ treeEntries'[n + 1] = e /\ n + 1 <= MaxEntries /\ DOMAIN treeEntries' = 1..(n + 1)
  <2>1. treeEntries' \in Seq(TreeEntry) /\ Len(treeEntries') <= MaxEntries
    BY DEF Entries
  <2> QED
    BY <1>2, <2>1
<1>4. Ids' = Ids \cup {n + 1} /\ n + 1 \notin Ids
  BY <1>2, <1>3 DEF Ids
<1>5. Path'[0] = {} /\ Path'[NoEntry] = {}
  <2>1. 0 \in 0..NoEntry /\ NoEntry \in 0..NoEntry
        /\ 0 \notin 1..Len(treeEntries') /\ NoEntry \notin 1..Len(treeEntries')
    BY <1>2, <1>3
  <2> QED
    BY <1>1, <2>1, PathAt
<1> HIDE DEF n
<1> DEFINE Gaps == {i \in Ids : Path'[i] # Path[i]}
<1>6. ASSUME Gaps # {} PROVE FALSE
  <2>1. PICK k \in Gaps : \A m \in Gaps : k <= m
    <3>1. Gaps \in SUBSET Nat
      BY <1>2
    <3> HIDE DEF Gaps
    <3> QED
      BY <1>6, <3>1, LeastNat
  <2>2. k \in Ids /\ Path'[k] # Path[k] /\ k \in 1..n /\ k \in Nat /\ k \in 0..NoEntry
        /\ k \in 1..Len(treeEntries')
    BY <1>2, <1>3, <2>1
  <2> DEFINE p == treeEntries[k].parent
  <2>3. p \in 0..NoEntry /\ (p < k \/ p = NoEntry)
    BY <2>2, EntryFields DEF Ids
  <2>4. Path[k] = Path[p] \cup {k} /\ Path'[k] = Path'[p] \cup {k}
    <3>1. Path[k] = Path[p] \cup {k}
      BY <1>1, <2>2, PathAt
    <3>2. Path'[k] = Path'[treeEntries'[k].parent] \cup {k}
      BY <1>1, <2>2, PathAt
    <3> QED
      BY <1>3, <2>2, <3>1, <3>2
  <2>5. Path'[p] = Path[p]
    <3>1. CASE p = 0 \/ p = NoEntry
      BY <1>1, <1>5, <3>1
    <3>2. CASE p # 0 /\ p # NoEntry
      <4>1. p \in Ids /\ p \notin Gaps
        BY <1>2, <2>1, <2>2, <2>3, <3>2
      <4> QED
        BY <4>1
    <3> QED
      BY <3>1, <3>2
  <2> QED
    BY <2>2, <2>4, <2>5
<1>7. \A i \in Ids \cup {0, NoEntry} : Path'[i] = Path[i]
  BY <1>1, <1>5, <1>6
<1>8. Path'[n + 1] = Path[e.parent] \cup {n + 1}
  <2>1. n + 1 \in 0..NoEntry /\ n + 1 \in 1..Len(treeEntries') /\ n + 1 \in DOMAIN treeEntries'
    BY <1>2, <1>3
  <2>2. Path'[n + 1] = Path'[e.parent] \cup {n + 1}
    <3>1. Path'[n + 1] = Path'[treeEntries'[n + 1].parent] \cup {n + 1}
      BY <1>1, <2>1, PathAt
    <3> QED
      BY <1>3, <3>1
  <2>3. e.parent \in 0..NoEntry /\ (e.parent < n + 1 \/ e.parent = NoEntry)
    <3> DEFINE es == treeEntries'
    <3>1. Entries(es) /\ n + 1 \in DOMAIN es /\ es[n + 1] = e
      BY <1>3, <2>1
    <3> HIDE DEF es
    <3> QED
      BY <3>1, EntryFields
  <2>4. e.parent \in Ids \cup {0, NoEntry}
    BY <1>2, <2>3
  <2> QED
    BY <1>7, <2>2, <2>4
<1> QED
  BY <1>3, <1>4, <1>7, <1>8 DEF n

-----------------------------------------------------------------------------
(* What the provider sees of a branch.                                     *)

LEMMA LastCompactionIs ==
  ASSUME Entries(treeEntries), NEW B, B \subseteq Ids
  PROVE  LET c == LastCompaction(B)
         IN  /\ c \in Nat /\ (c = 0 \/ (c \in B /\ Kind(c) = "compaction"))
             /\ \A i \in B : Kind(i) = "compaction" => c > 0 /\ i <= c
<1> DEFINE S == {i \in B : treeEntries[i].kind = "compaction"}
<1>1. Len(treeEntries) \in Nat /\ Ids = 1..Len(treeEntries)
  BY DEF Entries, Ids
<1>2. S \in SUBSET (0..Len(treeEntries)) /\ \A i \in S : i \in Nat /\ i > 0 /\ i \in B
  <2>1. \A i \in Ids : i \in 0..Len(treeEntries) /\ i \in Nat /\ i > 0
    BY <1>1
  <2>2. S \subseteq B /\ B \subseteq Ids
    OBVIOUS
  <2> HIDE DEF S
  <2> QED
    BY <2>1, <2>2
<1>3. LastCompaction(B) = IF S = {} THEN 0 ELSE Max(S)
  BY DEF LastCompaction, Greatest
<1>4. ASSUME S # {} PROVE Max(S) \in S /\ \A y \in S : y <= Max(S)
  <2> HIDE DEF S
  <2> QED
    BY <1>1, <1>2, <1>4, MaxIs
<1>5. \A i \in B : Kind(i) = "compaction" <=> i \in S
  BY DEF Kind
<1> HIDE DEF S
<1>6. CASE S = {}
  BY <1>3, <1>5, <1>6
<1>7. CASE S # {}
  <2>1. LastCompaction(B) = Max(S) /\ Max(S) \in S /\ \A y \in S : y <= Max(S)
    BY <1>3, <1>4, <1>7
  <2>2. Max(S) \in B /\ Max(S) \in Nat /\ Max(S) > 0 /\ Kind(Max(S)) = "compaction"
    BY <1>2, <1>5, <2>1
  <2> QED
    BY <1>5, <2>1, <2>2
<1> QED
  BY <1>6, <1>7

\* The tail that the last compaction of a branch kept, and from where the
\* entries after it are shown.
TailOf(B)  == IF LastCompaction(B) = 0 THEN {} ELSE treeEntries[LastCompaction(B)].tail
StartOf(B) == IF TailOf(B) = {} THEN FirstKept(B) ELSE LastCompaction(B) + 1

\* What the last compaction of a branch says holds of the branch.
LEMMA KeptBranch ==
  ASSUME TreeTypes, CompactionsRetain, NEW B, Rooted(B)
  PROVE  LET c == LastCompaction(B)
             r == FirstKept(B)
         IN  /\ c = 0 => r = 0 /\ TailOf(B) = {}
             /\ c > 0 =>
                  /\ c \in B /\ Kind(c) = "compaction" /\ treeEntries[c].ref = r
                  /\ r \in B /\ r < c /\ treeEntries[c].tail = TailOf(B)
             /\ \A i \in TailOf(B) : i \in B /\ i < c /\ r <= i /\ entryMessage(i)
             /\ \A i \in B : /\ r <= i /\ i < c
                             /\ Kind(i) \in {"assistant", "tool", "custom_message"}
                             => i \in TailOf(B)
             /\ \A i \in B : /\ i < c /\ Kind(i) = "tool" /\ treeEntries[i].ref < r /\ r <= i
                             => UserBetween(treeEntries[i].ref, i)
             /\ r \in Nat /\ c \in Nat
<1> DEFINE c == LastCompaction(B)
           r == treeEntries[c].ref
<1>1. Entries(treeEntries) /\ B \subseteq Ids /\ Ids \subseteq Nat \ {0}
  BY DEF TreeTypes, Entries, Rooted, Ids
<1>2. /\ c \in Nat /\ (c = 0 \/ (c \in B /\ Kind(c) = "compaction"))
      /\ \A i \in B : Kind(i) = "compaction" => c > 0 /\ i <= c
  BY <1>1, LastCompactionIs
<1>3. CASE c = 0
  BY <1>1, <1>2, <1>3 DEF FirstKept, TailOf
<1>4. CASE c # 0
  <2>1. c \in B /\ c \in Ids /\ Kind(c) = "compaction" /\ c > 0
    BY <1>1, <1>2, <1>4
  <2>2. Retains(Path[c] \ {c}, r, treeEntries[c].tail)
    BY <2>1 DEF CompactionsRetain
  <2>3. Path[c] = B \cap (1..c)
    BY <2>1 DEF Rooted
  <2>4. \A i : i \in Path[c] \ {c} <=> i \in B /\ i < c
    <3>1. \A i \in B : i \in Nat \ {0}
      BY <1>1
    <3>2. \A i \in B : i \in 1..c /\ i # c <=> i < c
      BY <1>2, <3>1
    <3> QED
      BY <2>3, <3>2
  <2>5. r \in B /\ r < c
    BY <2>2, <2>4 DEF Retains
  <2>6. FirstKept(B) = r /\ TailOf(B) = treeEntries[c].tail
    BY <1>4, <2>1, <2>5 DEF FirstKept, TailOf
  <2>7. r \in Nat
    BY <1>1, <2>5
  <2> HIDE DEF c
  <2> QED
    BY <1>4, <2>1, <2>2, <2>4, <2>5, <2>6, <2>7, <1>2 DEF Retains, c
<1> QED
  BY <1>3, <1>4

\* A sequence of numbers that are in order, but for c.
Rising(s, c) ==
  /\ s \in Seq(Nat) /\ IsInjective(s)
  /\ \A i, j \in DOMAIN s : s[i] # c /\ s[j] # c /\ s[j] < s[i] => j < i

LEMMA OrderedRising ==
  ASSUME NEW n \in Nat, NEW S \in SUBSET (0..n), NEW c
  PROVE  Rising(Ordered(S), c) /\ ToSet(Ordered(S)) = S
<1> DEFINE s == Ordered(S)
           m == Cardinality(S)
<1>1. IsFiniteSet(S) /\ S \in SUBSET Nat
  <2>1. IsFiniteSet(0..n) /\ 0..n \subseteq Nat
    BY FS_Interval
  <2> QED
    BY <2>1, FS_Subset
<1>2. /\ m \in Nat /\ s \in [1..m -> S]
      /\ \A i \in S : \E k \in 1..m : s[k] = i
      /\ \A k \in 1..m : \A j \in 1..(k - 1) : s[j] < s[k]
  BY <1>1, Sorted DEF Ordered
<1> HIDE DEF s, m
<1>3. DOMAIN s = 1..m /\ s \in Seq(Nat)
  <2>1. s \in [1..m -> Nat]
    BY <1>1, <1>2
  <2> QED
    BY <1>2, <2>1
<1>4. ASSUME NEW i \in 1..m, NEW j \in 1..m, i < j PROVE s[i] < s[j]
  BY <1>2, <1>4
<1>5. \A i \in 1..m : s[i] \in Nat /\ i \in Nat
  <2>1. \A i \in 1..m : s[i] \in S
    BY <1>2
  <2>2. \A i \in 1..m : s[i] \in Nat
    BY <1>1, <2>1
  <2> QED
    BY <1>2, <2>2
<1>6. \A i, j \in 1..m : (s[i] = s[j] => i = j) /\ (s[j] < s[i] => j < i)
  BY <1>4, <1>5
<1>7. ToSet(s) = S
  BY <1>2, <1>3 DEF ToSet
<1> QED
  BY <1>3, <1>6, <1>7 DEF Rising, IsInjective, s

Ahead(s, t, c) ==
  /\ ToSet(s) \cap ToSet(t) = {}
  /\ \A x \in ToSet(s), y \in ToSet(t) : x # c /\ y # c => x < y

LEMMA Joined ==
  ASSUME NEW c, NEW s, NEW t, Rising(s, c), Rising(t, c), Ahead(s, t, c)
  PROVE  Rising(s \o t, c) /\ ToSet(s \o t) = ToSet(s) \cup ToSet(t)
<1> DEFINE u == s \o t
           m == Len(s)
           n == Len(t)
<1>1. s \in Seq(Nat) /\ t \in Seq(Nat) /\ m \in Nat /\ n \in Nat
      /\ DOMAIN s = 1..m /\ DOMAIN t = 1..n
  BY DEF Rising
<1>2. u \in Seq(Nat) /\ DOMAIN u = 1..(m + n)
      /\ \A i \in 1..(m + n) : u[i] = IF i <= m THEN s[i] ELSE t[i - m]
  BY <1>1
<1> HIDE DEF u, m, n
<1>3. \A i \in 1..(m + n) :
        IF i <= m THEN i \in DOMAIN s /\ u[i] = s[i]
        ELSE i - m \in DOMAIN t /\ u[i] = t[i - m]
  BY <1>1, <1>2
<1>4. ToSet(u) = ToSet(s) \cup ToSet(t)
  <2>1. ToSet(u) \subseteq ToSet(s) \cup ToSet(t)
    BY <1>2, <1>3 DEF ToSet
  <2>2. \A i \in DOMAIN s : i \in 1..(m + n) /\ u[i] = s[i]
    BY <1>1, <1>2
  <2>3. \A i \in DOMAIN t : i + m \in 1..(m + n) /\ u[i + m] = t[i]
    BY <1>1, <1>2
  <2>4. ToSet(s) \subseteq ToSet(u) /\ ToSet(t) \subseteq ToSet(u)
    <3>1. \A i \in DOMAIN s : s[i] \in ToSet(u)
      BY <1>2, <2>2 DEF ToSet
    <3>2. \A i \in DOMAIN t : t[i] \in ToSet(u)
      BY <1>2, <2>3 DEF ToSet
    <3>3. \A x \in ToSet(s) : \E i \in DOMAIN s : x = s[i]
      BY DEF ToSet
    <3>4. \A x \in ToSet(t) : \E i \in DOMAIN t : x = t[i]
      BY DEF ToSet
    <3> QED
      BY <3>1, <3>2, <3>3, <3>4
  <2> QED
    BY <2>1, <2>4
<1>5. \A i \in DOMAIN s : s[i] \in ToSet(s)
  BY DEF ToSet
<1>6. \A i \in DOMAIN t : t[i] \in ToSet(t)
  BY DEF ToSet
<1>7. \A i \in 1..(m + n) : u[i] \in Nat /\ i \in Nat
  BY <1>1, <1>2
<1>8. ASSUME NEW i \in 1..(m + n), NEW j \in 1..(m + n), u[i] = u[j] PROVE i = j
  <2>1. CASE i <= m /\ j <= m
    BY <1>3, <1>8, <2>1 DEF Rising, IsInjective
  <2>2. CASE ~(i <= m) /\ ~(j <= m)
    <3>1. i - m = j - m
      BY <1>3, <1>8, <2>2 DEF Rising, IsInjective
    <3> QED
      BY <1>1, <3>1
  <2>3. CASE (i <= m /\ ~(j <= m)) \/ (~(i <= m) /\ j <= m)
    BY <1>3, <1>5, <1>6, <1>8, <2>3 DEF Ahead
  <2> QED
    BY <2>1, <2>2, <2>3
<1>9. ASSUME NEW i \in 1..(m + n), NEW j \in 1..(m + n), u[i] # c, u[j] # c, u[j] < u[i]
      PROVE  j < i
  <2>1. CASE i <= m /\ j <= m
    BY <1>3, <1>9, <2>1 DEF Rising
  <2>2. CASE ~(i <= m) /\ ~(j <= m)
    <3>1. j - m < i - m
      BY <1>3, <1>9, <2>2 DEF Rising
    <3> QED
      BY <1>1, <1>7, <3>1
  <2>3. CASE i <= m /\ ~(j <= m)
    <3>1. u[i] < u[j]
      BY <1>3, <1>5, <1>6, <1>9, <2>3 DEF Ahead
    <3> QED
      BY <1>7, <1>9, <3>1
  <2>4. CASE ~(i <= m) /\ j <= m
    BY <1>1, <1>7, <2>4
  <2> QED
    BY <2>1, <2>2, <2>3, <2>4
<1>10. Rising(u, c)
  BY <1>2, <1>8, <1>9 DEF Rising, IsInjective
<1> QED
  BY <1>4, <1>10 DEF u

\* The context of a branch: the summary, the entries that the compaction kept
\* word for word, and those after it, in order.
LEMMA ContextIs ==
  ASSUME TreeTypes, CompactionsRetain, NEW B, Rooted(B)
  PROVE  LET c == LastCompaction(B)
             M == messagesFromBranch(B)
         IN  /\ Rising(M, c)
             /\ ToSet(M) = (IF c = 0 THEN {} ELSE {c}) \cup TailOf(B) \cup Spoken(B, StartOf(B))
             /\ ToSet(M) \subseteq B
<1> DEFINE c == LastCompaction(B)
           n == Len(treeEntries)
           S == Spoken(B, StartOf(B))
           h == IF c = 0 THEN <<>> ELSE <<c>>
<1>1. n \in Nat /\ B \subseteq 0..n /\ \A i \in B : i \in Nat
  <2>1. n \in Nat /\ Ids = 1..n /\ B \subseteq Ids
    BY DEF TreeTypes, Entries, Ids, Rooted
  <2>2. 1..n \subseteq 0..n /\ \A i \in 0..n : i \in Nat
    BY <2>1
  <2> QED
    BY <2>1, <2>2
<1>2. /\ c \in Nat /\ (c # 0 => c \in B /\ Kind(c) = "compaction")
      /\ \A i \in TailOf(B) : i \in B /\ i < c /\ entryMessage(i)
      /\ FirstKept(B) \in Nat
  BY <1>1, KeptBranch
<1>3. messagesFromBranch(B) = (h \o Ordered(TailOf(B))) \o Ordered(S)
  BY DEF messagesFromBranch, TailOf, StartOf
<1>4. Rising(h, c) /\ ToSet(h) = (IF c = 0 THEN {} ELSE {c})
  <2>1. CASE c = 0
    BY <2>1 DEF Rising, ToSet, IsInjective
  <2>2. CASE c # 0
    <3>1. h = <<c>> /\ h \in Seq(Nat) /\ DOMAIN h = {1} /\ h[1] = c
      BY <1>2, <2>2
    <3> HIDE DEF h
    <3> QED
      BY <2>2, <3>1 DEF Rising, ToSet, IsInjective
  <2> QED
    BY <2>1, <2>2
<1>5. Rising(Ordered(TailOf(B)), c) /\ ToSet(Ordered(TailOf(B))) = TailOf(B)
  <2>1. TailOf(B) \in SUBSET (0..n)
    BY <1>1, <1>2
  <2> QED
    BY <1>1, <2>1, OrderedRising
<1>6. S \subseteq B /\ \A i \in S : i >= StartOf(B) /\ Kind(i) # "compaction"
  BY DEF Spoken, entryMessage, Speakers, Kind
<1>7. Rising(Ordered(S), c) /\ ToSet(Ordered(S)) = S
  <2>1. S \in SUBSET (0..n)
    BY <1>1, <1>6
  <2> HIDE DEF S
  <2> QED
    BY <1>1, <2>1, OrderedRising
<1>8. \A i \in TailOf(B) : i # c /\ Kind(i) # "compaction"
  BY <1>2 DEF entryMessage, Speakers, Kind
<1> HIDE DEF h, S
<1>9. Rising(h \o Ordered(TailOf(B)), c) /\ ToSet(h \o Ordered(TailOf(B))) = ToSet(h) \cup TailOf(B)
  <2>1. ToSet(h) \cap TailOf(B) = {} /\ \A x \in ToSet(h) : x = c
    BY <1>4, <1>8
  <2>2. Ahead(h, Ordered(TailOf(B)), c)
    BY <1>5, <2>1 DEF Ahead
  <2> HIDE DEF c
  <2> QED
    BY <1>4, <1>5, <2>2, Joined
<1>10. ASSUME NEW x \in TailOf(B), NEW y \in S PROVE x < y
  <2>1. StartOf(B) = c + 1
    BY <1>10 DEF StartOf
  <2>2. x \in Nat /\ x < c
    BY <1>1, <1>2
  <2>3. y \in Nat /\ y >= c + 1
    BY <1>1, <1>6, <2>1
  <2> QED
    BY <1>2, <2>2, <2>3
<1>11. c # 0 => c \notin S
  BY <1>2, <1>6
<1>12. Rising(messagesFromBranch(B), c)
       /\ ToSet(messagesFromBranch(B)) = ToSet(h) \cup TailOf(B) \cup S
  <2> DEFINE s == h \o Ordered(TailOf(B))
             t == Ordered(S)
  <2>1. Rising(s, c) /\ Rising(t, c) /\ ToSet(s) = ToSet(h) \cup TailOf(B) /\ ToSet(t) = S
    BY <1>7, <1>9
  <2>2. ToSet(s) \cap ToSet(t) = {}
    <3>1. \A x \in TailOf(B) : x \in Nat
      BY <1>1, <1>2
    <3>2. TailOf(B) \cap S = {}
      BY <1>10, <3>1
    <3>3. ToSet(h) \cap S = {}
      BY <1>4, <1>11
    <3> HIDE DEF s, t
    <3> QED
      BY <2>1, <3>2, <3>3
  <2>3. Ahead(s, t, c)
    <3>1. \A x \in ToSet(s) : x # c => x \in TailOf(B)
      BY <1>4, <2>1
    <3> HIDE DEF s, t, c
    <3> QED
      BY <1>10, <2>1, <2>2, <3>1 DEF Ahead
  <2> HIDE DEF s, t, c
  <2>4. Rising(s \o t, c) /\ ToSet(s \o t) = ToSet(s) \cup ToSet(t)
    BY <2>1, <2>3, Joined
  <2> QED
    BY <1>3, <2>1, <2>4 DEF s, t
<1> QED
  BY <1>2, <1>4, <1>6, <1>12 DEF S

\* A branch has the answer of each of its results.
LEMMA ResultOnBranch ==
  ASSUME TreeTypes, ResultsFollow, NEW B, Rooted(B), NEW t \in B, Kind(t) = "tool"
  PROVE  LET a == treeEntries[t].ref
         IN  /\ a \in B /\ a < t /\ a \in Nat /\ t \in Nat /\ Kind(a) = "assistant"
             /\ UserBetween(a, t) \/ Follows(Path[t] \ {t}, a)
             /\ \A j : j \in Path[t] \ {t} <=> j \in B /\ j < t
<1> DEFINE a == treeEntries[t].ref
<1>1. Ids \subseteq Nat \ {0} /\ t \in Ids /\ B \subseteq Ids
  BY DEF TreeTypes, Entries, Rooted, Ids
<1>2. a \in Path[t] /\ a < t /\ Kind(a) = "assistant"
      /\ (UserBetween(a, t) \/ Follows(Path[t] \ {t}, a))
  BY <1>1 DEF ResultsFollow, FollowsAnswer
<1>3. Path[t] = B \cap (1..t)
  BY DEF Rooted
<1>4. \A j \in B : j \in 1..t /\ j # t <=> j < t
  <2>1. \A j \in B : j \in Nat \ {0}
    BY <1>1
  <2> QED
    BY <1>1, <2>1
<1> QED
  BY <1>1, <1>2, <1>3, <1>4

\* A result shown without its answer has a user's message between the two.
LEMMA OldResults ==
  ASSUME TreeTypes, CompactionsRetain, ResultsFollow, NEW B, Rooted(B),
         NEW t \in B, Kind(t) = "tool",
         treeEntries[t].ref < FirstKept(B), FirstKept(B) <= t
  PROVE  UserBetween(treeEntries[t].ref, t)
<1> DEFINE a == treeEntries[t].ref
           c == LastCompaction(B)
           r == FirstKept(B)
           X == Path[t] \ {t}
<1>1. /\ a \in B /\ a < t /\ a \in Nat /\ t \in Nat /\ Kind(a) = "assistant"
      /\ UserBetween(a, t) \/ Follows(X, a)
      /\ \A j : j \in X <=> j \in B /\ j < t
  BY ResultOnBranch
<1>2. c \in Nat /\ r \in Nat /\ c > 0
  BY <1>1, KeptBranch
<1>3. /\ c \in B /\ Kind(c) = "compaction" /\ treeEntries[c].ref = r /\ r < c
      /\ treeEntries[c].tail = TailOf(B) /\ \A i \in TailOf(B) : r <= i
      /\ t < c => UserBetween(a, t)
  BY <1>2, KeptBranch
<1>4. CASE t < c
  BY <1>3, <1>4
<1>5. CASE c < t
  <2>1. c \in X
    BY <1>1, <1>3, <1>5
  <2>2. X \subseteq Ids /\ B \subseteq Ids /\ Entries(treeEntries)
    BY <1>1 DEF Rooted, TreeTypes
  <2>3. LastCompaction(X) = c
    <3>1. /\ LastCompaction(X) \in Nat /\ c <= LastCompaction(X) /\ LastCompaction(X) \in X
          /\ Kind(LastCompaction(X)) = "compaction"
      BY <1>2, <1>3, <2>1, <2>2, LastCompactionIs
    <3>2. LastCompaction(X) <= c
      BY <1>1, <2>2, <3>1, LastCompactionIs
    <3> QED
      BY <1>2, <3>1, <3>2
  <2>4. ~Shown(X, a)
    <3>1. c > a
      BY <1>1, <1>2, <1>3
    <3>2. a \notin TailOf(B)
      BY <1>1, <1>2, <1>3
    <3>3. ~(r <= a)
      BY <1>1, <1>2
    <3> HIDE DEF c, a, r, X
    <3> QED
      BY <1>3, <2>3, <3>1, <3>2, <3>3 DEF Shown
  <2> QED
    BY <1>1, <2>4 DEF Follows
<1>6. t # c
  BY <1>3
<1> QED
  BY <1>1, <1>2, <1>4, <1>5, <1>6

LEMMA ContextStands ==
  ASSUME TreeInv
  PROVE  ContextOnBranch /\ ResultsKeepAnswers
<1> DEFINE B == CurrentBranch
           c == LastCompaction(B)
<1>1. TreeTypes /\ CompactionsRetain /\ ResultsFollow /\ Rooted(B)
  BY BranchesRooted DEF TreeInv
<1>2. /\ Rising(Context, c)
      /\ ToSet(Context) = (IF c = 0 THEN {} ELSE {c}) \cup TailOf(B) \cup Spoken(B, StartOf(B))
      /\ ToSet(Context) \subseteq B
  BY <1>1, ContextIs DEF Context
<1>3. ContextOnBranch
  BY <1>2 DEF ContextOnBranch, Rising
<1>4. ASSUME NEW i \in DOMAIN Context, treeEntries[Context[i]].kind = "tool",
             ~\E u \in treeEntries[Context[i]].ref..Context[i] : treeEntries[u].kind = "user"
      PROVE  \E j \in 1..(i - 1) : Context[j] = treeEntries[Context[i]].ref
  <2> DEFINE t == Context[i]
             a == treeEntries[t].ref
             r == FirstKept(B)
  <2>1. t \in ToSet(Context) /\ t \in B /\ Kind(t) = "tool"
    BY <1>2, <1>4 DEF ToSet, Kind
  <2>2. /\ a \in B /\ a < t /\ a \in Nat /\ t \in Nat /\ Kind(a) = "assistant"
    BY <1>1, <2>1, ResultOnBranch
  <2>3. ~UserBetween(a, t)
    <3> SUFFICES ASSUME UserBetween(a, t) PROVE FALSE
      OBVIOUS
    <3>1. PICK u \in Ids : a <= u /\ u <= t /\ Kind(u) = "user"
      BY DEF UserBetween
    <3>2. u \in Nat
      BY <1>1, <3>1 DEF TreeTypes, Entries, Ids
    <3>3. u \in a..t
      BY <2>2, <3>1, <3>2
    <3> QED
      BY <1>4, <3>1, <3>3 DEF Kind
  <2> HIDE DEF t, a, B
  <2>4. /\ c \in Nat /\ r \in Nat /\ (c = 0 => r = 0 /\ TailOf(B) = {})
        /\ c > 0 => r < c /\ Kind(c) = "compaction"
        /\ \A k \in TailOf(B) : r <= k
        /\ \A k \in B : /\ r <= k /\ k < c
                        /\ Kind(k) \in {"assistant", "tool", "custom_message"}
                        => k \in TailOf(B)
    BY <1>1, KeptBranch
  <2>5. r <= t
    <3>1. CASE t \in TailOf(B)
      BY <2>4, <3>1
    <3>2. CASE t \in Spoken(B, StartOf(B))
      <4>1. t >= StartOf(B)
        BY <3>2 DEF Spoken
      <4>2. StartOf(B) = r \/ StartOf(B) = c + 1
        BY DEF StartOf
      <4>3. CASE c = 0
        BY <2>2, <2>4, <4>3
      <4>4. CASE c # 0
        BY <2>2, <2>4, <4>1, <4>2, <4>4
      <4> QED
        BY <4>3, <4>4
    <3>3. t # c \/ c = 0
      BY <2>1, <2>4
    <3> QED
      BY <1>2, <2>1, <3>1, <3>2, <3>3
  <2>6. r <= a
    <3>1. a < r => UserBetween(a, t)
      BY <1>1, <2>1, <2>5, OldResults DEF a
    <3> QED
      BY <2>2, <2>3, <2>4, <3>1
  <2>7. a \in ToSet(Context)
    <3>1. CASE c > 0 /\ a < c
      BY <1>2, <2>2, <2>4, <2>6, <3>1
    <3>2. CASE ~(c > 0 /\ a < c)
      <4>1. a # c
        <5>1. a # 0
          BY <1>1, <2>2 DEF Rooted, TreeTypes, Entries, Ids, B
        <5>2. c > 0 => a # c
          BY <2>2, <2>4
        <5> QED
          BY <2>4, <5>1, <5>2
      <4>2. StartOf(B) <= a
        <5>1. StartOf(B) = r \/ (StartOf(B) = c + 1 /\ TailOf(B) # {})
          BY DEF StartOf
        <5> QED
          BY <2>2, <2>4, <2>6, <3>2, <4>1, <5>1
      <4>3. a \in Spoken(B, StartOf(B))
        BY <2>2, <4>2 DEF Spoken, entryMessage, Speakers, Kind
      <4> QED
        BY <1>2, <4>3
    <3> QED
      BY <3>1, <3>2
  <2>8. PICK j \in DOMAIN Context : Context[j] = a
    BY <2>7 DEF ToSet
  <2>9. a # c /\ t # c
    <3>1. c = 0 \/ Kind(c) = "compaction"
      BY <2>4
    <3>2. a # 0 /\ t # 0
      BY <1>1, <2>1, <2>2 DEF Rooted, TreeTypes, Entries, Ids
    <3> QED
      BY <2>1, <2>2, <3>1, <3>2
  <2>10. j < i
    BY <1>2, <2>2, <2>8, <2>9 DEF Rising, t
  <2>11. DOMAIN Context = 1..Len(Context) /\ Len(Context) \in Nat
    BY <1>2 DEF Rising
  <2>12. j \in 1..(i - 1)
    BY <2>10, <2>11
  <2> QED
    BY <2>8, <2>12 DEF a, t
<1>5. ResultsKeepAnswers
  <2> HIDE DEF B
  <2> QED
    BY <1>4 DEF ResultsKeepAnswers
<1> QED
  BY <1>3, <1>5

-----------------------------------------------------------------------------
(* Where a compaction cuts.                                                *)

\* Between a possible cut and the one taken there is a message.
LEMMA RecentCutIs ==
  ASSUME TreeTypes, NEW B, Rooted(B), ValidCuts(B) # {}
  PROVE  /\ RecentCut(B) \in ValidCuts(B)
         /\ \A a \in ValidCuts(B) : a < RecentCut(B) =>
              \E k \in B : a < k /\ k <= RecentCut(B) /\ entryMessage(k)
<1> DEFINE full  == {i \in B : /\ i >= FirstKept(B) /\ entryMessage(i)
                               /\ Tokens(B, i) >= KeepRecent}
           cuts  == ValidCuts(B)
           after == {i \in cuts : full # {} /\ i >= Max(full)}
<1>1. Len(treeEntries) \in Nat /\ Ids = 1..Len(treeEntries) /\ B \subseteq Ids
  BY DEF TreeTypes, Entries, Ids, Rooted
<1>2. RecentCut(B) = IF after = {} THEN Min(cuts) ELSE Min(after)
  BY DEF RecentCut
<1>3. cuts \in SUBSET Nat /\ after \in SUBSET cuts
  <2>1. cuts \subseteq B /\ \A i \in Ids : i \in Nat
    BY <1>1 DEF ValidCuts
  <2> HIDE DEF cuts
  <2> QED
    BY <1>1, <2>1
<1>4. full # {} => Max(full) \in full
  <2>1. full \subseteq B /\ \A i \in Ids : i \in 0..Len(treeEntries)
    BY <1>1
  <2> HIDE DEF full
  <2>2. full \in SUBSET (0..Len(treeEntries))
    BY <1>1, <2>1
  <2> QED
    BY <1>1, <2>2, MaxIs
<1>5. CASE after = {}
  <2>1. RecentCut(B) \in cuts /\ \A a \in cuts : RecentCut(B) <= a
    <3> HIDE DEF cuts, after
    <3> QED
      BY <1>2, <1>3, <1>5, MinIs DEF cuts
  <2> QED
    BY <1>3, <2>1
<1>6. CASE after # {}
  <2>1. RecentCut(B) \in after /\ \A a \in after : RecentCut(B) <= a
    <3>1. after \in SUBSET Nat
      BY <1>3
    <3> HIDE DEF after, cuts
    <3> QED
      BY ZenonT(60), <1>2, <1>6, <3>1, MinIs
  <2> DEFINE m == Max(full)
  <2>2. full # {} /\ m \in full /\ RecentCut(B) >= m
    BY <1>4, <2>1
  <2>3. m \in B /\ entryMessage(m) /\ m \in Nat
    <3>1. \A x \in full : x \in B /\ entryMessage(x)
      OBVIOUS
    <3>2. \A x \in B : x \in Nat
      BY <1>1
    <3> HIDE DEF full, m
    <3> QED
      BY <2>2, <3>1, <3>2
  <2>4. ASSUME NEW a \in cuts, a < RecentCut(B) PROVE a < m
    <3>1. a \notin after
      BY <1>3, <2>1, <2>4
    <3>2. ~(a >= m)
      BY <2>2, <3>1
    <3> QED
      BY <1>3, <2>3, <3>2
  <2> HIDE DEF m, full
  <2>5. RecentCut(B) \in Nat /\ m <= RecentCut(B)
    BY <1>3, <2>1, <2>2, <2>3
  <2> QED
    BY <2>1, <2>3, <2>4, <2>5
<1> QED
  BY <1>5, <1>6

LEMMA CutIs ==
  ASSUME TreeTypes, NEW B, Rooted(B), ValidCuts(B) # {}, FirstKept(B) \in Nat
  PROVE  /\ Cut(B) \in B /\ FirstKept(B) <= Cut(B) /\ Cut(B) <= RecentCut(B)
         /\ RecentCut(B) \in B /\ Cut(B) \in Nat /\ RecentCut(B) \in Nat
         /\ \A j \in B : Cut(B) <= j /\ j < RecentCut(B) =>
              Kind(j) \in {"custom_message", "branch_summary", "note"}
<1> DEFINE S == {k \in B :
                   /\ FirstKept(B) <= k /\ k <= RecentCut(B)
                   /\ \A j \in B : k <= j /\ j < RecentCut(B) =>
                        treeEntries[j].kind \in {"custom_message", "branch_summary", "note"}}
<1>1. \A i \in B : i \in Nat
  BY DEF TreeTypes, Entries, Ids, Rooted
<1>2. RecentCut(B) \in B /\ FirstKept(B) <= RecentCut(B) /\ RecentCut(B) \in Nat
  <2>1. RecentCut(B) \in ValidCuts(B)
    BY RecentCutIs
  <2> QED
    BY <1>1, <2>1 DEF ValidCuts
<1>3. RecentCut(B) \in S
  <2>1. \A j \in B : ~(RecentCut(B) <= j /\ j < RecentCut(B))
    BY <1>1, <1>2
  <2> QED
    BY <1>2, <2>1
<1>4. Cut(B) \in S
  <2>1. Cut(B) = Min(S)
    BY DEF Cut
  <2>2. S \in SUBSET Nat
    BY <1>1
  <2> HIDE DEF S
  <2> QED
    BY <1>3, <2>1, <2>2, MinIs
<1> QED
  BY <1>1, <1>2, <1>4 DEF Kind

\* A cut separates no result from its answer.
LEMMA CutKeepsAnswers ==
  ASSUME TreeTypes, CompactionsRetain, ResultsFollow, NEW B, Rooted(B), ValidCuts(B) # {},
         NEW t \in B, Kind(t) = "tool", treeEntries[t].ref < Cut(B), Cut(B) <= t
  PROVE  UserBetween(treeEntries[t].ref, t)
<1> DEFINE a == treeEntries[t].ref
           k == RecentCut(B)
<1>1. /\ a \in B /\ a < t /\ a \in Nat /\ t \in Nat /\ Kind(a) = "assistant"
      /\ UserBetween(a, t) \/ Follows(Path[t] \ {t}, a)
      /\ \A j : j \in Path[t] \ {t} <=> j \in B /\ j < t
  BY ResultOnBranch
<1>2. FirstKept(B) \in Nat
  BY KeptBranch
<1>3. /\ Cut(B) \in B /\ FirstKept(B) <= Cut(B) /\ Cut(B) <= k
      /\ k \in B /\ Cut(B) \in Nat /\ k \in Nat
      /\ \A j \in B : Cut(B) <= j /\ j < k =>
              Kind(j) \in {"custom_message", "branch_summary", "note"}
  BY <1>2, CutIs
<1>4. /\ k \in ValidCuts(B)
      /\ \A v \in ValidCuts(B) : v < k => \E m \in B : v < m /\ m <= k /\ entryMessage(m)
  BY RecentCutIs
<1> HIDE DEF a, k
<1>5. k < t
  <2>1. ~(t < k)
    BY <1>3
  <2>2. t # k
    BY <1>4 DEF ValidCuts, Kind
  <2> QED
    BY <1>1, <1>3, <2>1, <2>2
<1>6. CASE a >= FirstKept(B)
  <2>1. a \in ValidCuts(B)
    BY <1>1, <1>6 DEF ValidCuts, Kind
  <2>2. a < k
    BY <1>1, <1>3 DEF a
  <2>3. PICK m \in B : a < m /\ m <= k /\ entryMessage(m)
    BY <1>4, <2>1, <2>2
  <2>4. m < t /\ m > a
    <3>1. m \in Nat
      BY DEF TreeTypes, Entries, Ids, Rooted
    <3> QED
      BY <1>1, <1>3, <1>5, <2>3, <3>1
  <2>5. ~Follows(Path[t] \ {t}, a)
    BY <1>1, <2>3, <2>4 DEF Follows
  <2> QED
    BY <1>1, <2>5 DEF a
<1>7. CASE ~(a >= FirstKept(B))
  <2>1. a < FirstKept(B) /\ FirstKept(B) <= t
    BY <1>1, <1>2, <1>3, <1>7
  <2> QED
    BY <2>1, OldResults DEF a
<1> QED
  BY <1>6, <1>7

\* The plan of a compaction keeps or covers every message of the context.
LEMMA PlanIs ==
  ASSUME TreeTypes, CompactionsRetain, ResultsFollow, NEW B, Rooted(B),
         prepareCompaction(B) # NoWork
  PROVE  LET plan == prepareCompaction(B)
         IN  /\ plan.op = "compact" /\ Retains(B, plan.first, plan.tail)
             /\ plan.covers \subseteq 1..MaxEntries
             /\ \A m \in ToSet(messagesFromBranch(B)) : entryMessage(m) =>
                  m \in plan.tail \/ TextOf(m) \in plan.covers
<1> DEFINE r       == FirstKept(B)
           c       == LastCompaction(B)
           cut     == Cut(B)
           turn    == TurnStart(B)
           history == Messages(B, r, (IF turn > 0 THEN turn ELSE cut) - 1)
           prefix  == IF turn > 0 THEN Messages(B, turn, cut - 1) ELSE {}
           tail    == Messages(B, cut, Max(B))
           covers  == TextsOf(history \cup prefix) \cup
                        (IF prefix # {} /\ history = {} THEN {} ELSE PreviousCovers(B))
<1>1. /\ ValidCuts(B) # {}
      /\ prepareCompaction(B) = [op |-> "compact", first |-> cut, tail |-> tail, covers |-> covers]
  BY DEF prepareCompaction
<1>2. /\ Len(treeEntries) \in Nat /\ Ids = 1..Len(treeEntries) /\ B \subseteq Ids
      /\ \A i \in B : i \in Nat /\ i \in 0..Len(treeEntries)
      /\ Len(treeEntries) <= MaxEntries /\ MaxEntries \in Nat
      /\ \A i \in Ids : treeEntries[i] \in TreeEntry
  <2>1. treeEntries \in Seq(TreeEntry) /\ Len(treeEntries) <= MaxEntries /\ MaxEntries \in Nat
    BY TreeAssumption DEF TreeTypes, Entries
  <2> QED
    BY <2>1 DEF Ids, Rooted
<1>3. /\ r \in Nat /\ c \in Nat /\ (c = 0 => TailOf(B) = {} /\ r = 0)
      /\ (c > 0 => r < c /\ c \in B) /\ \A i \in TailOf(B) : i \in B /\ r <= i
  BY KeptBranch
<1>4. /\ cut \in B /\ r <= cut /\ cut \in Nat
  BY <1>1, <1>3, CutIs
<1>5. Max(B) \in B /\ \A i \in B : i <= Max(B)
  <2>1. B \in SUBSET (0..Len(treeEntries)) /\ B # {}
    BY <1>2, <1>4
  <2> QED
    BY <1>2, <2>1, MaxIs
<1>6. turn \in Nat
  <2> DEFINE S == {i \in B :
                     /\ r <= i /\ i <= cut
                     /\ treeEntries[i].kind \in {"user", "custom_message", "branch_summary"}}
  <2>1. S \in SUBSET (0..Len(treeEntries))
    BY <1>2
  <2>2. S # {} => Max(S) \in S
    <3> HIDE DEF S
    <3> QED
      BY <1>2, <2>1, MaxIs
  <2>3. S # {} => Max(S) \in Nat
    <3>1. \A i \in S : i \in Nat
      BY <1>2
    <3> HIDE DEF S
    <3> QED
      BY <2>2, <3>1
  <2>4. turn = 0 \/ (turn = IF S = {} THEN 0 ELSE Max(S))
    BY DEF TurnStart, Greatest
  <2> HIDE DEF S, turn
  <2> QED
    BY <2>3, <2>4
<1>7. \A i \in B : entryMessage(i) /\ cut <= i => i \in tail
  BY <1>5 DEF Messages
<1>8. \A i \in tail : i \in B /\ i >= cut /\ entryMessage(i)
  BY <1>2, <1>4 DEF Messages
<1>9. ASSUME NEW i \in B, entryMessage(i), r <= i, i < cut
      PROVE  i \in history \cup prefix
  <2>1. i \in Nat
    BY <1>2
  <2> HIDE DEF turn, cut, r
  <2>2. CASE turn > 0 /\ turn <= i
    BY <1>4, <1>6, <1>9, <2>1, <2>2 DEF Messages
  <2>3. CASE turn > 0 /\ ~(turn <= i)
    BY <1>4, <1>6, <1>9, <2>1, <2>3 DEF Messages
  <2>4. CASE ~(turn > 0)
    BY <1>4, <1>6, <1>9, <2>1, <2>4 DEF Messages
  <2> QED
    BY <2>2, <2>3, <2>4
<1>10. Retains(B, cut, tail)
  <2>1. \A i \in B : i >= cut /\ Kind(i) \in {"assistant", "tool", "custom_message"} => i \in tail
    <3>1. \A i \in B : Kind(i) \in {"assistant", "tool", "custom_message"} => entryMessage(i)
      BY DEF entryMessage, Speakers, Kind
    <3> HIDE DEF tail, cut
    <3> QED
      BY <1>2, <1>4, <1>7, <3>1
  <2>2. \A i \in B : Kind(i) = "tool" /\ treeEntries[i].ref < cut /\ cut <= i =>
          UserBetween(treeEntries[i].ref, i)
    BY <1>1, CutKeepsAnswers
  <2> HIDE DEF tail, cut
  <2> QED
    BY <1>4, <1>8, <2>1, <2>2 DEF Retains
<1>11. \A i \in B : TextOf(i) \in 1..MaxEntries
  <2> SUFFICES ASSUME NEW i \in B PROVE TextOf(i) \in 1..MaxEntries
    OBVIOUS
  <2>1. i \in 1..MaxEntries /\ treeEntries[i].ref \in 0..MaxEntries
    BY <1>2 DEF TreeEntry
  <2> QED
    BY <1>2, <2>1 DEF TextOf
<1>12. covers \subseteq 1..MaxEntries
  <2>1. history \subseteq B /\ prefix \subseteq B
    BY DEF Messages
  <2>2. PreviousCovers(B) \subseteq 1..MaxEntries
    <3>1. c > 0 => treeEntries[c].covers \subseteq 1..MaxEntries
      BY <1>2, <1>3 DEF TreeEntry
    <3> QED
      BY <1>3, <3>1 DEF PreviousCovers
  <2> HIDE DEF history, prefix
  <2> QED
    BY <1>11, <2>1, <2>2 DEF TextsOf
<1>13. ASSUME NEW m \in ToSet(messagesFromBranch(B)), entryMessage(m)
       PROVE  m \in tail \/ TextOf(m) \in covers
  <2>1. m \in B /\ ((m = c /\ c > 0) \/ m \in TailOf(B) \/ m \in Spoken(B, StartOf(B)))
    BY <1>3, ContextIs
  <2>2. r <= m
    <3>1. m \in Spoken(B, StartOf(B)) => m >= StartOf(B) /\ (StartOf(B) = r \/ StartOf(B) = c + 1)
      BY DEF Spoken, StartOf
    <3>2. m \in Nat
      BY <1>2, <2>1
    <3>3. r <= c \/ c = 0
      BY <1>3
    <3> HIDE DEF r, c
    <3> QED
      BY <1>3, <2>1, <3>1, <3>2, <3>3
  <2>3. m < cut => m \in history \cup prefix
    BY <1>9, <1>13, <2>1, <2>2
  <2>4. m \in history \cup prefix => TextOf(m) \in covers
    <3> HIDE DEF history, prefix
    <3> QED
      BY DEF TextsOf
  <2>5. m \in Nat
    BY <1>2, <2>1
  <2> HIDE DEF history, prefix, covers, cut, tail
  <2> QED
    BY <1>4, <1>7, <1>13, <2>1, <2>3, <2>4, <2>5 DEF cut
<1> HIDE DEF cut, tail, covers
<1> QED
  BY <1>1, <1>10, <1>12, <1>13

-----------------------------------------------------------------------------
(* What a step leaves as it was.                                           *)

LEMMA SameTree ==
  ASSUME treeEntries' = treeEntries
  PROVE  /\ Path' = Path /\ Ids' = Ids
         /\ CompactionsRetain => CompactionsRetain'
         /\ ResultsFollow => ResultsFollow'
<1>1. Path' = Path /\ Ids' = Ids
  BY DEF Path, Ids
<1>2. CompactionsRetain => CompactionsRetain'
  BY <1>1 DEF CompactionsRetain, Retains, UserBetween, Kind, entryMessage
<1>3. ResultsFollow => ResultsFollow'
  BY <1>1 DEF ResultsFollow, FollowsAnswer, Follows, Shown, LastCompaction, UserBetween, Kind,
              entryMessage
<1> QED
  BY <1>1, <1>2, <1>3

LEMMA SameBranch ==
  ASSUME treeEntries' = treeEntries, leaf' = leaf
  PROVE  /\ CurrentBranch' = CurrentBranch /\ Context' = Context /\ LastAnswer' = LastAnswer
         /\ \A i : entryMessage(i)' = entryMessage(i) /\ TextOf(i)' = TextOf(i)
<1>1. CurrentBranch' = CurrentBranch
  BY SameTree DEF CurrentBranch, branchEntries
<1>2. Context' = Context
  BY <1>1 DEF Context, messagesFromBranch, LastCompaction, FirstKept, Spoken, entryMessage
<1>3. LastAnswer' = LastAnswer
  BY <1>1 DEF LastAnswer
<1> QED
  BY <1>1, <1>2, <1>3 DEF entryMessage, TextOf

\* What holds of entries holds when another is appended.
LEMMA OldEntries ==
  ASSUME TreeTypes, NEW e, treeEntries' = Append(treeEntries, e), Entries(treeEntries'),
         NEW B, B \subseteq Ids
  PROVE  /\ LastCompaction(B)' = LastCompaction(B)
         /\ \A i \in B : Kind(i)' = Kind(i) /\ entryMessage(i)' = entryMessage(i)
         /\ \A a, t : UserBetween(a, t) => UserBetween(a, t)'
<1>1. /\ \A i \in Ids : treeEntries'[i] = treeEntries[i]
      /\ Ids \subseteq Ids'
  BY PathAppended DEF TreeTypes
<1>2. \A i \in Ids : Kind(i)' = Kind(i) /\ entryMessage(i)' = entryMessage(i)
  BY <1>1 DEF Kind, entryMessage
<1>3. LastCompaction(B)' = LastCompaction(B)
  <2>1. {i \in B : treeEntries'[i].kind = "compaction"}
          = {i \in B : treeEntries[i].kind = "compaction"}
    BY <1>1
  <2> QED
    BY <2>1 DEF LastCompaction
<1>4. ASSUME NEW a, NEW t, UserBetween(a, t) PROVE UserBetween(a, t)'
  <2>1. PICK u \in Ids : a <= u /\ u <= t /\ Kind(u) = "user"
    BY <1>4 DEF UserBetween
  <2>2. u \in Ids' /\ Kind(u)' = "user"
    BY <1>1, <1>2, <2>1
  <2> QED
    BY <2>1, <2>2 DEF UserBetween
<1> QED
  BY <1>2, <1>3, <1>4

LEMMA OldRetains ==
  ASSUME TreeTypes, NEW e, treeEntries' = Append(treeEntries, e), Entries(treeEntries'),
         NEW B, B \subseteq Ids, NEW first, NEW tail, Retains(B, first, tail)
  PROVE  Retains(B, first, tail)'
<1>1. /\ \A i \in B : treeEntries'[i] = treeEntries[i]
      /\ \A i \in B : Kind(i)' = Kind(i) /\ entryMessage(i)' = entryMessage(i)
      /\ \A a, t : UserBetween(a, t) => UserBetween(a, t)'
  BY OldEntries, PathAppended DEF TreeTypes
<1>2. first \in B /\ \A i \in tail : i \in B /\ i >= first /\ entryMessage(i)'
  BY <1>1 DEF Retains
<1>3. \A i \in B : i >= first /\ Kind(i)' \in {"assistant", "tool", "custom_message"} => i \in tail
  BY <1>1 DEF Retains
<1>4. ASSUME NEW i \in B, Kind(i)' = "tool", treeEntries'[i].ref < first, first <= i
      PROVE  UserBetween(treeEntries[i].ref, i)'
  <2> DEFINE a == treeEntries[i].ref
  <2>1. treeEntries'[i].ref = a /\ UserBetween(a, i)
    BY <1>1, <1>4 DEF Retains
  <2>2. PICK u \in Ids : a <= u /\ u <= i /\ Kind(u) = "user"
    BY <2>1 DEF UserBetween
  <2>3. u \in Ids' /\ Kind(u)' = "user"
    <3>1. Ids \subseteq Ids' /\ treeEntries'[u] = treeEntries[u]
      BY <2>2, PathAppended DEF TreeTypes
    <3> QED
      BY <2>2, <3>1 DEF Kind
  <2> QED
    BY <2>1, <2>2, <2>3 DEF UserBetween
<1> QED
  BY <1>2, <1>3, <1>4 DEF Retains

LEMMA OldFollows ==
  ASSUME TreeTypes, NEW e, treeEntries' = Append(treeEntries, e), Entries(treeEntries'),
         NEW B, B \subseteq Ids, NEW a, NEW t, FollowsAnswer(B, t, a)
  PROVE  FollowsAnswer(B, t, a)'
<1>1. /\ \A i \in Ids : treeEntries'[i] = treeEntries[i]
      /\ \A i \in B : Kind(i)' = Kind(i) /\ entryMessage(i)' = entryMessage(i)
      /\ UserBetween(a, t) => UserBetween(a, t)'
      /\ LastCompaction(B)' = LastCompaction(B)
  BY OldEntries, PathAppended DEF TreeTypes
<1>2. a \in B /\ a < t /\ Kind(a)' = "assistant"
  BY <1>1 DEF FollowsAnswer
<1>3. ASSUME Follows(B, a) PROVE Follows(B, a)'
  <2>1. \A i \in B : i > a => ~entryMessage(i)'
    BY <1>1, <1>3 DEF Follows
  <2> DEFINE c == LastCompaction(B)
  <2>2. c > a => c \in Ids
    <3>1. c \in Nat /\ (c = 0 \/ c \in B) /\ a \in Nat
      BY <1>2, LastCompactionIs DEF TreeTypes, Entries, Ids
    <3> QED
      BY <3>1
  <2>3. c > a => \/ a \in treeEntries'[c].tail
                 \/ treeEntries'[c].tail = {} /\ treeEntries'[c].ref <= a
    BY <1>1, <1>3, <2>2 DEF Follows, Shown
  <2> QED
    BY <1>1, <2>1, <2>3 DEF Follows, Shown
<1> QED
  BY <1>1, <1>2, <1>3 DEF FollowsAnswer

-----------------------------------------------------------------------------
(* An entry is appended.                                                   *)

\* An entry that keeps the invariant.
Fits(e) ==
  /\ e \in TreeEntry /\ e.parent \in Ids \cup {0, NoEntry}
  /\ e.kind = "compaction" => Retains(Path[e.parent], e.ref, e.tail)
  /\ e.kind = "tool" => FollowsAnswer(Path[e.parent], Len(treeEntries) + 1, e.ref)

LEMMA AppendKeeps ==
  ASSUME TreeTypes, CompactionsRetain, ResultsFollow, NEW e, Fits(e), appendEntry(e)
  PROVE  /\ Entries(treeEntries') /\ leaf' \in Ids' /\ leaf' = Len(treeEntries) + 1
         /\ Len(treeEntries) + 1 <= MaxEntries
         /\ CompactionsRetain' /\ ResultsFollow'
         /\ CurrentBranch' = Path[e.parent] \cup {Len(treeEntries) + 1}
         /\ Path[e.parent] \subseteq Ids
<1> DEFINE n == Len(treeEntries) + 1
<1>1. /\ treeEntries \in Seq(TreeEntry) /\ n \in Nat /\ n > 0 /\ n <= MaxEntries /\ n # 0
      /\ treeEntries' = Append(treeEntries, e) /\ leaf' = n /\ Ids = 1..Len(treeEntries)
      /\ MaxEntries \in Nat /\ NoEntry = MaxEntries + 1 /\ Entries(treeEntries)
      /\ Len(treeEntries) \in Nat
  BY TreeAssumption DEF TreeTypes, Entries, appendEntry, NoEntry, Ids
<1>2. Entries(treeEntries')
  <2>1. /\ treeEntries' \in Seq(TreeEntry) /\ Len(treeEntries') = n /\ DOMAIN treeEntries' = 1..n
        /\ \A i \in Ids : treeEntries'[i] = treeEntries[i]
        /\ treeEntries'[n] = e
    BY <1>1 DEF Fits
  <2>2. ASSUME NEW i \in 1..n
        PROVE  treeEntries'[i].parent < i \/ treeEntries'[i].parent = NoEntry
    <3>1. CASE i = n
      <4>1. e.parent < n \/ e.parent = NoEntry
        BY <1>1 DEF Fits
      <4> QED
        BY <2>1, <3>1, <4>1
    <3>2. CASE i # n
      <4>1. i \in Ids
        BY <1>1, <3>2
      <4>2. treeEntries[i].parent < i \/ treeEntries[i].parent = NoEntry
        BY <1>1, <4>1 DEF Entries, Ids
      <4> QED
        BY <2>1, <4>1, <4>2
    <3> QED
      BY <3>1, <3>2
  <2> HIDE DEF n
  <2> QED
    BY <1>1, <2>1, <2>2 DEF Entries
<1>3. /\ \A i \in Ids \cup {0, NoEntry} : Path'[i] = Path[i]
      /\ Path'[n] = Path[e.parent] \cup {n}
      /\ Ids' = Ids \cup {n} /\ n \notin Ids
      /\ \A i \in Ids : treeEntries'[i] = treeEntries[i]
      /\ treeEntries'[n] = e
  BY <1>1, <1>2, PathAppended
<1>4. /\ \A i \in Ids : Path[i] \subseteq Ids /\ Path[i] \ {i} \subseteq Ids
      /\ Path[e.parent] \subseteq Ids
  <2>1. \A i \in Ids : Rooted(Path[i])
    BY BranchesRooted
  <2>2. Path[0] = {} /\ Path[NoEntry] = {}
    BY <1>1, PathIs
  <2> QED
    BY <2>1, <2>2 DEF Rooted, Fits
<1> HIDE DEF n
<1>5. Path'[n] \ {n} = Path[e.parent]
  BY <1>3, <1>4
<1>6. CompactionsRetain'
  <2> SUFFICES ASSUME NEW c \in Ids', Kind(c)' = "compaction"
               PROVE  Retains(Path[c] \ {c}, treeEntries[c].ref, treeEntries[c].tail)'
    BY DEF CompactionsRetain
  <2>1. CASE c = n
    <3>1. Retains(Path[e.parent], e.ref, e.tail)
      BY <1>3, <2>1 DEF Fits, Kind
    <3> QED
      BY <1>1, <1>2, <1>3, <1>4, <1>5, <2>1, <3>1, OldRetains
  <2>2. CASE c # n
    <3>1. c \in Ids
      BY <1>3, <2>2
    <3>2. Retains(Path[c] \ {c}, treeEntries[c].ref, treeEntries[c].tail)
      BY <1>3, <3>1 DEF CompactionsRetain, Kind
    <3> QED
      BY <1>1, <1>2, <1>3, <1>4, <3>1, <3>2, OldRetains
  <2> QED
    BY <2>1, <2>2
<1>7. ResultsFollow'
  <2> SUFFICES ASSUME NEW t \in Ids', Kind(t)' = "tool"
               PROVE  FollowsAnswer(Path[t] \ {t}, t, treeEntries[t].ref)'
    BY DEF ResultsFollow
  <2>1. CASE t = n
    <3>1. FollowsAnswer(Path[e.parent], n, e.ref)
      BY <1>3, <2>1 DEF Fits, Kind, n
    <3> QED
      BY <1>1, <1>2, <1>3, <1>4, <1>5, <2>1, <3>1, OldFollows
  <2>2. CASE t # n
    <3>1. t \in Ids
      BY <1>3, <2>2
    <3>2. FollowsAnswer(Path[t] \ {t}, t, treeEntries[t].ref)
      BY <1>3, <3>1 DEF ResultsFollow, Kind
    <3> QED
      BY <1>1, <1>2, <1>3, <1>4, <3>1, <3>2, OldFollows
  <2> QED
    BY <2>1, <2>2
<1>8. leaf' \in Ids' /\ CurrentBranch' = Path[e.parent] \cup {n}
  BY <1>1, <1>3 DEF CurrentBranch, branchEntries
<1> QED
  BY <1>1, <1>2, <1>4, <1>6, <1>7, <1>8 DEF n

-----------------------------------------------------------------------------
(* The steps.                                                              *)

LEMMA PlainFits ==
  ASSUME TreeTypes, NEW kind \in EntryKinds \ {"compaction", "tool"}, NEW ref \in 0..MaxEntries
  PROVE  Fits(Plain(kind, ref))
<1>1. leaf \in Ids \cup {0, NoEntry} /\ leaf \in 0..NoEntry
  <2>1. \A i \in Ids : i \in 1..MaxEntries
    BY EntryFields DEF TreeTypes, Ids
  <2> QED
    BY <2>1, TreeAssumption DEF TreeTypes, NoEntry
<1>2. Plain(kind, ref) \in TreeEntry
  BY <1>1 DEF Plain, TreeEntry
<1> QED
  BY <1>1, <1>2 DEF Fits, Plain

LEMMA LeafPath ==
  ASSUME TreeTypes
  PROVE  CurrentBranch = Path[leaf] /\ CurrentBranch \subseteq Ids
  BY BranchesRooted DEF Rooted

\* A step that appends an entry, with no compaction waiting after it.
LEMMA AppendTypes ==
  ASSUME TreeTypes, Entries(treeEntries'), leaf' \in Ids', Ids \subseteq Ids', open' \in {0, 1},
         open' = 1 => running' /\ work' = NoWork, waiting' \in Seq(1..MaxEntries),
         work' = work \/ work' = NoWork
  PROVE  TreeTypes'
<1>1. NoWork.op = "none"
  BY DEF NoWork
<1>2. CASE work' = work
  BY <1>2 DEF TreeTypes
<1>3. CASE work' = NoWork
  BY <1>1, <1>3 DEF TreeTypes
<1> QED
  BY <1>2, <1>3

LEMMA QuietAppend ==
  ASSUME TreeInv, NEW e, Fits(e), appendEntry(e), work' = NoWork, open' = 0,
         waiting' \in Seq(1..MaxEntries)
  PROVE  TreeInv'
<1>1. /\ Entries(treeEntries') /\ leaf' \in Ids' /\ CompactionsRetain' /\ ResultsFollow'
      /\ treeEntries' = Append(treeEntries, e)
  BY AppendKeeps DEF TreeInv, appendEntry
<1>2. Ids \subseteq Ids'
  BY <1>1, PathAppended DEF TreeInv, TreeTypes
<1>3. TreeTypes'
  BY <1>1, <1>2, AppendTypes DEF TreeInv
<1>4. PlanRetains' /\ OpenAnswer' /\ PlanCovers'
  BY DEF PlanRetains, OpenAnswer, PlanCovers, NoWork
<1> QED
  BY <1>1, <1>3, <1>4 DEF TreeInv

\* A step that moves in the tree or not at all, with no call open after it.
LEMMA QuietStep ==
  ASSUME TreeInv, treeEntries' = treeEntries, leaf' = leaf \/ leaf' \in Ids \cup {NoEntry},
         open' = 0, waiting' \in Seq(1..MaxEntries), TreeTypes', PlanRetains', PlanCovers'
  PROVE  TreeInv'
<1>1. CompactionsRetain' /\ ResultsFollow'
  BY SameTree DEF TreeInv
<1>2. OpenAnswer'
  BY DEF OpenAnswer
<1> QED
  BY <1>1, <1>2 DEF TreeInv

LEMMA LastAnswerIs ==
  ASSUME Entries(treeEntries), CurrentBranch \subseteq Ids,
         \E a \in CurrentBranch : Kind(a) = "assistant"
  PROVE  /\ LastAnswer \in CurrentBranch /\ Kind(LastAnswer) = "assistant"
         /\ \A i \in CurrentBranch : Kind(i) = "assistant" => i <= LastAnswer
<1> DEFINE S == {i \in CurrentBranch : treeEntries[i].kind = "assistant"}
<1>1. Len(treeEntries) \in Nat /\ Ids = 1..Len(treeEntries)
  BY DEF Entries, Ids
<1>2. S \in SUBSET (0..Len(treeEntries)) /\ S # {}
  <2>1. \A i \in Ids : i \in 0..Len(treeEntries)
    BY <1>1
  <2> QED
    BY <2>1 DEF Kind
<1>3. Max(S) \in S /\ \A y \in S : y <= Max(S)
  <2> HIDE DEF S
  <2> QED
    BY <1>1, <1>2, MaxIs
<1>4. LastAnswer = Max(S)
  BY DEF LastAnswer
<1> QED
  BY <1>3, <1>4 DEF Kind

\* A resumed run goes on with the last answer.
LEMMA PendingAnswer ==
  ASSUME TreeInv, PendingToolCalls
  PROVE  FollowsAnswer(CurrentBranch, Len(treeEntries) + 1, LastAnswer)
<1> DEFINE B == CurrentBranch
           c == LastCompaction(B)
           r == FirstKept(B)
           n == Len(treeEntries)
           x == Context[Len(Context)]
<1>1. TreeTypes /\ CompactionsRetain /\ Rooted(B) /\ Entries(treeEntries)
  BY BranchesRooted DEF TreeInv, TreeTypes
<1>2. /\ Rising(Context, c)
      /\ ToSet(Context) = (IF c = 0 THEN {} ELSE {c}) \cup TailOf(B) \cup Spoken(B, StartOf(B))
      /\ ToSet(Context) \subseteq B
  BY <1>1, ContextIs DEF Context
<1>3. n \in Nat /\ B \subseteq Ids /\ Ids = 1..n /\ \A i \in B : i \in Nat /\ i > 0 /\ i <= n
  <2>1. n \in Nat /\ Ids = 1..n /\ B \subseteq Ids
    BY <1>1 DEF Entries, Ids, Rooted
  <2> QED
    BY <2>1
<1>4. Len(Context) \in DOMAIN Context /\ Kind(x) = "assistant" /\ DOMAIN Context = 1..Len(Context)
      /\ Len(Context) \in Nat
  <2>1. Context \in Seq(Nat) /\ Context # <<>>
    BY <1>2 DEF Rising, PendingToolCalls
  <2> QED
    BY <2>1 DEF PendingToolCalls, Kind
<1> HIDE DEF c, n
<1>5. /\ c \in Nat /\ r \in Nat /\ (c = 0 => r = 0 /\ TailOf(B) = {})
      /\ c > 0 => /\ Kind(c) = "compaction" /\ treeEntries[c].tail = TailOf(B)
                  /\ treeEntries[c].ref = r /\ r < c
      /\ \A k \in TailOf(B) : r <= k /\ k < c
      /\ \A k \in B : /\ r <= k /\ k < c
                      /\ Kind(k) \in {"assistant", "tool", "custom_message"}
                      => k \in TailOf(B)
  BY <1>1, KeptBranch DEF c
<1>6. x \in ToSet(Context) /\ x \in B /\ x # c /\ x \in Nat
  <2>1. x \in ToSet(Context)
    BY <1>4 DEF ToSet
  <2>2. x \in B /\ x \in Nat /\ x > 0
    BY <1>2, <1>3, <2>1
  <2>3. x # c
    BY <1>4, <1>5, <2>2
  <2> QED
    BY <2>1, <2>2, <2>3
<1>7. ASSUME NEW y \in ToSet(Context), y # c PROVE y <= x
  <2>1. PICK k \in DOMAIN Context : Context[k] = y
    BY DEF ToSet
  <2>2. y \in B /\ y \in Nat
    BY <1>2, <1>3
  <2>3. ~(x < y)
    <3>1. ASSUME x < y PROVE FALSE
      <4>1. Len(Context) < k
        BY <1>2, <1>4, <1>6, <1>7, <2>1, <3>1 DEF Rising
      <4> QED
        BY <1>4, <2>1, <4>1
    <3> QED
      BY <3>1
  <2> QED
    BY <1>6, <2>2, <2>3
<1>8. StartOf(B) = IF TailOf(B) = {} THEN r ELSE c + 1
  BY DEF StartOf, c
<1>9. \A i \in B : Kind(i) \in Speakers /\ i >= StartOf(B) => i \in ToSet(Context)
  BY <1>2 DEF Spoken, entryMessage, Kind
<1>10. x \in TailOf(B) \/ x >= StartOf(B)
  BY <1>2, <1>6 DEF Spoken
<1> HIDE DEF x, r, B
<1>11. ASSUME NEW i \in B, i > x, Kind(i) \in Speakers
       PROVE  Kind(i) = "user" /\ i < c /\ TailOf(B) # {}
  <2>1. i \in Nat /\ i # c
    <3>1. c > 0 => Kind(c) = "compaction"
      BY <1>5
    <3>2. i \in Nat /\ i > 0
      BY <1>3
    <3> QED
      BY <1>11, <3>1, <3>2 DEF Speakers
  <2>2. i \notin ToSet(Context)
    BY <1>6, <1>7, <1>11, <2>1
  <2>3. ~(i >= StartOf(B))
    BY <1>9, <1>11, <2>2
  <2>4. x \in TailOf(B)
    <3>1. StartOf(B) \in Nat
      BY <1>5, <1>8
    <3>2. ~(x >= StartOf(B))
      BY <1>6, <1>11, <2>1, <2>3, <3>1
    <3> QED
      BY <1>10, <3>2
  <2>5. i < c /\ r <= i
    <3>1. StartOf(B) = c + 1 /\ r <= x
      BY <1>5, <1>8, <2>4
    <3> QED
      BY <1>5, <1>6, <1>11, <2>1, <2>3, <3>1
  <2>6. i \notin TailOf(B)
    BY <1>2, <2>2
  <2>7. Kind(i) \notin {"assistant", "tool", "custom_message"}
    BY <1>5, <2>5, <2>6
  <2> QED
    BY <1>11, <2>4, <2>5, <2>7 DEF Speakers
<1>12. LastAnswer = x
  <2>1. /\ LastAnswer \in B /\ Kind(LastAnswer) = "assistant" /\ x <= LastAnswer
    BY <1>1, <1>3, <1>4, <1>6, LastAnswerIs DEF x, B
  <2>2. ~(LastAnswer > x)
    BY <1>11, <2>1 DEF Speakers
  <2>3. LastAnswer \in Nat
    BY <1>3, <2>1
  <2> QED
    BY <1>6, <2>1, <2>2, <2>3
<1>13. ASSUME ~UserBetween(x, n + 1) PROVE Follows(B, x)
  <2>1. ASSUME NEW i \in B, i > x, entryMessage(i) PROVE FALSE
    <3>1. Kind(i) = "user"
      BY <1>11, <2>1 DEF entryMessage, Kind
    <3>2. i \in Ids /\ x <= i /\ i <= n + 1
      BY <1>3, <1>6, <2>1
    <3> QED
      BY <1>13, <3>1, <3>2 DEF UserBetween
  <2>2. ASSUME c > x
        PROVE  \/ x \in treeEntries[c].tail
               \/ treeEntries[c].tail = {} /\ treeEntries[c].ref <= x
    <3>1. c > 0
      BY <1>5, <1>6, <2>2
    <3>2. CASE x \in TailOf(B)
      BY <1>5, <3>1, <3>2
    <3>3. CASE x >= StartOf(B)
      BY <1>5, <1>6, <1>8, <2>2, <3>1, <3>3
    <3> QED
      BY <1>10, <3>2, <3>3
  <2> QED
    BY <2>1, <2>2 DEF Follows, Shown, c
<1> QED
  <2>1. x < n + 1
    BY <1>3, <1>6
  <2> QED
    BY <1>4, <1>6, <1>12, <1>13, <2>1 DEF FollowsAnswer, n, B, x

LEMMA StartPromptKeeps ==
  ASSUME TreeInv, StartPrompt
  PROVE  TreeInv'
<1>1. /\ TreeTypes /\ work' = NoWork /\ work = NoWork /\ running' = TRUE /\ waiting' = waiting
      /\ waiting \in Seq(1..MaxEntries)
  BY DEF TreeInv, TreeTypes, StartPrompt, Idle
<1>2. CASE appendEntry(Plain("user", 0)) /\ open' = 0
  <2>1. Fits(Plain("user", 0))
    BY <1>1, PlainFits, TreeAssumption DEF EntryKinds, Speakers
  <2> QED
    BY <1>1, <1>2, <2>1, QuietAppend
<1>3. CASE PendingToolCalls /\ open' = 1 /\ UNCHANGED <<treeEntries, leaf>>
  <2>1. FollowsAnswer(CurrentBranch, Len(treeEntries) + 1, LastAnswer)
    BY <1>3, PendingAnswer
  <2>2. OpenAnswer'
    <3>1. CurrentBranch' = CurrentBranch /\ LastAnswer' = LastAnswer
      BY <1>3, SameBranch
    <3> QED
      BY <1>3, <2>1, <3>1 DEF OpenAnswer, FollowsAnswer, Follows, Shown, LastCompaction,
                              UserBetween, Kind, Ids, entryMessage
  <2>3. CompactionsRetain' /\ ResultsFollow'
    BY <1>3, SameTree DEF TreeInv
  <2>4. TreeTypes'
    BY <1>1, <1>3 DEF TreeTypes, Ids, NoWork
  <2>5. PlanRetains' /\ PlanCovers'
    BY <1>1 DEF PlanRetains, PlanCovers, NoWork
  <2> QED
    BY <2>2, <2>3, <2>4, <2>5 DEF TreeInv
<1> QED
  BY <1>2, <1>3 DEF StartPrompt

LEMMA ToolResultKeeps ==
  ASSUME TreeInv, ToolResult
  PROVE  TreeInv'
<1>1. /\ TreeTypes /\ open = 1 /\ work' = NoWork /\ open' = 0 /\ waiting' \in Seq(1..MaxEntries)
      /\ FollowsAnswer(CurrentBranch, Len(treeEntries) + 1, LastAnswer)
  BY DEF TreeInv, TreeTypes, ToolResult, OpenAnswer
<1> DEFINE e == Plain("tool", LastAnswer)
<1>2. LastAnswer \in CurrentBranch /\ CurrentBranch \subseteq Ids /\ CurrentBranch = Path[leaf]
  BY <1>1, LeafPath DEF FollowsAnswer
<1>3. /\ LastAnswer \in 0..MaxEntries /\ leaf \in Ids \cup {0, NoEntry} /\ leaf \in 0..NoEntry
  <2>1. \A i \in Ids : i \in 1..MaxEntries
    BY <1>1, EntryFields DEF TreeTypes, Ids
  <2> QED
    BY <1>1, <1>2, <2>1, TreeAssumption DEF TreeTypes, NoEntry
<1>4. e \in TreeEntry
  BY <1>3 DEF Plain, TreeEntry, EntryKinds, Speakers
<1>5. e.parent = leaf /\ e.kind = "tool" /\ e.ref = LastAnswer
  BY DEF Plain
<1> HIDE DEF e
<1>6. Fits(e)
  BY <1>1, <1>2, <1>3, <1>4, <1>5 DEF Fits
<1>7. appendEntry(e)
  BY DEF ToolResult, e
<1> QED
  BY <1>1, <1>6, <1>7, QuietAppend

LEMMA AppendAnswerKeeps ==
  ASSUME TreeInv, NEW calls \in {0, 1}, AppendAnswer(calls)
  PROVE  TreeInv'
<1> DEFINE e == Plain("assistant", calls)
<1>1. /\ TreeTypes /\ CompactionsRetain /\ ResultsFollow /\ work' = NoWork /\ work = NoWork
      /\ open' = calls /\ running' /\ waiting' \in Seq(1..MaxEntries) /\ appendEntry(e)
      /\ treeEntries' = Append(treeEntries, e)
  BY DEF TreeInv, TreeTypes, AppendAnswer, AtTurn, appendEntry
<1>2. Fits(e)
  <2>1. calls \in 0..MaxEntries
    BY TreeAssumption
  <2> QED
    BY <1>1, <2>1, PlainFits DEF EntryKinds, Speakers
<1>3. CASE calls = 0
  BY <1>1, <1>2, <1>3, QuietAppend
<1>4. CASE calls = 1
  <2> PICK n : n = Len(treeEntries) + 1
    OBVIOUS
  <2>1. /\ Entries(treeEntries') /\ leaf' \in Ids' /\ CompactionsRetain' /\ ResultsFollow'
        /\ CurrentBranch' = CurrentBranch \cup {n} /\ CurrentBranch \subseteq Ids
    <3>1. e.parent = leaf
      BY DEF Plain
    <3> HIDE DEF e
    <3> QED
      BY <1>1, <1>2, <3>1, AppendKeeps, LeafPath
  <2>2. /\ Ids' = Ids \cup {n} /\ n \notin Ids /\ treeEntries'[n] = e
        /\ \A i \in Ids : treeEntries'[i] = treeEntries[i]
        /\ Len(treeEntries') = n
    <3> HIDE DEF e
    <3> QED
      BY <1>1, <2>1, PathAppended DEF TreeTypes
  <2>3. TreeTypes'
    BY <1>1, <1>4, <2>1, <2>2, AppendTypes
  <2>4. n \in Nat /\ Ids = 1..(n - 1) /\ \A i \in Ids : i \in Nat /\ i < n
    <3>1. Len(treeEntries) \in Nat /\ Ids = 1..Len(treeEntries)
      BY <1>1 DEF TreeTypes, Entries, Ids
    <3> QED
      BY <3>1
  <2>5. Kind(n)' = "assistant"
    BY <2>2 DEF Kind, Plain
  <2> HIDE DEF e
  <2>6. LastAnswer' = n
    <3>1. \E a \in CurrentBranch' : Kind(a)' = "assistant"
      BY <2>1, <2>5
    <3>2. (/\ LastAnswer \in CurrentBranch /\ Kind(LastAnswer) = "assistant"
           /\ \A i \in CurrentBranch : Kind(i) = "assistant" => i <= LastAnswer)'
      <4> DEFINE S == {i \in CurrentBranch' : treeEntries'[i].kind = "assistant"}
      <4>1. S \in SUBSET (0..n) /\ n \in S
        <5>1. (\A i \in Ids : i \in 0..n) /\ n \in 0..n
          BY <2>4
        <5>2. CurrentBranch' \subseteq Ids \cup {n}
          BY <2>1
        <5> QED
          BY <2>1, <2>5, <5>1, <5>2 DEF Kind
      <4>2. LastAnswer' = Max(S)
        BY DEF LastAnswer
      <4>3. Max(S) \in S /\ \A y \in S : y <= Max(S)
        <5> HIDE DEF S
        <5> QED
          BY <2>4, <4>1, MaxIs
      <4> QED
        BY <4>2, <4>3 DEF Kind
    <3>3. LastAnswer' \in CurrentBranch' /\ n <= LastAnswer'
      BY <2>1, <2>5, <3>2
    <3> QED
      BY <2>1, <2>4, <3>3
  <2>7. \A i \in CurrentBranch' : i \in Nat /\ i <= n
    BY <2>1, <2>4
  <2>8. (Follows(CurrentBranch, n))'
    <3>1. ~(LastCompaction(CurrentBranch)' > n)
      <4> DEFINE S == {i \in CurrentBranch' : treeEntries'[i].kind = "compaction"}
      <4>1. LastCompaction(CurrentBranch)' = IF S = {} THEN 0 ELSE Max(S)
        BY DEF LastCompaction, Greatest
      <4>2. S # {} => Max(S) \in S
        <5>1. S \in SUBSET (0..n)
          BY <2>4, <2>7
        <5> HIDE DEF S
        <5> QED
          BY <2>4, <5>1, MaxIs
      <4>3. \A i \in S : i \in Nat /\ i <= n
        BY <2>7
      <4> HIDE DEF S
      <4> QED
        BY <2>4, <4>1, <4>2, <4>3
    <3>2. \A i \in CurrentBranch' : ~(i > n)
      BY <2>4, <2>7
    <3> QED
      BY <3>1, <3>2 DEF Follows, Shown
  <2>9. OpenAnswer'
    <3>1. n < Len(treeEntries') + 1
      BY <2>2, <2>4
    <3> QED
      BY <2>1, <2>2, <2>5, <2>6, <2>8, <3>1 DEF OpenAnswer, FollowsAnswer
  <2>10. PlanRetains' /\ PlanCovers'
    BY <1>1 DEF PlanRetains, PlanCovers, NoWork
  <2> QED
    BY <2>1, <2>3, <2>9, <2>10 DEF TreeInv
<1> QED
  BY <1>3, <1>4

\* The entries of the context.
ShownOf(B) ==
  (IF LastCompaction(B) = 0 THEN {} ELSE {LastCompaction(B)})
    \cup TailOf(B) \cup Spoken(B, StartOf(B))

LEMMA ContextSet ==
  TreeTypes /\ CompactionsRetain => ToSet(Context) = ShownOf(CurrentBranch)
<1> SUFFICES ASSUME TreeTypes, CompactionsRetain
             PROVE  ToSet(Context) = ShownOf(CurrentBranch)
  OBVIOUS
<1> QED
  BY BranchesRooted, ContextIs DEF Context, ShownOf

\* An entry appended while a compaction waits: the branch's last compaction
\* stays, and all it shows.
LEMMA ShownGrows ==
  ASSUME TreeTypes, CompactionsRetain, NEW e, treeEntries' = Append(treeEntries, e),
         Entries(treeEntries'), e.kind # "compaction",
         NEW n, n = Len(treeEntries) + 1, CurrentBranch' = CurrentBranch \cup {n}
  PROVE  ShownOf(CurrentBranch)' \subseteq ShownOf(CurrentBranch) \cup {n}
<1>1. Rooted(CurrentBranch) /\ CurrentBranch \subseteq Ids
  BY BranchesRooted DEF Rooted
<1> PICK B : B = CurrentBranch
  OBVIOUS
<1> PICK D : D = B \cup {n}
  OBVIOUS
<1>2. /\ Ids' = Ids \cup {n} /\ n \notin Ids /\ treeEntries'[n] = e
      /\ \A i \in Ids : treeEntries'[i] = treeEntries[i]
  BY PathAppended DEF TreeTypes
<1>3. LastCompaction(D)' = LastCompaction(B)
  <2>1. {i \in D : treeEntries'[i].kind = "compaction"}
          = {i \in B : treeEntries[i].kind = "compaction"}
    BY <1>1, <1>2
  <2> QED
    BY <2>1 DEF LastCompaction
<1> DEFINE c == LastCompaction(B)
<1>4. /\ c = 0 \/ c \in Ids
      /\ c > 0 => treeEntries[c].ref \in B
      /\ c \in Nat
  BY <1>1, KeptBranch
<1>5. FirstKept(D)' = FirstKept(B)
  <2>1. c > 0 => treeEntries'[c].ref = treeEntries[c].ref
    <3>1. c > 0 => c \in Ids
      BY <1>4
    <3> QED
      BY <1>2, <3>1
  <2>2. c > 0 => treeEntries[c].ref \in B /\ treeEntries[c].ref \in D
    BY <1>4
  <2> QED
    BY <1>3, <2>1, <2>2 DEF FirstKept
<1>6. TailOf(D)' = TailOf(B)
  BY <1>2, <1>3, <1>4 DEF TailOf
<1>7. StartOf(D)' = StartOf(B)
  BY <1>3, <1>5, <1>6 DEF StartOf
<1>8. ASSUME NEW s PROVE Spoken(D, s)' \subseteq Spoken(B, s) \cup {n}
  BY <1>1, <1>2 DEF Spoken, entryMessage
<1>9. Spoken(D, StartOf(D))' \subseteq Spoken(B, StartOf(B)) \cup {n}
  BY <1>7, <1>8 DEF Spoken
<1>10. ShownOf(D)' \subseteq ShownOf(B) \cup {n}
  BY ZenonT(60), <1>3, <1>6, <1>9 DEF ShownOf
<1>11. ShownOf(CurrentBranch)' = ShownOf(D)'
  BY DEF ShownOf, TailOf, Spoken, StartOf, LastCompaction, FirstKept
<1> QED
  BY <1>10, <1>11

LEMMA PollControlKeeps ==
  ASSUME TreeInv, PollControl
  PROVE  TreeInv'
<1> DEFINE e == Plain("user", 0)
<1> PICK n : n = Len(treeEntries) + 1
  OBVIOUS
<1>1. /\ TreeTypes /\ CompactionsRetain /\ ResultsFollow /\ running' /\ appendEntry(e)
      /\ waiting' = Append(waiting, n) /\ open' = open /\ work' = work
      /\ treeEntries' = Append(treeEntries, e) /\ waiting \in Seq(1..MaxEntries)
      /\ open \in {0, 1} /\ (open = 1 => running /\ work = NoWork)
  BY DEF TreeInv, TreeTypes, PollControl, appendEntry
<1>2. Fits(e) /\ e.parent = leaf /\ e.kind = "user" /\ e.ref = 0
  <2>1. 0 \in 0..MaxEntries
    BY TreeAssumption
  <2>2. Fits(e)
    BY <1>1, <2>1, PlainFits DEF EntryKinds, Speakers
  <2>3. e.parent = leaf /\ e.kind = "user" /\ e.ref = 0
    BY DEF Plain
  <2> QED
    BY <2>2, <2>3
<1> HIDE DEF e
<1>3. /\ Entries(treeEntries') /\ leaf' \in Ids' /\ CompactionsRetain' /\ ResultsFollow'
      /\ CurrentBranch' = CurrentBranch \cup {n} /\ CurrentBranch \subseteq Ids
      /\ n <= MaxEntries
  BY <1>1, <1>2, AppendKeeps, LeafPath
<1>4. /\ Ids' = Ids \cup {n} /\ n \notin Ids /\ treeEntries'[n] = e
      /\ \A i \in Ids : treeEntries'[i] = treeEntries[i]
      /\ Len(treeEntries') = n
  BY <1>1, <1>3, PathAppended DEF TreeTypes
<1>5. n \in Nat /\ n > 0 /\ Ids = 1..(n - 1)
  <2>1. Len(treeEntries) \in Nat /\ Ids = 1..Len(treeEntries)
    BY <1>1 DEF TreeTypes, Entries, Ids
  <2> QED
    BY <2>1
<1>6. waiting' \in Seq(1..MaxEntries) /\ ToSet(waiting) \subseteq ToSet(waiting')
      /\ n \in ToSet(waiting')
  <2>1. n \in 1..MaxEntries
    BY <1>3, <1>5, TreeAssumption
  <2>2. waiting' \in Seq(1..MaxEntries) /\ Len(waiting') = Len(waiting) + 1
        /\ waiting'[Len(waiting) + 1] = n /\ \A k \in DOMAIN waiting : waiting'[k] = waiting[k]
        /\ DOMAIN waiting' = 1..(Len(waiting) + 1) /\ DOMAIN waiting = 1..Len(waiting)
        /\ Len(waiting) \in Nat
    BY <1>1, <2>1
  <2>3. DOMAIN waiting \subseteq DOMAIN waiting' /\ Len(waiting) + 1 \in DOMAIN waiting'
    BY <2>2
  <2> QED
    BY <2>2, <2>3 DEF ToSet
<1>7. TreeTypes'
  BY <1>1, <1>3, <1>4, <1>6, AppendTypes
<1>8. OpenAnswer'
  <2> SUFFICES ASSUME open = 1
               PROVE  FollowsAnswer(CurrentBranch, Len(treeEntries) + 1, LastAnswer)'
    BY <1>1 DEF OpenAnswer
  <2>1. {i \in CurrentBranch' : treeEntries'[i].kind = "assistant"}
          = {i \in CurrentBranch : treeEntries[i].kind = "assistant"}
    BY <1>2, <1>3, <1>4
  <2>2. LastAnswer' = LastAnswer
    BY <2>1 DEF LastAnswer
  <2>3. LastAnswer \in CurrentBranch /\ LastAnswer < n /\ Kind(LastAnswer) = "assistant"
    BY DEF TreeInv, OpenAnswer, FollowsAnswer
  <2>4. LastAnswer \in CurrentBranch' /\ treeEntries'[LastAnswer].kind = "assistant"
    BY <1>3, <1>4, <2>3 DEF Kind
  <2>5. n \in Ids' /\ LastAnswer <= n /\ n <= Len(treeEntries') + 1
        /\ LastAnswer < Len(treeEntries') + 1 /\ treeEntries'[n].kind = "user"
    <3>1. LastAnswer \in Nat
      BY <1>3, <1>5, <2>3
    <3> QED
      BY <1>2, <1>4, <1>5, <2>3, <3>1
  <2> QED
    BY <2>2, <2>4, <2>5 DEF FollowsAnswer, UserBetween, Kind
<1>9. PlanRetains'
  <2> SUFFICES ASSUME work.op = "compact"
               PROVE  Retains(CurrentBranch, work.first, work.tail)'
    BY <1>1 DEF PlanRetains
  <2> PICK B : B = CurrentBranch
    OBVIOUS
  <2> PICK D : D = B \cup {n}
    OBVIOUS
  <2> PICK f : f = work.first
    OBVIOUS
  <2> PICK T : T = work.tail
    OBVIOUS
  <2>1. Retains(B, f, T)
    BY DEF TreeInv, PlanRetains
  <2>2. Retains(B, f, T)'
    BY <1>1, <1>3, <2>1, OldRetains
  <2>3. treeEntries'[n].kind = "user"
    BY <1>2, <1>4
  <2>4. Retains(D, f, T)'
    BY <2>2, <2>3 DEF Retains, Kind
  <2> QED
    BY <1>1, <1>3, <2>4 DEF Retains
<1>10. PlanCovers'
  <2> SUFFICES ASSUME work.op = "compact", NEW m \in ToSet(Context'), entryMessage(m)'
               PROVE  m \in work.tail \/ TextOf(m)' \in (work.covers \cup ToSet(waiting'))
    BY <1>1 DEF PlanCovers
  <2>1. ToSet(Context') \subseteq ToSet(Context) \cup {n}
    <3>1. ToSet(Context) = ShownOf(CurrentBranch)
      BY <1>1, ContextSet
    <3>2. ToSet(Context') = ShownOf(CurrentBranch)'
      <4>1. (TreeTypes /\ CompactionsRetain)' => (ToSet(Context) = ShownOf(CurrentBranch))'
        BY ContextSet, PTL
      <4> QED
        BY <1>3, <1>7, <4>1
    <3>3. ShownOf(CurrentBranch)' \subseteq ShownOf(CurrentBranch) \cup {n}
      BY <1>1, <1>2, <1>3, ShownGrows
    <3> QED
      BY <3>1, <3>2, <3>3
  <2>2. CASE m = n
    BY <1>2, <1>4, <1>6, <2>2 DEF TextOf
  <2>3. CASE m # n
    <3>1. m \in ToSet(Context) /\ m \in Ids
      <4>1. ToSet(Context) \subseteq CurrentBranch
        BY ContextStands DEF ContextOnBranch
      <4> QED
        BY <1>3, <2>1, <2>3, <4>1
    <3>2. entryMessage(m) /\ TextOf(m)' = TextOf(m)
      BY <1>4, <3>1 DEF entryMessage, TextOf
    <3>3. m \in work.tail \/ TextOf(m) \in (work.covers \cup ToSet(waiting))
      BY <3>1, <3>2 DEF TreeInv, PlanCovers
    <3> QED
      BY <1>6, <3>2, <3>3
  <2> QED
    BY <2>2, <2>3
<1> QED
  BY <1>3, <1>7, <1>8, <1>9, <1>10 DEF TreeInv

LEMMA injectQueuedMessagesKeeps ==
  ASSUME TreeInv, injectQueuedMessages
  PROVE  TreeInv'
<1>1. /\ TreeTypes /\ work' = NoWork /\ open' = 0 /\ waiting \in Seq(1..MaxEntries)
      /\ waiting # <<>> /\ waiting' = Tail(waiting)
  BY DEF TreeInv, TreeTypes, injectQueuedMessages, AtTurn
<1>2. Head(waiting) \in 0..MaxEntries /\ waiting' \in Seq(1..MaxEntries)
  <2>1. Head(waiting) \in 1..MaxEntries /\ Tail(waiting) \in Seq(1..MaxEntries)
    BY <1>1, HeadTailProperties
  <2> QED
    BY <1>1, <2>1, TreeAssumption
<1>3. Fits(Plain("user", Head(waiting)))
  BY <1>1, <1>2, PlainFits DEF EntryKinds, Speakers
<1> QED
  BY <1>1, <1>2, <1>3, QuietAppend DEF injectQueuedMessages

LEMMA AppendOperationKeeps ==
  ASSUME TreeInv, NEW kind \in {"custom_message", "note"}, AppendOperation(kind)
  PROVE  TreeInv'
<1>1. /\ TreeTypes /\ work' = NoWork /\ open' = 0 /\ waiting' \in Seq(1..MaxEntries)
  BY DEF TreeInv, TreeTypes, AppendOperation, Idle
<1>2. Fits(Plain(kind, 0))
  BY <1>1, PlainFits, TreeAssumption DEF EntryKinds, Speakers
<1> QED
  BY <1>1, <1>2, QuietAppend DEF AppendOperation

LEMMA EndOrFailKeeps ==
  ASSUME TreeInv, EndPrompt \/ FailWork
  PROVE  TreeInv'
<1>1. /\ work' = NoWork /\ open' = 0 /\ waiting' = <<>> /\ treeEntries' = treeEntries
      /\ leaf' = leaf
  BY DEF EndPrompt, FailWork
<1>2. waiting' \in Seq(1..MaxEntries)
  BY <1>1
<1>3. TreeTypes'
  BY <1>1, <1>2 DEF TreeInv, TreeTypes, Ids, NoWork
<1>4. PlanRetains' /\ PlanCovers'
  BY <1>1 DEF PlanRetains, PlanCovers, NoWork
<1> QED
  BY <1>1, <1>2, <1>3, <1>4, QuietStep

LEMMA NavigateKeeps ==
  ASSUME TreeInv, NEW target \in Targets, Navigate(target) \/ BeginNavigate(target)
  PROVE  TreeInv'
<1>1. /\ TreeTypes /\ open' = 0 /\ waiting' \in Seq(1..MaxEntries) /\ treeEntries' = treeEntries
      /\ Ids' = Ids /\ running' = running
  BY DEF TreeInv, TreeTypes, Navigate, BeginNavigate, Idle, Ids
<1>2. target \in Ids \cup {NoEntry}
  BY DEF Targets, Ids
<1>3. CASE Navigate(target)
  <2>1. work' = NoWork /\ leaf' = target
    BY <1>3 DEF Navigate, Idle
  <2>2. TreeTypes'
    BY <1>1, <1>2, <2>1 DEF TreeTypes, NoWork
  <2>3. PlanRetains' /\ PlanCovers'
    BY <2>1 DEF PlanRetains, PlanCovers, NoWork
  <2> QED
    BY <1>1, <1>2, <2>1, <2>2, <2>3, QuietStep
<1>4. CASE BeginNavigate(target)
  <2>1. /\ leaf' = leaf /\ work'.op = "navigate" /\ work'.first = target
        /\ work'.covers = TextsOf(Abandoned(target))
    BY <1>4 DEF BeginNavigate
  <2>2. TextsOf(Abandoned(target)) \subseteq 1..MaxEntries
    <3>1. ASSUME NEW i \in Ids PROVE TextOf(i) \in 1..MaxEntries
      <4>1. i \in 1..MaxEntries /\ treeEntries[i].ref \in 0..MaxEntries
        BY <1>1, EntryFields DEF TreeTypes, Ids, TreeEntry
      <4> QED
        BY <4>1 DEF TextOf
    <3>2. Abandoned(target) \subseteq Ids
      BY <1>1, LeafPath DEF Abandoned, Messages
    <3> QED
      BY <3>1, <3>2 DEF TextsOf
  <2>3. TreeTypes'
    BY <1>1, <1>2, <2>1, <2>2 DEF TreeTypes
  <2>4. PlanRetains' /\ PlanCovers'
    BY <2>1 DEF PlanRetains, PlanCovers
  <2> QED
    BY <1>1, <2>1, <2>3, <2>4, QuietStep
<1> QED
  BY <1>3, <1>4

LEMMA BeginCompactKeeps ==
  ASSUME TreeInv, BeginCompact
  PROVE  TreeInv'
<1>1. /\ TreeTypes /\ CompactionsRetain /\ ResultsFollow /\ open' = 0
      /\ waiting' \in Seq(1..MaxEntries) /\ treeEntries' = treeEntries /\ leaf' = leaf
      /\ waiting' = waiting /\ work' = prepareCompaction(CurrentBranch)
  BY DEF TreeInv, TreeTypes, BeginCompact, Idle, AtTurn
<1>2. CASE work' = NoWork
  <2>1. TreeTypes'
    BY <1>1, <1>2 DEF TreeTypes, Ids, NoWork
  <2>2. PlanRetains' /\ PlanCovers'
    BY <1>2 DEF PlanRetains, PlanCovers, NoWork
  <2> QED
    BY <1>1, <2>1, <2>2, QuietStep
<1>3. CASE work' # NoWork
  <2>1. /\ work'.op = "compact" /\ Retains(CurrentBranch, work'.first, work'.tail)
        /\ work'.covers \subseteq 1..MaxEntries
        /\ \A m \in ToSet(Context) : entryMessage(m) =>
             m \in work'.tail \/ TextOf(m) \in work'.covers
    BY <1>1, <1>3, BranchesRooted, PlanIs DEF Context
  <2>2. CurrentBranch' = CurrentBranch /\ Context' = Context
        /\ \A i : entryMessage(i)' = entryMessage(i) /\ TextOf(i)' = TextOf(i)
    BY <1>1, SameBranch
  <2>3. TreeTypes'
    BY <1>1, <2>1 DEF TreeTypes, Ids
  <2>4. PlanRetains'
    BY <1>1, <2>1, <2>2 DEF PlanRetains, Retains, UserBetween, Kind, Ids, entryMessage
  <2>5. PlanCovers'
    BY <2>1, <2>2 DEF PlanCovers
  <2> QED
    BY <1>1, <2>3, <2>4, <2>5, QuietStep
<1> QED
  BY <1>2, <1>3

\* The entry of a compaction that is done, and that of a navigation.
Compacted == [Plain("compaction", work.first) EXCEPT !.tail = work.tail, !.covers = work.covers]
Summarised == [Plain("branch_summary", 0) EXCEPT !.parent = work.first, !.covers = work.covers]

LEMMA FinishCompactFits ==
  ASSUME TreeInv, FinishCompact
  PROVE  /\ Fits(Compacted) /\ appendEntry(Compacted) /\ open = 0
         /\ Compacted = [kind |-> "compaction", parent |-> leaf, ref |-> work.first,
                         tail |-> work.tail, covers |-> work.covers]
<1>1. /\ TreeTypes /\ work.op = "compact" /\ Retains(CurrentBranch, work.first, work.tail)
      /\ work.covers \subseteq 1..MaxEntries /\ open = 0
  BY DEF TreeInv, TreeTypes, PlanRetains, FinishCompact, NoWork
<1>2. Compacted = [kind |-> "compaction", parent |-> leaf, ref |-> work.first,
                   tail |-> work.tail, covers |-> work.covers]
  <2> DEFINE q == Plain("compaction", work.first)
  <2>1. q = [kind |-> "compaction", parent |-> leaf, ref |-> work.first, tail |-> {}, covers |-> {}]
    BY DEF Plain
  <2>2. Compacted = [q EXCEPT !.tail = work.tail, !.covers = work.covers]
    BY DEF Compacted
  <2> HIDE DEF q
  <2>3. Compacted = [[q EXCEPT !.tail = work.tail] EXCEPT !.covers = work.covers]
    BY <2>2
  <2> QED
    BY <2>1, <2>3
<1>3. CurrentBranch = Path[leaf] /\ CurrentBranch \subseteq Ids
  BY <1>1, LeafPath
<1>4. /\ work.first \in 0..MaxEntries /\ work.tail \subseteq 1..MaxEntries
      /\ leaf \in Ids \cup {0, NoEntry} /\ leaf \in 0..NoEntry
  <2>1. \A i \in Ids : i \in 1..MaxEntries
    BY <1>1, EntryFields DEF TreeTypes, Ids
  <2>2. work.first \in Ids /\ work.tail \subseteq Ids
    BY <1>1, <1>3 DEF Retains
  <2> QED
    BY <1>1, <2>1, <2>2, TreeAssumption DEF TreeTypes, NoEntry
<1>5. Compacted \in TreeEntry
  BY <1>1, <1>2, <1>4 DEF TreeEntry, EntryKinds
<1>6. Compacted.kind = "compaction" /\ Compacted.parent = leaf /\ Compacted.ref = work.first
      /\ Compacted.tail = work.tail
  BY <1>2
<1>7. Fits(Compacted)
  BY <1>1, <1>3, <1>4, <1>5, <1>6 DEF Fits
<1> QED
  BY <1>1, <1>2, <1>7 DEF FinishCompact, Compacted

LEMMA FinishCompactKeeps ==
  ASSUME TreeInv, FinishCompact
  PROVE  TreeInv'
<1>1. work' = NoWork /\ open' = open /\ waiting' \in Seq(1..MaxEntries)
  BY DEF TreeInv, TreeTypes, FinishCompact
<1> QED
  BY <1>1, FinishCompactFits, QuietAppend

LEMMA FinishNavigateKeeps ==
  ASSUME TreeInv, FinishNavigate
  PROVE  TreeInv'
<1>1. /\ TreeTypes /\ work.op = "navigate" /\ work.first \in Ids \cup {NoEntry}
      /\ work.covers \subseteq 1..MaxEntries /\ open' = 0 /\ work' = NoWork
      /\ waiting' \in Seq(1..MaxEntries)
  BY DEF TreeInv, TreeTypes, FinishNavigate, NoWork
<1>2. Summarised = [kind |-> "branch_summary", parent |-> work.first, ref |-> 0,
                    tail |-> {}, covers |-> work.covers]
  <2> DEFINE q == Plain("branch_summary", 0)
  <2>1. q = [kind |-> "branch_summary", parent |-> leaf, ref |-> 0, tail |-> {}, covers |-> {}]
    BY DEF Plain
  <2>2. Summarised = [q EXCEPT !.parent = work.first, !.covers = work.covers]
    BY DEF Summarised
  <2> HIDE DEF q
  <2>3. Summarised = [[q EXCEPT !.parent = work.first] EXCEPT !.covers = work.covers]
    BY <2>2
  <2> QED
    BY <2>1, <2>3
<1>3. work.first \in 0..NoEntry
  <2>1. \A i \in Ids : i \in 1..MaxEntries
    BY <1>1, EntryFields DEF TreeTypes, Ids
  <2> QED
    BY <1>1, <2>1, TreeAssumption DEF NoEntry
<1>4. Summarised \in TreeEntry
  BY <1>1, <1>2, <1>3, TreeAssumption DEF TreeEntry, EntryKinds
<1>5. Summarised.kind = "branch_summary" /\ Summarised.parent = work.first
  BY <1>2
<1>6. Fits(Summarised)
  BY <1>1, <1>4, <1>5 DEF Fits
<1> QED
  BY <1>1, <1>6, QuietAppend DEF FinishNavigate, Summarised

-----------------------------------------------------------------------------
(* The theorems.                                                           *)

LEMMA TreeStart == TreeInit => TreeInv
<1> SUFFICES ASSUME TreeInit PROVE TreeInv
  OBVIOUS
<1>1. /\ treeEntries = <<>> /\ leaf = 0 /\ running = FALSE /\ open = 0 /\ waiting = <<>>
      /\ work = NoWork /\ NoWork.op = "none"
  BY DEF TreeInit, NoWork
<1>2. Ids = {} /\ Entries(treeEntries)
  BY <1>1, TreeAssumption DEF Ids, Entries
<1>3. TreeTypes
  BY <1>1, <1>2 DEF TreeTypes
<1> QED
  BY <1>1, <1>2, <1>3 DEF TreeInv, CompactionsRetain, PlanRetains, ResultsFollow, OpenAnswer,
                          PlanCovers

LEMMA TreeStep == TreeInv /\ [TreeNext]_treeVars => TreeInv'
<1> SUFFICES ASSUME TreeInv, [TreeNext]_treeVars PROVE TreeInv'
  OBVIOUS
<1>1. CASE StartPrompt
  BY <1>1, StartPromptKeeps
<1>2. CASE ToolResult
  BY <1>2, ToolResultKeeps
<1>3. CASE PollControl
  BY <1>3, PollControlKeeps
<1>4. CASE injectQueuedMessages
  BY <1>4, injectQueuedMessagesKeeps
<1>5. CASE EndPrompt \/ FailWork
  BY <1>5, EndOrFailKeeps
<1>6. CASE BeginCompact
  BY <1>6, BeginCompactKeeps
<1>7. CASE FinishCompact
  BY <1>7, FinishCompactKeeps
<1>8. CASE FinishNavigate
  BY <1>8, FinishNavigateKeeps
<1>9. CASE \E calls \in {0, 1} : AppendAnswer(calls)
  BY <1>9, AppendAnswerKeeps
<1>10. CASE \E kind \in {"custom_message", "note"} : AppendOperation(kind)
  BY <1>10, AppendOperationKeeps
<1>11. CASE \E target \in Targets : Navigate(target) \/ BeginNavigate(target)
  BY <1>11, NavigateKeeps
<1>12. CASE UNCHANGED treeVars
  <2>1. /\ treeEntries' = treeEntries /\ leaf' = leaf /\ running' = running /\ open' = open
        /\ waiting' = waiting /\ work' = work
    BY <1>12 DEF treeVars
  <2>2. /\ CurrentBranch' = CurrentBranch /\ Context' = Context /\ LastAnswer' = LastAnswer
        /\ \A i : entryMessage(i)' = entryMessage(i) /\ TextOf(i)' = TextOf(i)
    BY <2>1, SameBranch
  <2>3. CompactionsRetain' /\ ResultsFollow'
    BY <2>1, SameTree DEF TreeInv
  <2>4. TreeTypes'
    BY <2>1 DEF TreeInv, TreeTypes, Ids, NoWork
  <2>5. PlanRetains'
    BY <2>1, <2>2 DEF TreeInv, PlanRetains, Retains, UserBetween, Kind, Ids, entryMessage
  <2>6. PlanCovers'
    BY <2>1, <2>2 DEF TreeInv, PlanCovers
  <2>7. OpenAnswer'
    BY <2>1, <2>2 DEF TreeInv, OpenAnswer, FollowsAnswer, Follows, Shown, LastCompaction,
                      UserBetween, Kind, Ids, entryMessage
  <2> QED
    BY <2>3, <2>4, <2>5, <2>6, <2>7 DEF TreeInv
<1> QED
  BY <1>1, <1>2, <1>3, <1>4, <1>5, <1>6, <1>7, <1>8, <1>9, <1>10, <1>11, <1>12 DEF TreeNext

\* The invariant: what every compaction in the tree kept of its branch and
\* what one that waits for the provider is going to keep (compactWithReason),
\* where every result is, and where that of an open call is going to be.
THEOREM TreeHolds == TreeSpec => []TreeInv
  BY TreeStart, TreeStep, PTL DEF TreeSpec

\* The queue holds entries of the session.
RunTypes == running \in BOOLEAN /\ waiting \in Seq(Ids)

LEMMA RunTypesStay == TreeInv /\ RunTypes /\ [TreeNext]_treeVars => RunTypes'
<1> SUFFICES ASSUME TreeInv, RunTypes, [TreeNext]_treeVars PROVE RunTypes'
  OBVIOUS
<1>0. running' \in BOOLEAN /\ waiting \in Seq(Ids)
  <2>1. running' \in {running, TRUE, FALSE}
    BY DEF TreeNext, treeVars, StartPrompt, ToolResult, PollControl, injectQueuedMessages,
           EndPrompt, BeginCompact, FinishCompact, FinishNavigate, FailWork, AppendAnswer,
           AppendOperation, Navigate, BeginNavigate
  <2> QED
    BY <2>1 DEF RunTypes
<1>1. Entries(treeEntries) /\ Ids = 1..Len(treeEntries) /\ Len(treeEntries) \in Nat
  BY DEF TreeInv, TreeTypes, Entries, Ids
<1>2. Entries(treeEntries')
  BY TreeStep DEF TreeInv, TreeTypes
<1>3. ASSUME NEW e, appendEntry(e) PROVE Ids' = Ids \cup {Len(treeEntries) + 1}
  BY <1>1, <1>2, <1>3, PathAppended DEF appendEntry
<1>4. ASSUME Ids \subseteq Ids', NEW q \in Seq(Ids) PROVE q \in Seq(Ids')
  BY <1>4, SeqMonotonic
<1>5. ASSUME treeEntries' = treeEntries PROVE waiting' \in Seq(Ids')
  <2>1. Ids' = Ids
    BY <1>5 DEF Ids
  <2>2. waiting' = waiting \/ waiting' = <<>>
    <3>1. ASSUME NEW e, appendEntry(e) PROVE FALSE
      BY <1>1, <1>3, <2>1, <3>1
    <3> QED
      BY <3>1 DEF TreeNext, treeVars, StartPrompt, ToolResult, PollControl, injectQueuedMessages,
                  EndPrompt, BeginCompact, FinishCompact, FinishNavigate, FailWork, AppendAnswer,
                  AppendOperation, Navigate, BeginNavigate
  <2>3. <<>> \in Seq(Ids)
    OBVIOUS
  <2>4. CASE waiting' = waiting
    BY <1>0, <2>1, <2>4, Zenon
  <2>5. CASE waiting' = <<>>
    BY <2>1, <2>3, <2>5, Zenon
  <2> QED
    BY <2>2, <2>4, <2>5
<1>6. ASSUME \E e : appendEntry(e) PROVE waiting' \in Seq(Ids')
  <2>1. Ids \subseteq Ids' /\ Len(treeEntries) + 1 \in Ids'
    BY <1>3, <1>6
  <2>2. waiting \in Seq(Ids')
    BY <1>0, <1>4, <2>1
  <2>3. CASE PollControl
    BY <2>1, <2>2, <2>3 DEF PollControl
  <2>4. CASE injectQueuedMessages
    BY <2>2, <2>4, HeadTailProperties DEF injectQueuedMessages
  <2>5. CASE ~PollControl /\ ~injectQueuedMessages
    <3>1. waiting' = waiting \/ waiting' = <<>>
      BY <2>5 DEF TreeNext, treeVars, StartPrompt, ToolResult, EndPrompt, BeginCompact,
                  FinishCompact, FinishNavigate, FailWork, AppendAnswer, AppendOperation,
                  Navigate, BeginNavigate
    <3>2. <<>> \in Seq(Ids')
      OBVIOUS
    <3>3. CASE waiting' = waiting
      BY <2>2, <3>3, Zenon
    <3>4. CASE waiting' = <<>>
      BY <3>2, <3>4, Zenon
    <3> QED
      BY <3>1, <3>3, <3>4
  <2> QED
    BY <2>3, <2>4, <2>5
<1>7. treeEntries' = treeEntries \/ \E e : appendEntry(e)
  BY DEF TreeNext, treeVars, StartPrompt, ToolResult, PollControl, injectQueuedMessages,
         EndPrompt, BeginCompact, FinishCompact, FinishNavigate, FailWork, AppendAnswer,
         AppendOperation, Navigate, BeginNavigate
<1> QED
  BY <1>0, <1>5, <1>6, <1>7 DEF RunTypes

\* Every reachable state of the tree is of its type: parents come before
\* their children (appendEntry), the leaf and the queue name entries.
THEOREM TreeTypesHold == TreeSpec => []TreeTypeOK
<1>1. TreeInit => RunTypes
  <2>1. TreeInit => waiting \in Seq(Ids)
    BY DEF TreeInit
  <2>2. TreeInit => running \in BOOLEAN
    BY DEF TreeInit
  <2> QED
    BY <2>1, <2>2 DEF RunTypes
<1>2. TreeInv /\ RunTypes => TreeTypeOK
  <2> SUFFICES ASSUME TreeInv, RunTypes PROVE TreeTypeOK
    OBVIOUS
  <2>1. \A i \in Ids : i \in 1..MaxEntries
    BY EntryFields DEF TreeInv, TreeTypes, Ids
  <2>2. leaf \in 0..NoEntry
    BY <2>1, TreeAssumption DEF TreeInv, TreeTypes, NoEntry
  <2> QED
    BY <2>2 DEF RunTypes, TreeInv, TreeTypes, TreeTypeOK, Entries, Ids, NoWork
<1> QED
  BY <1>1, <1>2, RunTypesStay, TreeHolds, PTL DEF TreeSpec

\* messagesFromBranch gives the provider entries of the branch of the leaf
\* only and none of them twice, after any compactions and navigations.
THEOREM ContextStays == TreeSpec => []ContextOnBranch
<1>1. TreeInv => ContextOnBranch
  BY ContextStands
<1> QED
  BY <1>1, TreeHolds, PTL

\* The context shows no tool result without the answer that called the tool,
\* unless a control's message came between the two, wherever
\* prepareCompaction has cut.
THEOREM ResultsStay == TreeSpec => []ResultsKeepAnswers
<1>1. TreeInv => ResultsKeepAnswers
  BY ContextStands
<1> QED
  BY <1>1, TreeHolds, PTL

\* After a compaction the context has its summary and the tail it kept.
LEMMA Recalled ==
  ASSUME TreeInv, FinishCompact
  PROVE  work.covers \cup TextsOf(work.tail) \subseteq Known(ToSet(Context))'
<1>1. /\ TreeTypes /\ CompactionsRetain /\ ResultsFollow /\ work.op = "compact"
      /\ Retains(CurrentBranch, work.first, work.tail)
  BY DEF TreeInv, PlanRetains, FinishCompact
<1> PICK e : e = Compacted
  OBVIOUS
<1> PICK n : n = Len(treeEntries) + 1
  OBVIOUS
<1>2. /\ Fits(e) /\ appendEntry(e) /\ e.parent = leaf /\ e.kind = "compaction"
      /\ e.tail = work.tail /\ e.covers = work.covers /\ treeEntries' = Append(treeEntries, e)
  BY FinishCompactFits DEF appendEntry
<1>3. /\ Entries(treeEntries') /\ CurrentBranch' = CurrentBranch \cup {n}
      /\ CurrentBranch \subseteq Ids
  BY <1>1, <1>2, AppendKeeps, LeafPath
<1>4. /\ Ids' = Ids \cup {n} /\ n \notin Ids /\ treeEntries'[n] = e
      /\ \A i \in Ids : treeEntries'[i] = treeEntries[i]
  BY <1>1, <1>2, <1>3, PathAppended DEF TreeTypes
<1>5. n \in Nat /\ n > 0 /\ n \in 0..n /\ \A i \in Ids : i \in Nat /\ i < n /\ i \in 0..n
  <2>1. Len(treeEntries) \in Nat /\ Ids = 1..Len(treeEntries)
    BY <1>1 DEF TreeTypes, Entries, Ids
  <2> QED
    BY <2>1
<1>6. LastCompaction(CurrentBranch)' = n
  <2> DEFINE S == {i \in CurrentBranch' : treeEntries'[i].kind = "compaction"}
  <2>1. n \in S
    BY <1>2, <1>3, <1>4
  <2>2. S \in SUBSET (0..n)
    BY <1>3, <1>5
  <2>3. LastCompaction(CurrentBranch)' = Max(S)
    BY <2>1 DEF LastCompaction, Greatest
  <2> HIDE DEF S
  <2>4. Max(S) \in S /\ \A y \in S : y <= Max(S)
    BY <1>5, <2>1, <2>2, MaxIs
  <2>5. Max(S) \in 0..n /\ n <= Max(S)
    BY <2>1, <2>2, <2>4
  <2> QED
    BY <1>5, <2>3, <2>5
<1>7. ToSet(Context') = ShownOf(CurrentBranch)'
  <2>1. (TreeTypes /\ CompactionsRetain)'
    BY FinishCompactKeeps DEF TreeInv
  <2>2. (TreeTypes /\ CompactionsRetain)' => (ToSet(Context) = ShownOf(CurrentBranch))'
    BY ContextSet, PTL
  <2> QED
    BY <2>1, <2>2
<1>8. n \in ToSet(Context') /\ work.tail \subseteq ToSet(Context')
  BY <1>2, <1>4, <1>5, <1>6, <1>7 DEF ShownOf, TailOf
<1>9. Says(n)' = work.covers
  BY <1>2, <1>4 DEF Says
<1>10. ASSUME NEW t \in work.tail PROVE Says(t)' = {TextOf(t)}
  <2>1. t \in Ids /\ treeEntries'[t] = treeEntries[t] /\ treeEntries[t].kind \in Speakers
    BY <1>1, <1>3, <1>4 DEF Retains, entryMessage
  <2> QED
    BY <2>1 DEF Says, Speakers, TextOf
<1> QED
  BY <1>8, <1>9, <1>10 DEF Known, TextsOf

\* FinishCompact, the second half of compactWithReason, leaves every text
\* that the provider was shown word for word: in the tail it keeps, among
\* those its summary covers, or in the queue of a control that came while the
\* provider was asked.
THEOREM MessagesStay == TreeSpec => CompactionKeepsMessages
<1>1. ASSUME TreeInv, FinishCompact
      PROVE  TextsOf({i \in ToSet(Context) : entryMessage(i)})
               \subseteq Known(ToSet(Context))' \cup ToSet(waiting)
  <2> SUFFICES ASSUME NEW m \in ToSet(Context), entryMessage(m)
               PROVE  TextOf(m) \in Known(ToSet(Context))' \cup ToSet(waiting)
    BY DEF TextsOf
  <2>1. work.op = "compact"
    BY <1>1 DEF FinishCompact
  <2>2. m \in work.tail \/ TextOf(m) \in (work.covers \cup ToSet(waiting))
    BY <1>1, <2>1 DEF TreeInv, PlanCovers
  <2>3. m \in work.tail => TextOf(m) \in TextsOf(work.tail)
    BY DEF TextsOf
  <2> QED
    BY <1>1, <2>2, <2>3, Recalled
<1>2. TreeInv /\ [TreeNext]_treeVars =>
        [FinishCompact => TextsOf({i \in ToSet(Context) : entryMessage(i)})
                            \subseteq Known(ToSet(Context))' \cup ToSet(waiting)]_treeVars
  BY <1>1
<1> QED
  BY <1>2, TreeHolds, PTL DEF TreeSpec, CompactionKeepsMessages
-----------------------------------------------------------------------------
(* Forks of sessions.                                                      *)

\* The parents of a branch's entries are on it, each older than its entry.
Lineage(parents) ==
  /\ DOMAIN parents \subseteq 1..MaxEntry
  /\ \A e \in DOMAIN parents : parents[e] \in DOMAIN parents \cup {0} /\ parents[e] < e

\* f tells the ancestors of the entries up to n.
Ancestry(parents, n, f) ==
  f = [e \in 0..n |-> IF e = 0 THEN {}
                      ELSE IF e \in DOMAIN parents THEN f[parents[e]] \cup {e} ELSE {e}]

LEMMA AncestryExists ==
  ASSUME NEW parents, Lineage(parents)
  PROVE  \E f : Ancestry(parents, MaxEntry, f)
<1> DEFINE Gaps == {n \in 0..MaxEntry : \A f : ~Ancestry(parents, n, f)}
<1>1. SUFFICES ASSUME Gaps # {} PROVE FALSE
  BY ForksAssumption DEF Gaps
<1>2. PICK n \in Gaps : \A m \in Gaps : n <= m
  <2>1. Gaps \in SUBSET Nat
    BY ForksAssumption
  <2> HIDE DEF Gaps
  <2> QED
    BY <1>1, <2>1, LeastNat
<1>3. n \in 0..MaxEntry /\ n \in Nat /\ MaxEntry \in Nat /\ \A f : ~Ancestry(parents, n, f)
  BY <1>2, ForksAssumption
<1>4. CASE n = 0
  <2> DEFINE f == [e \in 0..0 |-> {}]
  <2>1. f = [e \in 0..0 |-> IF e = 0 THEN {}
                            ELSE IF e \in DOMAIN parents THEN f[parents[e]] \cup {e} ELSE {e}]
    OBVIOUS
  <2>2. Ancestry(parents, 0, f)
    BY <2>1 DEF Ancestry
  <2> HIDE DEF f
  <2> QED
    BY <1>3, <1>4, <2>2
<1>5. CASE n # 0
  <2>1. n > 0 /\ n - 1 \in 0..MaxEntry /\ n - 1 \notin Gaps
    BY <1>2, <1>3, <1>5
  <2>2. PICK f : Ancestry(parents, n - 1, f)
    BY <2>1
  <2> DEFINE own == IF n \in DOMAIN parents THEN f[parents[n]] \cup {n} ELSE {n}
             g == [e \in 0..n |-> IF e = n THEN own ELSE f[e]]
  <2>3. ASSUME NEW e \in 0..n
        PROVE  g[e] = IF e = 0 THEN {}
                      ELSE IF e \in DOMAIN parents THEN g[parents[e]] \cup {e} ELSE {e}
    <3>1. e \in DOMAIN parents => parents[e] \in 0..(n - 1) /\ parents[e] # n
      BY <1>3, <2>1 DEF Lineage
    <3>2. e \in DOMAIN parents => g[parents[e]] = f[parents[e]]
      BY <3>1, <2>1
    <3>3. CASE e = n
      <4>1. g[e] = own
        BY <3>3
      <4> HIDE DEF g
      <4> QED
        BY <2>1, <3>2, <3>3, <4>1
    <3>4. CASE e # n
      <4>1. e \in 0..(n - 1)
        BY <2>1, <3>4, <1>3
      <4>2. f[e] = IF e = 0 THEN {}
                   ELSE IF e \in DOMAIN parents THEN f[parents[e]] \cup {e} ELSE {e}
        BY <2>2, <4>1 DEF Ancestry
      <4>3. g[e] = f[e]
        BY <3>4
      <4> HIDE DEF g
      <4> QED
        BY <3>2, <4>2, <4>3
    <3> QED
      BY <3>3, <3>4
  <2>4. g = [e \in 0..n |-> g[e]]
    OBVIOUS
  <2> HIDE DEF g
  <2>5. Ancestry(parents, n, g)
    BY <2>3, <2>4 DEF Ancestry
  <2> QED
    BY <1>3, <2>5
<1> QED
  BY <1>4, <1>5

LEMMA AncestryAt ==
  ASSUME NEW parents, NEW n, NEW f, Ancestry(parents, n, f), NEW e \in 0..n
  PROVE  f[e] = IF e = 0 THEN {}
                ELSE IF e \in DOMAIN parents THEN f[parents[e]] \cup {e} ELSE {e}
<1> DEFINE g == [d \in 0..n |-> IF d = 0 THEN {}
                               ELSE IF d \in DOMAIN parents THEN f[parents[d]] \cup {d} ELSE {d}]
<1>1. f = g
  BY DEF Ancestry
<1>2. g[e] = IF e = 0 THEN {}
             ELSE IF e \in DOMAIN parents THEN f[parents[e]] \cup {e} ELSE {e}
  OBVIOUS
<1> QED
  BY <1>1, <1>2

LEMMA AncestorsTold ==
  ASSUME NEW parents, Lineage(parents)
  PROVE  \E f : Ancestry(parents, MaxEntry, f) /\ \A e : Ancestors(parents, e) = f[e]
<1> DEFINE P(g) == g = [e \in 0..MaxEntry |->
                     IF e = 0 THEN {}
                     ELSE IF e \in DOMAIN parents THEN g[parents[e]] \cup {e} ELSE {e}]
           f == CHOOSE g : P(g)
<1>1. PICK g : P(g)
  BY AncestryExists DEF Ancestry
<1>2. P(f)
  <2> HIDE DEF P
  <2> QED
    BY <1>1
<1>3. Ancestry(parents, MaxEntry, f)
  <2> HIDE DEF f
  <2> QED
    BY <1>2 DEF Ancestry
<1>4. \A e : Ancestors(parents, e) = f[e]
  BY DEF Ancestors
<1> HIDE DEF f
<1> QED
  BY <1>3, <1>4

\* The ancestors of an entry of a whole branch are one.
LEMMA AncestorsClosed ==
  ASSUME NEW parents, Lineage(parents), NEW tip \in DOMAIN parents
  PROVE  /\ tip \in Ancestors(parents, tip)
         /\ Ancestors(parents, tip) \subseteq DOMAIN parents
         /\ \A e \in Ancestors(parents, tip) : parents[e] \in Ancestors(parents, tip) \cup {0}
<1>1. PICK f : Ancestry(parents, MaxEntry, f) /\ \A e : Ancestors(parents, e) = f[e]
  BY AncestorsTold
<1> DEFINE Closed(e) == /\ e \in f[e] /\ f[e] \subseteq DOMAIN parents
                        /\ \A d \in f[e] : parents[d] \in f[e] \cup {0}
           Gaps == {e \in DOMAIN parents : ~Closed(e)}
<1>2. SUFFICES ASSUME Gaps # {} PROVE FALSE
  BY <1>1
<1>3. PICK n \in Gaps : \A m \in Gaps : n <= m
  <2>1. Gaps \in SUBSET Nat
    BY ForksAssumption DEF Lineage
  <2> HIDE DEF Gaps
  <2> QED
    BY <1>2, <2>1, LeastNat
<1>4. n \in DOMAIN parents /\ n \in 1..MaxEntry /\ MaxEntry \in Nat /\ ~Closed(n)
  BY <1>3, ForksAssumption DEF Lineage
<1>5. parents[n] \in DOMAIN parents \cup {0} /\ parents[n] < n
  BY <1>4 DEF Lineage
<1>6. f[n] = f[parents[n]] \cup {n} /\ f[0] = {}
  <2>1. n \in 0..MaxEntry /\ 0 \in 0..MaxEntry /\ n # 0
    BY <1>4
  <2> QED
    BY <1>1, <1>4, <2>1, AncestryAt
<1>7. CASE parents[n] = 0
  BY <1>4, <1>6, <1>7
<1>8. CASE parents[n] \in DOMAIN parents
  <2>1. parents[n] \notin Gaps
    BY <1>3, <1>4, <1>5, <1>8 DEF Lineage
  <2>2. Closed(parents[n])
    BY <1>8, <2>1
  <2> QED
    BY <1>4, <1>6, <1>8, <2>2
<1> QED
  BY <1>5, <1>7, <1>8

\* Every session is a whole branch, or several with one root, and what it has
\* in common with another session has the same parents there.
SessionsRooted ==
  /\ MaxEntry >= lastEntry /\ lastEntry \in Nat
  /\ Root \in DOMAIN sessions
  /\ \A s \in DOMAIN sessions :
       /\ sessions[s] = [entries |-> sessions[s].entries, leaf |-> sessions[s].leaf,
                         source |-> sessions[s].source]
       /\ Lineage(sessions[s].entries) /\ sessions[s].leaf \in DOMAIN sessions[s].entries
       /\ DOMAIN sessions[s].entries \subseteq 1..lastEntry
       /\ sessions[s].entries = [e \in DOMAIN sessions[s].entries |-> sessions[s].entries[e]]
OneHistory ==
  \A s, t \in DOMAIN sessions :
    \A e \in DOMAIN sessions[s].entries \cap DOMAIN sessions[t].entries :
      sessions[s].entries[e] = sessions[t].entries[e]

\* A fork has entries of its source, and a key.
ForksKeyed ==
  \A s \in DOMAIN sessions \ {Root} :
    /\ sessions[s].source \in DOMAIN sessions
    /\ DOMAIN sessions[s].entries \cap DOMAIN sessions[sessions[s].source].entries # {}
    /\ \E k \in DOMAIN keys : keys[k] = [session |-> s, source |-> sessions[s].source]

\* A request answers with its key's session, with entries that hold the leaf it
\* has read before.
RequestKnown(r) ==
  /\ answer[r] = [id |-> answer[r].id, entries |-> answer[r].entries, leaf |-> answer[r].leaf]
  /\ doing[r] \in {"row", "entries", "done"} =>
       /\ body[r].key \in DOMAIN keys
       /\ keys[body[r].key] = [session |-> answer[r].id, source |-> body[r].source]
  /\ doing[r] \in {"entries", "done"} =>
       answer[r].leaf \in DOMAIN sessions[answer[r].id].entries
  /\ doing[r] = "done" =>
       Lineage(answer[r].entries) /\ answer[r].leaf \in DOMAIN answer[r].entries

ForksInv ==
  /\ doing = [r \in Requests |-> doing[r]] /\ answer = [r \in Requests |-> answer[r]]
  /\ \A k \in DOMAIN keys :
       /\ keys[k] = [session |-> keys[k].session, source |-> keys[k].source]
       /\ keys[k].session \in DOMAIN sessions
  /\ SessionsRooted /\ OneHistory /\ ForksKeyed
  /\ \A r \in Requests : RequestKnown(r)

LEMMA ForksStart == ForksInit => ForksInv
<1> SUFFICES ASSUME ForksInit PROVE ForksInv
  OBVIOUS
<1> DEFINE first == <<0>>
<1>1. DOMAIN first = {1} /\ first[1] = 0 /\ first = [e \in DOMAIN first |-> first[e]]
  BY ONLY TRUE
<1>2. sessions = [s \in {Root} |-> [entries |-> first, leaf |-> 1, source |-> "none"]]
      /\ lastEntry = 1
  BY DEF ForksInit
<1>3. /\ doing = [r \in Requests |-> "lookup"]
      /\ answer = [r \in Requests |-> [id |-> "none", entries |-> <<>>, leaf |-> 0]]
      /\ DOMAIN keys = {}
  BY DEF ForksInit, NoSession
<1> HIDE DEF first
<1>4. Lineage(first)
  BY <1>1, ForksAssumption DEF Lineage
<1>5. SessionsRooted
  BY <1>1, <1>2, <1>4, ForksAssumption DEF SessionsRooted
<1>6. OneHistory /\ ForksKeyed
  BY <1>2 DEF OneHistory, ForksKeyed
<1>7. \A r \in Requests : RequestKnown(r)
  BY <1>3 DEF RequestKnown
<1> QED
  BY <1>3, <1>5, <1>6, <1>7 DEF ForksInv

LEMMA ForksEnough == ForksInv => ForksWhole
<1> SUFFICES ASSUME ForksInv PROVE ForksWhole
  OBVIOUS
<1>1. ASSUME NEW r \in Requests, NEW q \in Requests,
             doing[r] = "done", doing[q] = "done", body[r].key = body[q].key
      PROVE  answer[r].id = answer[q].id /\ body[r].source = body[q].source
  <2>1. keys[body[r].key] = [session |-> answer[r].id, source |-> body[r].source]
    BY <1>1 DEF ForksInv, RequestKnown
  <2>2. keys[body[r].key] = [session |-> answer[q].id, source |-> body[q].source]
    BY <1>1 DEF ForksInv, RequestKnown
  <2> QED
    BY <2>1, <2>2
<1>2. ASSUME NEW r \in Requests, doing[r] = "done"
      PROVE  Ancestors(answer[r].entries, answer[r].leaf) \subseteq DOMAIN answer[r].entries
  BY <1>2, AncestorsClosed DEF ForksInv, RequestKnown
<1>3. ASSUME NEW s \in DOMAIN sessions \ {Root}
      PROVE  LET fork == sessions[s]
                 old  == DOMAIN fork.entries \cap DOMAIN sessions[fork.source].entries
             IN  /\ Ancestors(fork.entries, fork.leaf) \subseteq DOMAIN fork.entries
                 /\ old # {}
                 /\ \A e \in old : fork.entries[e] = sessions[fork.source].entries[e]
                 /\ \E k \in DOMAIN keys : keys[k] = [session |-> s, source |-> fork.source]
  <2>1. Ancestors(sessions[s].entries, sessions[s].leaf) \subseteq DOMAIN sessions[s].entries
    BY AncestorsClosed DEF ForksInv, SessionsRooted
  <2>2. sessions[s].source \in DOMAIN sessions
    BY DEF ForksInv, ForksKeyed
  <2>3. \A e \in DOMAIN sessions[s].entries \cap DOMAIN sessions[sessions[s].source].entries :
          sessions[s].entries[e] = sessions[sessions[s].source].entries[e]
    BY <2>2 DEF ForksInv, OneHistory
  <2> QED
    BY <2>1, <2>3 DEF ForksInv, ForksKeyed
<1> QED
  BY <1>1, <1>2, <1>3 DEF ForksWhole
-----------------------------------------------------------------------------
\* What no step takes away: rows of keys, and entries of sessions.
ForksGrow ==
  /\ body' = body
  /\ \A k \in DOMAIN keys : k \in DOMAIN keys' /\ keys'[k] = keys[k]
  /\ \A s \in DOMAIN sessions :
       s \in DOMAIN sessions' /\ DOMAIN sessions[s].entries \subseteq DOMAIN sessions'[s].entries

LEMMA StillKnown ==
  ASSUME ForksInv, ForksGrow, NEW r \in Requests,
         doing'[r] = doing[r], answer'[r] = answer[r]
  PROVE  RequestKnown(r)'
<1>1. RequestKnown(r)
  BY DEF ForksInv
<1>2. body[r].key \in DOMAIN keys => keys[body[r].key].session \in DOMAIN sessions
  BY DEF ForksInv
<1>3. doing[r] \in {"row", "entries", "done"} => answer[r].id \in DOMAIN sessions
  BY <1>1, <1>2 DEF RequestKnown
<1> QED
  BY <1>1, <1>3 DEF RequestKnown, ForksGrow

\* A step of a request that leaves the tables alone, or that ends in an error.
LEMMA TablesStay ==
  ASSUME ForksInv, UNCHANGED <<sessions, keys, lastEntry, body>>,
         doing' = [q \in Requests |-> doing'[q]], answer' = [q \in Requests |-> answer'[q]],
         NEW r \in Requests, RequestKnown(r)',
         \A q \in Requests \ {r} : doing'[q] = doing[q] /\ answer'[q] = answer[q]
  PROVE  ForksInv'
<1>1. ForksGrow
  BY DEF ForksGrow
<1>2. \A q \in Requests : RequestKnown(q)'
  <2> SUFFICES ASSUME NEW q \in Requests, q # r PROVE RequestKnown(q)'
    OBVIOUS
  <2> QED
    BY <1>1, StillKnown
<1>3. SessionsRooted' /\ OneHistory' /\ ForksKeyed'
  BY DEF ForksInv, SessionsRooted, OneHistory, ForksKeyed
<1> QED
  BY <1>2, <1>3 DEF ForksInv

LEMMA Moves ==
  ASSUME ForksInv, NEW r \in Requests, NEW next, Goes(r, next)
  PROVE  /\ doing' = [q \in Requests |-> doing'[q]] /\ doing'[r] = next
         /\ \A q \in Requests \ {r} : doing'[q] = doing[q]
BY DEF ForksInv, Goes

LEMMA AnswerNamed ==
  ASSUME ForksInv, NEW r \in Requests, NEW id, Answers(r, id)
  PROVE  /\ answer' = [q \in Requests |-> answer'[q]]
         /\ answer'[r] = [id |-> id, entries |-> answer[r].entries, leaf |-> answer[r].leaf]
         /\ \A q \in Requests \ {r} : answer'[q] = answer[q]
<1>1. answer[r] = [id |-> answer[r].id, entries |-> answer[r].entries, leaf |-> answer[r].leaf]
  BY DEF ForksInv, RequestKnown
<1>2. [answer[r] EXCEPT !.id = id]
        = [id |-> id, entries |-> answer[r].entries, leaf |-> answer[r].leaf]
  BY <1>1
<1>3. answer'[r] = [answer[r] EXCEPT !.id = id]
  BY DEF ForksInv, Answers
<1>4. answer' = [q \in Requests |-> answer'[q]]
      /\ \A q \in Requests \ {r} : answer'[q] = answer[q]
  BY DEF ForksInv, Answers
<1> QED
  BY <1>2, <1>3, <1>4

LEMMA ReplayKnown ==
  ASSUME ForksInv, NEW r \in Requests, body[r].key \in DOMAIN keys, Replay(r),
         UNCHANGED <<sessions, keys, lastEntry, body>>
  PROVE  ForksInv'
<1>1. CASE Goes(r, "conflict") /\ UNCHANGED answer
  <2>1. doing'[r] = "conflict" /\ doing' = [q \in Requests |-> doing'[q]]
        /\ \A q \in Requests \ {r} : doing'[q] = doing[q]
    BY <1>1, Moves
  <2>2. RequestKnown(r)'
    BY <1>1, <2>1 DEF ForksInv, RequestKnown
  <2>3. answer' = [q \in Requests |-> answer'[q]] /\ \A q \in Requests : answer'[q] = answer[q]
    BY <1>1 DEF ForksInv
  <2> QED
    BY <2>1, <2>2, <2>3, TablesStay
<1>2. CASE /\ keys[body[r].key].source = body[r].source
           /\ Goes(r, "row") /\ Answers(r, keys[body[r].key].session)
  <2>1. doing'[r] = "row" /\ doing' = [q \in Requests |-> doing'[q]]
        /\ \A q \in Requests \ {r} : doing'[q] = doing[q]
    BY <1>2, Moves
  <2>2. /\ answer' = [q \in Requests |-> answer'[q]]
        /\ answer'[r] = [id |-> keys[body[r].key].session, entries |-> answer[r].entries,
                        leaf |-> answer[r].leaf]
        /\ \A q \in Requests \ {r} : answer'[q] = answer[q]
    BY <1>2, AnswerNamed
  <2>3. keys[body[r].key] = [session |-> keys[body[r].key].session,
                             source |-> keys[body[r].key].source]
    BY DEF ForksInv
  <2>4. RequestKnown(r)'
    BY <1>2, <2>1, <2>2, <2>3 DEF RequestKnown
  <2> QED
    BY <2>1, <2>2, <2>4, TablesStay
<1> QED
  BY <1>1, <1>2 DEF Replay

LEMMA Ends ==
  ASSUME ForksInv, NEW r \in Requests, NEW next, Goes(r, next),
         next \notin {"row", "entries", "done"},
         UNCHANGED <<sessions, keys, lastEntry, body, answer>>
  PROVE  ForksInv'
<1>1. doing'[r] = next /\ doing' = [q \in Requests |-> doing'[q]]
      /\ \A q \in Requests \ {r} : doing'[q] = doing[q]
  BY Moves
<1>2. RequestKnown(r)'
  BY <1>1 DEF ForksInv, RequestKnown
<1>3. answer' = [q \in Requests |-> answer'[q]] /\ \A q \in Requests : answer'[q] = answer[q]
  BY DEF ForksInv
<1> QED
  BY <1>1, <1>2, <1>3, TablesStay

LEMMA LookUpStep ==
  ASSUME ForksInv, NEW r \in Requests, LookUp(r)
  PROVE  ForksInv'
<1>1. CASE body[r].key \in DOMAIN keys
  BY <1>1, ReplayKnown DEF LookUp
<1>2. CASE body[r].key \notin DOMAIN keys
  <2>1. Goes(r, "fork") /\ UNCHANGED <<sessions, keys, lastEntry, body, answer>>
    BY <1>2 DEF LookUp
  <2> QED
    BY <2>1, Ends
<1> QED
  BY <1>1, <1>2

\* The copy: a path of the source to the leaf.
LEMMA CopyWhole ==
  ASSUME ForksInv, NEW r \in Requests, body[r].source \in DOMAIN sessions, LeafOf(r) # 0
  PROVE  LET from == sessions[body[r].source].entries
         IN  /\ Copy(r) = [entries |-> Copy(r).entries, leaf |-> Copy(r).leaf,
                           source |-> body[r].source]
             /\ Copy(r).entries = [e \in DOMAIN Copy(r).entries |-> from[e]]
             /\ Lineage(Copy(r).entries) /\ Copy(r).leaf \in DOMAIN Copy(r).entries
             /\ DOMAIN Copy(r).entries \subseteq DOMAIN from
<1> DEFINE from == sessions[body[r].source].entries
           tip == LeafOf(r)
<1>1. Lineage(from) /\ sessions[body[r].source].leaf \in DOMAIN from
  BY DEF ForksInv, SessionsRooted
<1>2. tip \in DOMAIN from
  BY <1>1 DEF LeafOf, Lineage
<1>3. Copy(r) = [entries |-> [e \in Ancestors(from, tip) |-> from[e]], leaf |-> tip,
                 source |-> body[r].source]
  BY DEF Copy
<1> HIDE DEF from, tip
<1> DEFINE path == Ancestors(from, tip)
<1>4. /\ tip \in path /\ path \subseteq DOMAIN from
      /\ \A e \in path : from[e] \in path \cup {0}
  BY <1>1, <1>2, AncestorsClosed
<1> HIDE DEF path
<1>5. Lineage([e \in path |-> from[e]])
  BY <1>1, <1>4 DEF Lineage
<1> QED
  BY <1>3, <1>4, <1>5 DEF path, from, tip

\* The transaction that creates a fork.
LEMMA ForkCreated ==
  ASSUME ForksInv, NEW r \in Requests,
         body[r].source \in DOMAIN sessions, LeafOf(r) # 0,
         SessionID(r) \notin DOMAIN sessions, body[r].key \notin DOMAIN keys,
         sessions' = Extended(sessions, SessionID(r), Copy(r)),
         keys' = Extended(keys, body[r].key,
                          [session |-> SessionID(r), source |-> body[r].source]),
         Goes(r, "row"), Answers(r, SessionID(r)), UNCHANGED <<lastEntry, body>>
  PROVE  ForksInv'
<1>1. PICK id : id = SessionID(r)
  OBVIOUS
<1>2. PICK new : new = Copy(r)
  OBVIOUS
<1>3. PICK from : from = sessions[body[r].source].entries
  OBVIOUS
<1>4. /\ new = [entries |-> new.entries, leaf |-> new.leaf, source |-> body[r].source]
      /\ new.entries = [e \in DOMAIN new.entries |-> from[e]]
      /\ Lineage(new.entries) /\ new.leaf \in DOMAIN new.entries
      /\ DOMAIN new.entries \subseteq DOMAIN from
  BY <1>2, <1>3, CopyWhole
<1>5. /\ DOMAIN sessions' = DOMAIN sessions \cup {id} /\ id \notin DOMAIN sessions
      /\ sessions'[id] = new /\ \A s \in DOMAIN sessions : sessions'[s] = sessions[s]
  BY <1>1, <1>2 DEF Extended
<1>6. PICK row : row = [session |-> id, source |-> body[r].source]
  OBVIOUS
<1>7. /\ DOMAIN keys' = DOMAIN keys \cup {body[r].key}
      /\ keys'[body[r].key] = row /\ \A k \in DOMAIN keys : keys'[k] = keys[k]
  BY <1>1, <1>6 DEF Extended
<1>8. ForksGrow
  BY <1>5, <1>7 DEF ForksGrow
<1>9. SessionsRooted'
  <2>1. DOMAIN from \subseteq 1..lastEntry
    BY <1>3 DEF ForksInv, SessionsRooted
  <2> QED
    BY <1>4, <1>5, <2>1 DEF ForksInv, SessionsRooted
<1>10. OneHistory'
  <2>1. \A s \in DOMAIN sessions : \A e \in DOMAIN sessions[s].entries \cap DOMAIN from :
          sessions[s].entries[e] = from[e]
    BY <1>3 DEF ForksInv, OneHistory
  <2>2. \A s \in DOMAIN sessions : \A e \in DOMAIN sessions[s].entries \cap DOMAIN new.entries :
          sessions[s].entries[e] = new.entries[e]
    BY <1>4, <2>1
  <2>3. ASSUME NEW s \in DOMAIN sessions', NEW t \in DOMAIN sessions',
               NEW e \in DOMAIN sessions'[s].entries \cap DOMAIN sessions'[t].entries
        PROVE  sessions'[s].entries[e] = sessions'[t].entries[e]
    <3>1. CASE s = id \/ t = id
      BY <1>5, <2>2, <3>1
    <3>2. CASE s # id /\ t # id
      BY <1>5, <3>2 DEF ForksInv, OneHistory
    <3> QED
      BY <3>1, <3>2
  <2> QED
    BY <2>3 DEF OneHistory
<1>11. ForksKeyed'
  <2>1. ASSUME NEW s \in DOMAIN sessions' \ {Root}
        PROVE  /\ sessions'[s].source \in DOMAIN sessions'
               /\ DOMAIN sessions'[s].entries
                    \cap DOMAIN sessions'[sessions'[s].source].entries # {}
               /\ \E k \in DOMAIN keys' :
                    keys'[k] = [session |-> s, source |-> sessions'[s].source]
    <3>1. CASE s = id
      <4>1. sessions'[s].source = body[r].source
        BY <1>4, <1>5, <3>1
      <4>2. sessions'[body[r].source].entries = from /\ body[r].source \in DOMAIN sessions'
        BY <1>3, <1>5
      <4>3. new.leaf \in DOMAIN sessions'[s].entries \cap DOMAIN from
        BY <1>4, <1>5, <3>1
      <4> QED
        BY <1>6, <1>7, <3>1, <4>1, <4>2, <4>3
    <3>2. CASE s # id
      <4>1. s \in DOMAIN sessions \ {Root} /\ sessions'[s] = sessions[s]
        BY <1>5, <3>2
      <4>2. sessions[s].source \in DOMAIN sessions
            /\ DOMAIN sessions[s].entries \cap DOMAIN sessions[sessions[s].source].entries # {}
        BY <4>1 DEF ForksInv, ForksKeyed
      <4>3. PICK k \in DOMAIN keys : keys[k] = [session |-> s, source |-> sessions[s].source]
        BY <4>1 DEF ForksInv, ForksKeyed
      <4>4. sessions'[sessions[s].source] = sessions[sessions[s].source]
            /\ sessions[s].source \in DOMAIN sessions'
        BY <1>5, <4>2
      <4>5. k \in DOMAIN keys' /\ keys'[k] = [session |-> s, source |-> sessions'[s].source]
        BY <1>7, <4>1, <4>3
      <4> QED
        BY <4>1, <4>2, <4>4, <4>5
    <3> QED
      BY <3>1, <3>2
  <2> QED
    BY <2>1 DEF ForksKeyed
<1>12. /\ doing'[r] = "row" /\ doing' = [q \in Requests |-> doing'[q]]
       /\ \A q \in Requests \ {r} : doing'[q] = doing[q]
  BY Moves
<1>13. /\ answer' = [q \in Requests |-> answer'[q]]
       /\ answer'[r] = [id |-> id, entries |-> answer[r].entries, leaf |-> answer[r].leaf]
       /\ \A q \in Requests \ {r} : answer'[q] = answer[q]
  BY <1>1, AnswerNamed
<1>14. \A q \in Requests : RequestKnown(q)'
  <2>1. RequestKnown(r)'
    BY <1>6, <1>7, <1>12, <1>13 DEF RequestKnown
  <2>2. ASSUME NEW q \in Requests, q # r PROVE RequestKnown(q)'
    BY <1>8, <1>12, <1>13, <2>2, StillKnown
  <2> QED
    BY <2>1, <2>2
<1>15. \A k \in DOMAIN keys' :
         /\ keys'[k] = [session |-> keys'[k].session, source |-> keys'[k].source]
         /\ keys'[k].session \in DOMAIN sessions'
  <2>1. \A k \in DOMAIN keys :
          /\ keys[k] = [session |-> keys[k].session, source |-> keys[k].source]
          /\ keys[k].session \in DOMAIN sessions
    BY DEF ForksInv
  <2> QED
    BY <1>5, <1>6, <1>7, <2>1
<1> QED
  BY <1>9, <1>10, <1>11, <1>12, <1>13, <1>14, <1>15 DEF ForksInv

LEMMA ForkStep ==
  ASSUME ForksInv, NEW r \in Requests, Fork(r)
  PROVE  ForksInv'
<1>1. CASE \E next \in {"missing", "conflict", "failed"} :
             Goes(r, next) /\ UNCHANGED <<sessions, keys, lastEntry, body, answer>>
  BY <1>1, Ends
<1>2. CASE /\ body[r].key \in DOMAIN keys /\ Replay(r)
           /\ UNCHANGED <<sessions, keys, lastEntry, body>>
  BY <1>2, ReplayKnown
<1>3. CASE /\ body[r].source \in DOMAIN sessions /\ LeafOf(r) # 0
           /\ SessionID(r) \notin DOMAIN sessions /\ body[r].key \notin DOMAIN keys
           /\ sessions' = Extended(sessions, SessionID(r), Copy(r))
           /\ keys' = Extended(keys, body[r].key,
                               [session |-> SessionID(r), source |-> body[r].source])
           /\ Goes(r, "row") /\ Answers(r, SessionID(r)) /\ UNCHANGED <<lastEntry, body>>
  BY <1>3, ForkCreated
<1>4. Reason(r) \in {"missing", "conflict"}
  BY DEF Reason
<1> QED
  BY <1>1, <1>2, <1>3, <1>4 DEF Fork

LEMMA ReadRowStep ==
  ASSUME ForksInv, NEW r \in Requests, ReadRow(r)
  PROVE  ForksInv'
<1>1. /\ doing[r] = "row" /\ Goes(r, "entries")
      /\ answer' = [answer EXCEPT ![r].leaf = sessions[answer[r].id].leaf]
      /\ UNCHANGED <<sessions, keys, lastEntry, body>>
  BY DEF ReadRow
<1>2. /\ doing'[r] = "entries" /\ doing' = [q \in Requests |-> doing'[q]]
      /\ \A q \in Requests \ {r} : doing'[q] = doing[q]
  BY <1>1, Moves
<1>3. PICK tip : tip = sessions[answer[r].id].leaf
  OBVIOUS
<1>4. answer' = [q \in Requests |-> answer'[q]]
      /\ \A q \in Requests \ {r} : answer'[q] = answer[q]
  BY <1>1 DEF ForksInv
<1>5. answer'[r] = [id |-> answer[r].id, entries |-> answer[r].entries, leaf |-> tip]
  <2>1. answer[r] = [id |-> answer[r].id, entries |-> answer[r].entries, leaf |-> answer[r].leaf]
    BY DEF ForksInv, RequestKnown
  <2>2. [answer[r] EXCEPT !.leaf = tip]
          = [id |-> answer[r].id, entries |-> answer[r].entries, leaf |-> tip]
    BY <2>1
  <2>3. answer'[r] = [answer[r] EXCEPT !.leaf = tip]
    BY <1>1, <1>3 DEF ForksInv
  <2> QED
    BY <2>2, <2>3
<1>6. RequestKnown(r)'
  <2>1. /\ body[r].key \in DOMAIN keys
        /\ keys[body[r].key] = [session |-> answer[r].id, source |-> body[r].source]
    BY <1>1 DEF ForksInv, RequestKnown
  <2>2. answer[r].id \in DOMAIN sessions
    BY <2>1 DEF ForksInv
  <2>3. tip \in DOMAIN sessions[answer[r].id].entries
    BY <1>3, <2>2 DEF ForksInv, SessionsRooted
  <2> QED
    BY <1>1, <1>2, <1>5, <2>1, <2>3 DEF RequestKnown
<1> QED
  BY <1>1, <1>2, <1>4, <1>6, TablesStay

LEMMA ReadEntriesStep ==
  ASSUME ForksInv, NEW r \in Requests, ReadEntries(r)
  PROVE  ForksInv'
<1>1. /\ doing[r] = "entries" /\ Goes(r, "done")
      /\ answer' = [answer EXCEPT ![r].entries = sessions[answer[r].id].entries]
      /\ UNCHANGED <<sessions, keys, lastEntry, body>>
  BY DEF ReadEntries
<1>2. /\ doing'[r] = "done" /\ doing' = [q \in Requests |-> doing'[q]]
      /\ \A q \in Requests \ {r} : doing'[q] = doing[q]
  BY <1>1, Moves
<1>3. PICK read : read = sessions[answer[r].id].entries
  OBVIOUS
<1>4. answer' = [q \in Requests |-> answer'[q]]
      /\ \A q \in Requests \ {r} : answer'[q] = answer[q]
  BY <1>1 DEF ForksInv
<1>5. answer'[r] = [id |-> answer[r].id, entries |-> read, leaf |-> answer[r].leaf]
  <2>1. answer[r] = [id |-> answer[r].id, entries |-> answer[r].entries, leaf |-> answer[r].leaf]
    BY DEF ForksInv, RequestKnown
  <2>2. [answer[r] EXCEPT !.entries = read]
          = [id |-> answer[r].id, entries |-> read, leaf |-> answer[r].leaf]
    BY <2>1
  <2>3. answer'[r] = [answer[r] EXCEPT !.entries = read]
    BY <1>1, <1>3 DEF ForksInv
  <2> QED
    BY <2>2, <2>3
<1>6. RequestKnown(r)'
  <2>1. /\ body[r].key \in DOMAIN keys
        /\ keys[body[r].key] = [session |-> answer[r].id, source |-> body[r].source]
        /\ answer[r].leaf \in DOMAIN read
    BY <1>1, <1>3 DEF ForksInv, RequestKnown
  <2>2. answer[r].id \in DOMAIN sessions
    BY <2>1 DEF ForksInv
  <2>3. Lineage(read)
    BY <1>3, <2>2 DEF ForksInv, SessionsRooted
  <2> QED
    BY <1>1, <1>2, <1>3, <1>5, <2>1, <2>3 DEF RequestKnown
<1> QED
  BY <1>1, <1>2, <1>4, <1>6, TablesStay

\* A new entry is on one session only, and younger than every other.
LEMMA SaveEntryStep ==
  ASSUME ForksInv, NEW s \in DOMAIN sessions, NEW parent \in 1..MaxEntry, SaveEntry(s, parent)
  PROVE  ForksInv'
<1>1. PICK new : new = lastEntry + 1
  OBVIOUS
<1>2. PICK old : old = sessions[s].entries
  OBVIOUS
<1>3. PICK longer : longer = Extended(old, new, parent)
  OBVIOUS
<1>4. /\ lastEntry' = new /\ new \in 1..MaxEntry /\ new > lastEntry /\ parent \in DOMAIN old
      /\ UNCHANGED <<keys, body, doing, answer>>
      /\ MaxEntry \in Nat /\ lastEntry \in Nat
  BY <1>1, <1>2, ForksAssumption DEF SaveEntry, ForksInv, SessionsRooted
<1>5. /\ DOMAIN longer = DOMAIN old \cup {new} /\ longer[new] = parent
      /\ longer = [e \in DOMAIN longer |-> longer[e]]
      /\ \A e \in DOMAIN old : e # new => longer[e] = old[e]
  BY <1>3 DEF Extended
<1>6. DOMAIN old \subseteq 1..lastEntry /\ Lineage(old) /\ new \notin DOMAIN old
  <2>1. DOMAIN old \subseteq 1..lastEntry /\ Lineage(old)
    BY <1>2 DEF ForksInv, SessionsRooted
  <2> QED
    BY <1>4, <2>1
<1>7. Lineage(longer)
  BY <1>4, <1>5, <1>6 DEF Lineage
<1>8. /\ DOMAIN sessions' = DOMAIN sessions
      /\ sessions'[s] = [entries |-> longer, leaf |-> new, source |-> sessions[s].source]
      /\ \A t \in DOMAIN sessions : t # s => sessions'[t] = sessions[t]
  <2>1. PICK row : row = [entries |-> longer, leaf |-> new, source |-> sessions[s].source]
    OBVIOUS
  <2>2. sessions[s] = [entries |-> sessions[s].entries, leaf |-> sessions[s].leaf,
                       source |-> sessions[s].source]
    BY DEF ForksInv, SessionsRooted
  <2>3. [[sessions[s] EXCEPT !.entries = longer] EXCEPT !.leaf = new] = row
    <3>1. [sessions[s] EXCEPT !.entries = longer]
            = [entries |-> longer, leaf |-> sessions[s].leaf, source |-> sessions[s].source]
      BY <2>2
    <3>2. [[entries |-> longer, leaf |-> sessions[s].leaf, source |-> sessions[s].source]
             EXCEPT !.leaf = new] = row
      BY <2>1
    <3> QED
      BY <3>1, <3>2
  <2>4. sessions' = [sessions EXCEPT ![s] =
                       [[sessions[s] EXCEPT !.entries = longer] EXCEPT !.leaf = new]]
    BY <1>1, <1>2, <1>3, <1>4 DEF SaveEntry
  <2> QED
    BY <2>1, <2>3, <2>4
<1>9. ForksGrow
  BY <1>2, <1>4, <1>5, <1>8 DEF ForksGrow
<1>10. SessionsRooted'
  <2>1. longer = [e \in DOMAIN longer |-> longer[e]] /\ DOMAIN longer \subseteq 1..new
    BY <1>4, <1>5, <1>6
  <2>2. ASSUME NEW t \in DOMAIN sessions'
        PROVE  /\ sessions'[t] = [entries |-> sessions'[t].entries, leaf |-> sessions'[t].leaf,
                                  source |-> sessions'[t].source]
               /\ Lineage(sessions'[t].entries)
               /\ sessions'[t].leaf \in DOMAIN sessions'[t].entries
               /\ DOMAIN sessions'[t].entries \subseteq 1..new
               /\ sessions'[t].entries
                    = [e \in DOMAIN sessions'[t].entries |-> sessions'[t].entries[e]]
    <3>1. CASE t = s
      BY <1>5, <1>7, <1>8, <2>1, <3>1
    <3>2. CASE t # s
      BY <1>4, <1>8, <3>2 DEF ForksInv, SessionsRooted
    <3> QED
      BY <3>1, <3>2
  <2>3. Root \in DOMAIN sessions'
    BY <1>8 DEF ForksInv, SessionsRooted
  <2> QED
    BY <1>4, <2>2, <2>3 DEF SessionsRooted
<1>11. OneHistory'
  <2>1. ASSUME NEW t \in DOMAIN sessions, t # s,
               NEW e \in DOMAIN longer \cap DOMAIN sessions[t].entries
        PROVE  longer[e] = sessions[t].entries[e]
    <3>1. e \in 1..lastEntry
      BY <2>1 DEF ForksInv, SessionsRooted
    <3>2. e \in DOMAIN old /\ e # new
      BY <1>4, <1>5, <2>1, <3>1
    <3>3. old[e] = sessions[t].entries[e]
      BY <1>2, <2>1, <3>2 DEF ForksInv, OneHistory
    <3> QED
      BY <1>5, <3>2, <3>3
  <2>2. ASSUME NEW t \in DOMAIN sessions', NEW u \in DOMAIN sessions',
               NEW e \in DOMAIN sessions'[t].entries \cap DOMAIN sessions'[u].entries
        PROVE  sessions'[t].entries[e] = sessions'[u].entries[e]
    <3>1. CASE t = s \/ u = s
      BY <1>8, <2>1, <3>1
    <3>2. CASE t # s /\ u # s
      BY <1>8, <3>2 DEF ForksInv, OneHistory
    <3> QED
      BY <3>1, <3>2
  <2> QED
    BY <2>2 DEF OneHistory
<1>12. ForksKeyed'
  <2>1. ASSUME NEW t \in DOMAIN sessions' \ {Root}
        PROVE  /\ sessions'[t].source \in DOMAIN sessions'
               /\ DOMAIN sessions'[t].entries
                    \cap DOMAIN sessions'[sessions'[t].source].entries # {}
               /\ \E k \in DOMAIN keys' :
                    keys'[k] = [session |-> t, source |-> sessions'[t].source]
    <3>1. t \in DOMAIN sessions \ {Root} /\ sessions'[t].source = sessions[t].source
      BY <1>8
    <3>2. sessions[t].source \in DOMAIN sessions
          /\ DOMAIN sessions[t].entries \cap DOMAIN sessions[sessions[t].source].entries # {}
          /\ \E k \in DOMAIN keys : keys[k] = [session |-> t, source |-> sessions[t].source]
      BY <3>1 DEF ForksInv, ForksKeyed
    <3>3. \A u \in DOMAIN sessions :
            DOMAIN sessions[u].entries \subseteq DOMAIN sessions'[u].entries
      BY <1>9 DEF ForksGrow
    <3> QED
      BY <1>4, <1>8, <3>1, <3>2, <3>3
  <2> QED
    BY <2>1 DEF ForksKeyed
<1>13. \A q \in Requests : RequestKnown(q)'
  BY <1>4, <1>9, StillKnown
<1> QED
  BY <1>4, <1>8, <1>10, <1>11, <1>12, <1>13 DEF ForksInv

LEMMA ForksStep == ForksInv /\ [ForksNext]_forkVars => ForksInv'
<1> SUFFICES ASSUME ForksInv, [ForksNext]_forkVars PROVE ForksInv'
  OBVIOUS
<1>1. CASE \E r \in Requests : LookUp(r) \/ Fork(r) \/ ReadRow(r) \/ ReadEntries(r)
  BY <1>1, LookUpStep, ForkStep, ReadRowStep, ReadEntriesStep
<1>2. CASE \E s \in DOMAIN sessions, parent \in 1..MaxEntry : SaveEntry(s, parent)
  BY <1>2, SaveEntryStep
<1>3. CASE UNCHANGED forkVars
  <2>1. UNCHANGED <<sessions, keys, lastEntry, body, doing, answer>>
    BY <1>3 DEF forkVars
  <2>2. ForksGrow
    BY <2>1 DEF ForksGrow
  <2>3. \A q \in Requests : RequestKnown(q)'
    BY <2>1, <2>2, StillKnown
  <2> QED
    BY <2>1, <2>3 DEF ForksInv, SessionsRooted, OneHistory, ForksKeyed
<1> QED
  BY <1>1, <1>2, <1>3 DEF ForksNext

\* Whatever the requests, the keys they share and the steps of other requests
\* and of runs between theirs: a key gets one fork of one source (the lookup, the
\* lock of the source's row and the replay of mysql.go), and every fork and every
\* answer is a whole branch with the history of its source.
THEOREM EveryForkWhole == ForksSpec => []ForksWhole
<1>1. ForksSpec => []ForksInv
  BY ForksStart, ForksStep, PTL DEF ForksSpec
<1> QED
  BY <1>1, ForksEnough, PTL
=================================================================================
