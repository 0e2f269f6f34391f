--------------------------- MODULE PositionsProofs ---------------------------
(***************************************************************************)
(* What the list arithmetic of Positions returns, for finite lists of any  *)
(* length: renumbering a list and inserting into it both leave it compact, *)
(* and of a compact list a position is an index.  Then what a list looks   *)
(* like when it is drawn: which sequence ORDER BY position gives, and what *)
(* becomes of it when a row is added, inserted, taken out or given another *)
(* id.                                                                     *)
(***************************************************************************)
EXTENDS Positions, SequencesExt, FiniteSetTheorems, SequenceTheorems, WellFoundedInduction,
        TLAPS

\* The rows of a table whose ids an AUTOINCREMENT sequence handed out are finitely many.
LEMMA FiniteRows ==
  ASSUME NEW last \in Nat, NEW rows, rows \subseteq 1 .. last
  PROVE  IsFiniteSet(rows)
<1>1. IsFiniteSet(1 .. last)
  BY FS_Interval
<1> QED
  BY <1>1, FS_Subset

\* A search through a list ends inside it or just past its end.
LEMMA FirstAtLeastBound ==
  ASSUME NEW list, IsFiniteSet(list), NEW pos, NEW p
  PROVE  /\ FirstAtLeast(list, pos, p) \in Nat
         /\ FirstAtLeast(list, pos, p) <= Cardinality(list)
         /\ Cardinality(list) \in Nat
<1>1. Below(list, pos, p) \subseteq list
  BY DEF Below
<1> QED
  BY <1>1, FS_Subset, FS_CardinalityType DEF FirstAtLeast

\* Rows of a table, of which every position is a number, as the ids are.
Listed(list, pos) ==
  /\ IsFiniteSet(list)
  /\ \A x \in list : x \in Int /\ pos[x] \in Int

\* Before is a strict order, and of two rows one comes before the other.
LEMMA BeforeOrders ==
  ASSUME NEW list, NEW pos, Listed(list, pos)
  PROVE  /\ \A x \in list : ~Before(pos, x, x)
         /\ \A x, y \in list : ~(Before(pos, x, y) /\ Before(pos, y, x))
         /\ \A x, y \in list : x # y => Before(pos, x, y) \/ Before(pos, y, x)
         /\ \A x, y, z \in list : Before(pos, x, y) /\ Before(pos, y, z) => Before(pos, x, z)
<1>1. \A x \in list : x \in Int /\ pos[x] \in Int
  BY DEF Listed
<1>2. \A x \in list : ~Before(pos, x, x)
  BY <1>1 DEF Before
<1>3. \A x, y \in list : ~(Before(pos, x, y) /\ Before(pos, y, x))
  BY <1>1 DEF Before
<1>4. \A x, y \in list : x # y => Before(pos, x, y) \/ Before(pos, y, x)
  BY <1>1 DEF Before
<1>5. \A x, y, z \in list : Before(pos, x, y) /\ Before(pos, y, z) => Before(pos, x, z)
  BY <1>1 DEF Before
<1> QED
  BY <1>2, <1>3, <1>4, <1>5

\* An index is a natural number.
LEMMA IndexNat ==
  ASSUME NEW list, IsFiniteSet(list), NEW pos, NEW x
  PROVE  Index(list, pos, x) \in Nat
<1>1. {y \in list : Before(pos, y, x)} \subseteq list
  OBVIOUS
<1> QED
  BY <1>1, FS_Subset, FS_CardinalityType DEF Index

\* A row's index is smaller than the length of its list.
LEMMA IndexBound ==
  ASSUME NEW list, NEW pos, Listed(list, pos), NEW x \in list
  PROVE  Index(list, pos, x) \in 0 .. Cardinality(list) - 1
<1> DEFINE ahead == {y \in list : Before(pos, y, x)}
<1>1. ahead \subseteq list \ {x}
  BY BeforeOrders
<1>2. IsFiniteSet(list \ {x}) /\ Cardinality(list \ {x}) = Cardinality(list) - 1
  BY FS_RemoveElement DEF Listed
<1>3. IsFiniteSet(ahead) /\ Cardinality(ahead) <= Cardinality(list) - 1
  BY <1>1, <1>2, FS_Subset
<1>4. Cardinality(ahead) \in Nat /\ Cardinality(list) \in Nat
  BY <1>3, FS_CardinalityType DEF Listed
<1>5. Index(list, pos, x) = Cardinality(ahead)
  BY DEF Index
<1> QED
  BY <1>3, <1>4, <1>5

\* A row that comes before another has the smaller index.
LEMMA IndexOrder ==
  ASSUME NEW list, NEW pos, Listed(list, pos), NEW x \in list, NEW y \in list, Before(pos, x, y)
  PROVE  Index(list, pos, x) < Index(list, pos, y)
<1> DEFINE aheadX == {z \in list : Before(pos, z, x)}
           aheadY == {z \in list : Before(pos, z, y)}
<1>1. aheadX \subseteq aheadY \ {x} /\ x \in aheadY /\ aheadY \subseteq list
  BY BeforeOrders
<1>2. IsFiniteSet(aheadY)
  BY <1>1, FS_Subset DEF Listed
<1>3. IsFiniteSet(aheadY \ {x}) /\ Cardinality(aheadY \ {x}) = Cardinality(aheadY) - 1
  BY <1>1, <1>2, FS_RemoveElement
<1>4. IsFiniteSet(aheadX) /\ Cardinality(aheadX) <= Cardinality(aheadY) - 1
  BY <1>1, <1>3, FS_Subset
<1> QED
  BY <1>2, <1>4, FS_CardinalityType DEF Index

\* Two rows have two indexes, even when they share a position.
LEMMA IndexInjective ==
  ASSUME NEW list, NEW pos, Listed(list, pos), NEW x \in list, NEW y \in list, x # y
  PROVE  Index(list, pos, x) # Index(list, pos, y)
<1>1. Index(list, pos, x) \in Int /\ Index(list, pos, y) \in Int
  BY IndexNat DEF Listed
<1>2. CASE Before(pos, x, y)
  BY <1>1, <1>2, IndexOrder
<1>3. CASE Before(pos, y, x)
  BY <1>1, <1>3, IndexOrder
<1> QED
  BY <1>2, <1>3, BeforeOrders

\* Indexes are in the order the rows are drawn in.
LEMMA IndexKeepsOrder ==
  ASSUME NEW list, NEW pos, Listed(list, pos), NEW x \in list, NEW y \in list
  PROVE  Index(list, pos, x) < Index(list, pos, y) <=> Before(pos, x, y)
<1>1. Index(list, pos, x) \in Int /\ Index(list, pos, y) \in Int
  BY IndexNat DEF Listed
<1>2. CASE Before(pos, x, y)
  BY <1>2, IndexOrder
<1>3. CASE Before(pos, y, x)
  <2>1. Index(list, pos, y) < Index(list, pos, x)
    BY <1>3, IndexOrder
  <2> QED
    BY <1>1, <1>3, <2>1, BeforeOrders
<1>4. CASE x = y
  BY <1>1, <1>4, BeforeOrders
<1> QED
  BY <1>2, <1>3, <1>4, BeforeOrders

\* A renumbering keeps the order.
LEMMA RenumberedKeepsOrder ==
  ASSUME NEW list, NEW pos, Listed(list, pos), NEW x \in list, NEW y \in list
  PROVE  Before(Renumbered(list, pos), x, y) <=> Before(pos, x, y)
<1>1. /\ Renumbered(list, pos)[x] = Index(list, pos, x)
      /\ Renumbered(list, pos)[y] = Index(list, pos, y)
  BY DEF Renumbered
<1>2. Index(list, pos, x) < Index(list, pos, y) <=> Before(pos, x, y)
  BY IndexKeepsOrder
<1>3. x # y => Index(list, pos, x) # Index(list, pos, y)
  BY IndexInjective
<1>4. x = y => ~Before(pos, x, y) /\ ~(x < y)
  BY BeforeOrders DEF Listed
<1> QED
  BY <1>1, <1>2, <1>3, <1>4 DEF Before

\* An insertion keeps the order of those that were there.
LEMMA InsertedKeepsOrder ==
  ASSUME NEW list, NEW pos, Listed(list, pos),
         NEW i, NEW index \in Nat, NEW x \in list \ {i}, NEW y \in list \ {i}
  PROVE  Before(InsertedAt(list, pos, i, index), x, y) <=> Before(pos, x, y)
<1> DEFINE a == Index(list, pos, x)
           b == Index(list, pos, y)
           new == InsertedAt(list, pos, i, index)
<1>1. a \in Int /\ b \in Int
  BY IndexNat DEF Listed
<1>2. (a < b <=> Before(pos, x, y)) /\ (x # y => a # b)
  BY IndexKeepsOrder, IndexInjective
<1>3. /\ new[x] = IF a < index THEN a ELSE a + 1
      /\ new[y] = IF b < index THEN b ELSE b + 1
  BY DEF InsertedAt
<1>4. x = y => ~Before(pos, x, y) /\ ~(x < y)
  BY BeforeOrders DEF Listed
<1> HIDE DEF a, b, new
<1>5. (new[x] < new[y] <=> a < b) /\ (new[x] = new[y] <=> a = b)
  BY <1>1, <1>3
<1>6. Before(new, x, y) <=> Before(pos, x, y)
  BY <1>2, <1>4, <1>5 DEF Before
<1> QED
  BY <1>6 DEF new

\* Renumbering makes a list compact, whatever its positions were.
LEMMA RenumberedCompact ==
  ASSUME NEW list, NEW pos, Listed(list, pos)
  PROVE  Compact(list, Renumbered(list, pos))
BY IndexBound, IndexInjective DEF Compact, Renumbered

\* Inserting a row into a list, at an index inside it or at its end, makes a
\* compact list one row longer.
LEMMA InsertedCompact ==
  ASSUME NEW list, NEW pos, Listed(list, pos),
         NEW x, x \notin list, NEW index \in 0 .. Cardinality(list)
  PROVE  Compact(list \cup {x}, InsertedAt(list, pos, x, index))
<1> DEFINE new == InsertedAt(list, pos, x, index)
<1>1. Cardinality(list) \in Nat /\ Cardinality(list \cup {x}) = Cardinality(list) + 1
  BY FS_CardinalityType, FS_AddElement DEF Listed
<1>2. new[x] = index
  BY DEF InsertedAt
<1>3. ASSUME NEW y \in list
      PROVE  /\ Index(list, pos, y) \in 0 .. Cardinality(list) - 1
             /\ new[y] = IF Index(list, pos, y) < index THEN Index(list, pos, y)
                         ELSE Index(list, pos, y) + 1
  BY IndexBound DEF InsertedAt
<1>4. ASSUME NEW y \in list, NEW z \in list, y # z
      PROVE  Index(list, pos, y) # Index(list, pos, z)
  BY <1>4, IndexInjective
<1>5. \A y \in list \cup {x} : new[y] \in 0 .. Cardinality(list \cup {x}) - 1
  BY <1>1, <1>2, <1>3
<1>6. ASSUME NEW y \in list \cup {x}, NEW z \in list \cup {x}, y # z
      PROVE  new[y] # new[z]
  <2>1. CASE y \in list /\ z \in list
    BY <2>1, <1>3, <1>4, <1>6
  <2>2. CASE y = x \/ z = x
    BY <2>2, <1>2, <1>3, <1>6
  <2> QED
    BY <2>1, <2>2
<1> QED
  BY <1>5, <1>6 DEF Compact

\* A list that is not empty has a last row.
LEMMA LastRow ==
  ASSUME NEW list, IsFiniteSet(list), list # {}, NEW pos, \A x \in list : pos[x] \in Int
  PROVE  \E x \in list : \A y \in list : pos[y] <= pos[x]
<1> DEFINE Above(x) == {y \in list : pos[x] < pos[y]}
           Tails == {Above(x) : x \in list}
<1>1. Tails \subseteq FiniteSubsetsOf(list) /\ Tails # {}
  <2>1. FiniteSubsetsOf(list) = SUBSET list
    BY FS_FiniteSubsetsOfFinite
  <2>2. Tails \subseteq SUBSET list
    OBVIOUS
  <2>3. Tails # {}
    <3>1. PICK x : x \in list
      OBVIOUS
    <3>2. Above(x) \in Tails
      BY <3>1
    <3> QED
      BY <3>2
  <2> QED
    BY <2>1, <2>2, <2>3
<1>2. IsWellFoundedOn(StrictSubsetOrdering(list), FiniteSubsetsOf(list))
  BY FS_StrictSubsetOrderingWellFounded
<1>3. PICK T \in Tails : \A S \in Tails : ~(<<S, T>> \in StrictSubsetOrdering(list))
  BY <1>1, <1>2, WFMin
<1>4. PICK x \in list : T = Above(x)
  BY <1>3
<1>5. ASSUME NEW y \in Above(x)
      PROVE  FALSE
  <2>1. Above(y) \subseteq Above(x) /\ y \notin Above(y) /\ Above(y) \in Tails
    BY <1>5
  <2>2. <<Above(y), T>> \in StrictSubsetOrdering(list)
    BY <1>4, <1>5, <2>1 DEF StrictSubsetOrdering
  <2> QED
    BY <1>3, <2>1, <2>2
<1> QED
  BY <1>5

\* MAX(position) + 1 is past every row, and for a compact list not past its end.
LEMMA NextPositionBound ==
  ASSUME NEW list, IsFiniteSet(list), NEW pos, \A x \in list : pos[x] \in Nat
  PROVE  /\ NextPosition(list, pos) \in Nat
         /\ \A x \in list : pos[x] < NextPosition(list, pos)
         /\ Compact(list, pos) => NextPosition(list, pos) <= Cardinality(list)
<1>1. Cardinality(list) \in Nat
  BY FS_CardinalityType
<1>2. CASE list = {}
  BY <1>1, <1>2 DEF NextPosition
<1>3. CASE list # {}
  <2> DEFINE top == CHOOSE p \in {pos[x] : x \in list} : \A x \in list : pos[x] <= p
  <2>1. \E x \in list : \A y \in list : pos[y] <= pos[x]
    BY <1>3, LastRow
  <2>2. top \in {pos[x] : x \in list} /\ \A x \in list : pos[x] <= top
    BY <2>1
  <2>3. NextPosition(list, pos) = top + 1
    BY <1>3 DEF NextPosition
  <2>4. top \in Nat
    BY <2>2
  <2>5. Compact(list, pos) => top <= Cardinality(list) - 1
    BY <2>2 DEF Compact
  <2> HIDE DEF top
  <2> QED
    BY <1>1, <2>2, <2>3, <2>4, <2>5
<1> QED
  BY <1>2, <1>3

\* In a compact list the first row at or past p is row p, if there is one.
LEMMA CompactIndex ==
  ASSUME NEW list, IsFiniteSet(list), NEW pos, Compact(list, pos), NEW p \in Int
  PROVE  FirstAtLeast(list, pos, p) = Clamp(p, 0, Cardinality(list))
<1> DEFINE n == Cardinality(list)
           f == [x \in list |-> pos[x]]
           below == Below(list, pos, p)
           g == [x \in below |-> pos[x]]
<1>1. n \in Nat
  BY FS_CardinalityType
<1>2. f \in Injection(list, 0 .. n - 1)
  BY DEF Injection, Compact, IsInjective
<1>3. IsFiniteSet(0 .. n - 1) /\ Cardinality(0 .. n - 1) = n
  BY <1>1, FS_Interval
<1>4. f \in Surjection(list, 0 .. n - 1)
  BY <1>2, <1>3, FS_Injection
<1>5. \A k \in 0 .. n - 1 : \E x \in list : pos[x] = k
  BY <1>4 DEF Surjection
<1>6. \A x \in list : pos[x] \in 0 .. n - 1
  BY DEF Compact
<1>7. CASE p <= 0
  <2>1. below = {}
    BY <1>1, <1>6, <1>7 DEF Below
  <2> QED
    BY <1>1, <1>7, <2>1, FS_EmptySet DEF FirstAtLeast, Clamp
<1>8. CASE p >= n
  <2>1. below = list
    BY <1>1, <1>6, <1>8 DEF Below
  <2> QED
    BY <1>1, <1>8, <2>1 DEF FirstAtLeast, Clamp
<1>9. CASE 0 < p /\ p < n
  <2>1. \A x \in below : x \in list /\ pos[x] \in 0 .. p - 1
    BY <1>1, <1>6, <1>9 DEF Below
  <2>2. g \in Injection(below, 0 .. p - 1)
    BY <2>1 DEF Injection, Compact, IsInjective
  <2>3. \A k \in 0 .. p - 1 : \E x \in below : g[x] = k
    BY <1>1, <1>5, <1>9 DEF Below
  <2>4. g \in Surjection(below, 0 .. p - 1)
    BY <2>1, <2>3 DEF Surjection
  <2>5. IsFiniteSet(0 .. p - 1) /\ Cardinality(0 .. p - 1) = p
    BY <1>9, FS_Interval
  <2>6. Cardinality(below) = p
    BY <2>2, <2>4, <2>5, FS_Injection
  <2> QED
    BY <1>1, <1>9, <2>6 DEF FirstAtLeast, Clamp
<1> QED
  BY <1>1, <1>7, <1>8, <1>9

\* So in a compact list a position is an index.
LEMMA CompactPosition ==
  ASSUME NEW list, IsFiniteSet(list), NEW pos, Compact(list, pos), NEW x \in list,
         x \in Int
  PROVE  Index(list, pos, x) = pos[x]
<1>1. pos[x] \in 0 .. Cardinality(list) - 1 /\ Cardinality(list) \in Nat
  BY FS_CardinalityType DEF Compact
<1>2. {y \in list : Before(pos, y, x)} = Below(list, pos, pos[x])
  <2>1. \A y \in list : pos[y] = pos[x] => y = x
    BY DEF Compact
  <2>2. \A y \in list : Before(pos, y, x) <=> pos[y] < pos[x]
    BY <2>1 DEF Before
  <2> QED
    BY <2>2 DEF Below
<1>3. PICK p \in Int : p = pos[x]
  BY <1>1
<1>4. FirstAtLeast(list, pos, p) = Clamp(p, 0, Cardinality(list))
  BY CompactIndex
<1>5. Index(list, pos, x) = Clamp(p, 0, Cardinality(list))
  BY <1>2, <1>3, <1>4 DEF Index, FirstAtLeast
<1> QED
  BY <1>1, <1>3, <1>5 DEF Clamp

-----------------------------------------------------------------------------
(* Rows put into a sequence and taken out of it.                           *)

\* A row put into a list: those before it stay where they are, those after it
\* make room.
LEMMA InsertAtFacts ==
  ASSUME NEW S, NEW s \in Seq(S), NEW e \in S, NEW i \in 1 .. Len(s) + 1
  PROVE  /\ InsertAt(s, i, e) \in Seq(S)
         /\ Len(InsertAt(s, i, e)) = Len(s) + 1
         /\ InsertAt(s, i, e)[i] = e
         /\ \A j \in 1 .. i - 1 : InsertAt(s, i, e)[j] = s[j]
         /\ \A j \in i + 1 .. Len(s) + 1 : InsertAt(s, i, e)[j] = s[j - 1]
<1> DEFINE a == SubSeq(s, 1, i - 1)
           z == SubSeq(s, i, Len(s))
           m == a \o <<e>>
<1>1. Len(s) \in Nat /\ i \in Nat /\ i >= 1 /\ i <= Len(s) + 1 /\ \A j \in 1 .. Len(s) : s[j] \in S
  OBVIOUS
<1>2. a \in Seq(S) /\ Len(a) = i - 1 /\ \A j \in 1 .. i - 1 : a[j] = s[j]
  <2>1. \A j \in 1 .. i - 1 : s[j] \in S
    BY <1>1
  <2>2. /\ a \in Seq(S) /\ Len(a) = IF 1 <= i - 1 THEN i - 1 - 1 + 1 ELSE 0
        /\ \A j \in 1 .. i - 1 - 1 + 1 : a[j] = s[1 + j - 1]
    BY <1>1, <2>1, SubSeqProperties
  <2> QED BY <2>2, <1>1
<1>3. z \in Seq(S) /\ Len(z) = Len(s) - i + 1 /\ \A j \in 1 .. Len(s) - i + 1 : z[j] = s[i + j - 1]
  <2>1. \A j \in i .. Len(s) : s[j] \in S
    BY <1>1
  <2>2. /\ z \in Seq(S) /\ Len(z) = IF i <= Len(s) THEN Len(s) - i + 1 ELSE 0
        /\ \A j \in 1 .. Len(s) - i + 1 : z[j] = s[i + j - 1]
    BY <1>1, <2>1, SubSeqProperties
  <2> QED BY <2>2, <1>1
<1> HIDE DEF a, z
<1>4. /\ m \in Seq(S) /\ Len(m) = i
      /\ \A j \in 1 .. i : m[j] = IF j < i THEN s[j] ELSE e
  BY SMTT(30), <1>1, <1>2
<1>5. InsertAt(s, i, e) = m \o z
  BY DEF InsertAt, a, z
<1> HIDE DEF m
<1>6. /\ m \o z \in Seq(S) /\ Len(m \o z) = Len(m) + Len(z)
      /\ \A j \in 1 .. Len(m) + Len(z) : (m \o z)[j] = IF j <= Len(m) THEN m[j] ELSE z[j - Len(m)]
  BY <1>3, <1>4, ConcatProperties
<1> QED
  BY <1>1, <1>3, <1>4, <1>5, <1>6

\* A row taken out of a list.
LEMMA RemoveAtFacts ==
  ASSUME NEW S, NEW s \in Seq(S), NEW i \in 1 .. Len(s)
  PROVE  /\ RemoveAt(s, i) \in Seq(S)
         /\ Len(RemoveAt(s, i)) = Len(s) - 1
         /\ \A j \in 1 .. Len(s) - 1 : RemoveAt(s, i)[j] = IF j < i THEN s[j] ELSE s[j + 1]
<1> DEFINE a == SubSeq(s, 1, i - 1)
           z == SubSeq(s, i + 1, Len(s))
<1>1. Len(s) \in Nat /\ i \in Nat /\ i >= 1 /\ i <= Len(s) /\ \A j \in 1 .. Len(s) : s[j] \in S
  OBVIOUS
<1>2. a \in Seq(S) /\ Len(a) = i - 1 /\ \A j \in 1 .. i - 1 : a[j] = s[j]
  <2>1. \A j \in 1 .. i - 1 : s[j] \in S
    BY <1>1
  <2>2. /\ a \in Seq(S) /\ Len(a) = IF 1 <= i - 1 THEN i - 1 - 1 + 1 ELSE 0
        /\ \A j \in 1 .. i - 1 - 1 + 1 : a[j] = s[1 + j - 1]
    BY <1>1, <2>1, SubSeqProperties
  <2> QED BY <2>2, <1>1
<1>3. z \in Seq(S) /\ Len(z) = Len(s) - i /\ \A j \in 1 .. Len(s) - i : z[j] = s[i + j]
  <2>1. \A j \in i + 1 .. Len(s) : s[j] \in S
    BY <1>1
  <2>2. /\ z \in Seq(S) /\ Len(z) = IF i + 1 <= Len(s) THEN Len(s) - (i + 1) + 1 ELSE 0
        /\ \A j \in 1 .. Len(s) - (i + 1) + 1 : z[j] = s[(i + 1) + j - 1]
    BY <1>1, <2>1, SubSeqProperties
  <2> QED BY <2>2, <1>1
<1> HIDE DEF a, z
<1>5. RemoveAt(s, i) = a \o z
  BY DEF RemoveAt, a, z
<1>6. /\ a \o z \in Seq(S) /\ Len(a \o z) = Len(a) + Len(z)
      /\ \A j \in 1 .. Len(a) + Len(z) : (a \o z)[j] = IF j <= Len(a) THEN a[j] ELSE z[j - Len(a)]
  BY <1>2, <1>3, ConcatProperties
<1> QED
  BY <1>1, <1>2, <1>3, <1>5, <1>6

\* A row taken out by name, of a sequence that holds nothing twice.
LEMMA RemoveFirstFacts ==
  ASSUME NEW S, NEW s \in Seq(S), \A k, m \in 1 .. Len(s) : s[k] = s[m] => k = m, NEW x
  PROVE  /\ \A k \in 1 .. Len(s) : s[k] = x => RemoveFirst(s, x) = RemoveAt(s, k)
         /\ (\A k \in 1 .. Len(s) : s[k] # x) => RemoveFirst(s, x) = s
<1>1. ASSUME NEW k \in 1 .. Len(s), s[k] = x
      PROVE  RemoveFirst(s, x) = RemoveAt(s, k)
  <2>1. {i \in 1 .. Len(s) : s[i] = x} = {k}
    BY <1>1
  <2>2. Min({k}) = k
    BY DEF Min
  <2>3. SelectInSeq(s, LAMBDA v : v = x) = k
    BY <2>1, <2>2 DEF SelectInSeq
  <2> QED
    BY <1>1, <2>3 DEF RemoveFirst
<1>2. ASSUME \A k \in 1 .. Len(s) : s[k] # x
      PROVE  RemoveFirst(s, x) = s
  BY <1>2 DEF RemoveFirst
<1> QED
  BY <1>1, <1>2

-----------------------------------------------------------------------------
(* A list as it is drawn.                                                  *)

\* Every row is drawn once, at its index.
LEMMA DrawnFacts ==
  ASSUME NEW list, NEW pos, Listed(list, pos)
  PROVE  /\ Drawn(list, pos) \in Seq(list)
         /\ Len(Drawn(list, pos)) = Cardinality(list) /\ Cardinality(list) \in Nat
         /\ \A k \in 1 .. Cardinality(list) :
              Drawn(list, pos)[k] \in list /\ Index(list, pos, Drawn(list, pos)[k]) = k - 1
         /\ \A x \in list : /\ Index(list, pos, x) + 1 \in 1 .. Cardinality(list)
                            /\ Drawn(list, pos)[Index(list, pos, x) + 1] = x
<1> DEFINE n == Cardinality(list)
           index == [x \in list |-> Index(list, pos, x)]
<1>1. IsFiniteSet(list) /\ n \in Nat
  BY FS_CardinalityType DEF Listed
<1>2. \A x \in list : Index(list, pos, x) \in 0 .. n - 1
  BY IndexBound
<1>3. \A x, y \in list : x # y => Index(list, pos, x) # Index(list, pos, y)
  BY IndexInjective
<1> HIDE DEF n
<1>4. \A k \in 0 .. n - 1 : \E x \in list : Index(list, pos, x) = k
  <2>1. index \in Injection(list, 0 .. n - 1)
    BY <1>2, <1>3 DEF Injection, IsInjective
  <2>2. IsFiniteSet(0 .. n - 1) /\ Cardinality(0 .. n - 1) = n
    BY <1>1, FS_Interval
  <2>3. index \in Surjection(list, 0 .. n - 1)
    BY <1>1, <2>1, <2>2, FS_Injection DEF n
  <2> QED
    BY <2>3 DEF Surjection
<1>5. \A k \in 1 .. n : Drawn(list, pos)[k] \in list /\ Index(list, pos, Drawn(list, pos)[k]) = k - 1
  <2> TAKE k \in 1 .. n
  <2>1. Drawn(list, pos)[k] = CHOOSE x \in list : Index(list, pos, x) = k - 1
    BY DEF Drawn, n
  <2>2. \E x \in list : Index(list, pos, x) = k - 1
    BY <1>1, <1>4
  <2> QED
    BY <2>1, <2>2
<1>6. Drawn(list, pos) \in Seq(list) /\ Len(Drawn(list, pos)) = n
  <2>1. DOMAIN Drawn(list, pos) = 1 .. n /\ Drawn(list, pos) = [k \in 1 .. n |-> Drawn(list, pos)[k]]
    BY DEF Drawn, n
  <2>2. Drawn(list, pos) \in [1 .. n -> list]
    BY <1>5, <2>1
  <2> QED
    BY <1>1, <2>1, <2>2
<1>7. ASSUME NEW x \in list
      PROVE  Index(list, pos, x) + 1 \in 1 .. n /\ Drawn(list, pos)[Index(list, pos, x) + 1] = x
  <2>1. PICK k : k = Index(list, pos, x) + 1
    OBVIOUS
  <2>2. k \in 1 .. n /\ k - 1 = Index(list, pos, x)
    BY <1>1, <1>2, <2>1
  <2>3. Drawn(list, pos)[k] \in list /\ Index(list, pos, Drawn(list, pos)[k]) = Index(list, pos, x)
    BY <1>5, <2>2
  <2> QED
    BY <1>3, <2>1, <2>2, <2>3
<1> QED
  BY <1>1, <1>5, <1>6, <1>7 DEF n

\* And that says what the list looks like: there is one such sequence.
LEMMA DrawnIs ==
  ASSUME NEW list, NEW pos, Listed(list, pos), NEW s \in Seq(list), Len(s) = Cardinality(list),
         \A k \in 1 .. Len(s) : Index(list, pos, s[k]) = k - 1
  PROVE  Drawn(list, pos) = s
<1>1. /\ Drawn(list, pos) \in Seq(list) /\ Len(Drawn(list, pos)) = Len(s)
      /\ \A k \in 1 .. Len(s) :
           Drawn(list, pos)[k] \in list /\ Index(list, pos, Drawn(list, pos)[k]) = k - 1
  BY DrawnFacts
<1>2. \A x, y \in list : x # y => Index(list, pos, x) # Index(list, pos, y)
  BY IndexInjective
<1>3. \A k \in 1 .. Len(s) : s[k] \in list
  OBVIOUS
<1>4. \A k \in 1 .. Len(s) : Drawn(list, pos)[k] = s[k]
  BY <1>1, <1>2, <1>3
<1> QED
  BY <1>1, <1>4, SeqEqual

\* What is drawn is the list, and nothing is drawn twice.
LEMMA DrawnHolds ==
  ASSUME NEW list, NEW pos, Listed(list, pos)
  PROVE  /\ ToSet(Drawn(list, pos)) = list
         /\ \A k, m \in 1 .. Len(Drawn(list, pos)) :
              Drawn(list, pos)[k] = Drawn(list, pos)[m] => k = m
<1> DEFINE d == Drawn(list, pos)
<1>1. /\ d \in Seq(list) /\ Len(d) = Cardinality(list) /\ Len(d) \in Nat
      /\ \A k \in 1 .. Len(d) : d[k] \in list /\ Index(list, pos, d[k]) = k - 1
      /\ \A x \in list : Index(list, pos, x) + 1 \in 1 .. Len(d) /\ d[Index(list, pos, x) + 1] = x
  BY DrawnFacts
<1> HIDE DEF d
<1>2. DOMAIN d = 1 .. Len(d)
  BY <1>1
<1>3. ToSet(d) = list
  BY <1>1, <1>2 DEF ToSet
<1>4. \A k, m \in 1 .. Len(d) : d[k] = d[m] => k = m
  BY <1>1
<1> QED
  BY <1>3, <1>4 DEF d

\* The order of the rows is all that is drawn of their positions.
LEMMA DrawnSame ==
  ASSUME NEW list, NEW pos, NEW new,
         \A x, y \in list : Before(new, x, y) <=> Before(pos, x, y)
  PROVE  Drawn(list, new) = Drawn(list, pos)
<1>1. \A x \in list : {y \in list : Before(new, y, x)} = {y \in list : Before(pos, y, x)}
  OBVIOUS
<1>2. \A x \in list : Index(list, new, x) = Index(list, pos, x)
  BY <1>1 DEF Index
<1>3. \A k : (CHOOSE x \in list : Index(list, new, x) = k - 1)
               = (CHOOSE x \in list : Index(list, pos, x) = k - 1)
  BY <1>2
<1> QED
  BY <1>3 DEF Drawn

\* An empty list is drawn as nothing.
LEMMA DrawnEmpty ==
  ASSUME NEW pos
  PROVE  Drawn({}, pos) = <<>>
<1>1. Cardinality({}) = 0
  BY FS_EmptySet
<1> QED
  BY <1>1 DEF Drawn

\* The rows after the one that is taken out move up.
LEMMA IndexWithout ==
  ASSUME NEW list, NEW pos, Listed(list, pos), NEW x \in list, NEW y \in list \ {x}
  PROVE  Index(list \ {x}, pos, y) =
           IF Index(list, pos, x) < Index(list, pos, y) THEN Index(list, pos, y) - 1
           ELSE Index(list, pos, y)
<1> DEFINE ahead == {z \in list : Before(pos, z, y)}
<1>1. ahead \subseteq list /\ {z \in list \ {x} : Before(pos, z, y)} = ahead \ {x}
  OBVIOUS
<1>2. x \in ahead <=> Index(list, pos, x) < Index(list, pos, y)
  BY IndexKeepsOrder
<1>3. Index(list, pos, y) = Cardinality(ahead)
  BY DEF Index
<1>4. Index(list \ {x}, pos, y) = Cardinality(ahead \ {x})
  BY <1>1 DEF Index
<1> HIDE DEF ahead
<1>5. IsFiniteSet(ahead)
  BY <1>1, FS_Subset DEF Listed
<1>6. Cardinality(ahead \ {x}) = IF x \in ahead THEN Cardinality(ahead) - 1 ELSE Cardinality(ahead)
  BY <1>5, FS_RemoveElement
<1> QED
  BY <1>2, <1>3, <1>4, <1>6

\* A part of such a list is such a list.
LEMMA ListedPart ==
  ASSUME NEW list, NEW pos, Listed(list, pos), NEW part, part \subseteq list
  PROVE  Listed(part, pos)
BY FS_Subset DEF Listed

\* Without a row, what is drawn is what was drawn, without it.
LEMMA DrawnWithout ==
  ASSUME NEW list, NEW pos, Listed(list, pos), NEW x
  PROVE  Drawn(list \ {x}, pos) = RemoveFirst(Drawn(list, pos), x)
<1> DEFINE d == Drawn(list, pos)
           i == Index(list, pos, x) + 1
<1>1. /\ d \in Seq(list) /\ Len(d) = Cardinality(list) /\ Len(d) \in Nat
      /\ \A k \in 1 .. Len(d) : d[k] \in list /\ Index(list, pos, d[k]) = k - 1
      /\ x \in list => i \in 1 .. Len(d) /\ d[i] = x
  BY DrawnFacts
<1>2. \A k, m \in 1 .. Len(d) : d[k] = d[m] => k = m
  BY DrawnHolds
<1>3. CASE x \notin list
  <2>1. list \ {x} = list /\ \A k \in 1 .. Len(d) : d[k] # x
    BY <1>1, <1>3
  <2> HIDE DEF d
  <2>2. RemoveFirst(d, x) = d
    BY <1>1, <1>2, <2>1, RemoveFirstFacts
  <2> QED
    BY <2>1, <2>2 DEF d
<1>4. CASE x \in list
  <2>1. Index(list, pos, x) = i - 1
    <3>1. Index(list, pos, x) \in Int
      BY <1>4, IndexBound, FS_CardinalityType DEF Listed
    <3> QED
      BY <3>1
  <2> HIDE DEF d, i
  <2> DEFINE out == RemoveAt(d, i)
  <2>2. RemoveFirst(d, x) = out
    BY <1>1, <1>2, <1>4, RemoveFirstFacts
  <2>3. /\ out \in Seq(list) /\ Len(out) = Len(d) - 1
        /\ \A k \in 1 .. Len(d) - 1 : out[k] = IF k < i THEN d[k] ELSE d[k + 1]
    BY <1>1, <1>4, RemoveAtFacts
  <2> HIDE DEF out
  <2>4. Cardinality(list \ {x}) = Len(d) - 1 /\ Listed(list \ {x}, pos)
    BY <1>1, <1>4, ListedPart, FS_RemoveElement DEF Listed
  <2>5. ASSUME NEW k \in 1 .. Len(d) - 1
        PROVE  out[k] \in list \ {x} /\ Index(list \ {x}, pos, out[k]) = k - 1
    <3>1. PICK m \in 1 .. Len(d) : /\ out[k] = d[m] /\ m # i
                                   /\ m = IF k < i THEN k ELSE k + 1
      <4>1. CASE k < i
        BY <1>1, <1>4, <2>3, <4>1
      <4>2. CASE ~(k < i)
        <5>1. k + 1 \in 1 .. Len(d) /\ k + 1 # i /\ out[k] = d[k + 1]
          BY <1>1, <1>4, <2>3, <4>2
        <5> QED
          BY <4>2, <5>1
      <4> QED
        BY <4>1, <4>2
    <3>2. d[m] \in list /\ Index(list, pos, d[m]) = m - 1 /\ d[m] # x
      BY <1>1, <1>2, <1>4, <3>1
    <3>3. Index(list \ {x}, pos, d[m]) = IF i - 1 < m - 1 THEN (m - 1) - 1 ELSE m - 1
      <4>1. PICK y \in list \ {x} : y = d[m]
        BY <3>2
      <4>2. Index(list \ {x}, pos, y) =
              IF Index(list, pos, x) < Index(list, pos, y) THEN Index(list, pos, y) - 1
              ELSE Index(list, pos, y)
        BY <1>4, IndexWithout
      <4> QED
        BY <2>1, <3>2, <4>1, <4>2
    <3> QED
      BY <1>1, <1>4, <3>1, <3>2, <3>3
  <2>6. out \in Seq(list \ {x})
    <3>1. out = [k \in 1 .. Len(d) - 1 |-> out[k]]
      BY <2>3
    <3>2. out \in [1 .. Len(d) - 1 -> list \ {x}]
      BY <2>5, <3>1
    <3>3. Len(d) - 1 \in Nat
      BY <1>1, <1>4
    <3> QED
      BY <3>2, <3>3, SeqDef
  <2>7. Drawn(list \ {x}, pos) = out
    BY <2>3, <2>4, <2>5, <2>6, DrawnIs
  <2> QED
    BY <2>2, <2>7 DEF d
<1> QED
  BY <1>3, <1>4

\* A row inserted at an index is drawn there.
LEMMA DrawnInserted ==
  ASSUME NEW list, NEW pos, Listed(list, pos), NEW x \in Int, x \notin list,
         NEW index \in 0 .. Cardinality(list)
  PROVE  Drawn(list \cup {x}, InsertedAt(list, pos, x, index)) =
           InsertAt(Drawn(list, pos), index + 1, x)
<1> DEFINE d == Drawn(list, pos)
           all == list \cup {x}
           new == InsertedAt(list, pos, x, index)
           in == InsertAt(d, index + 1, x)
<1>1. /\ d \in Seq(list) /\ Len(d) = Cardinality(list) /\ Len(d) \in Nat
      /\ \A k \in 1 .. Len(d) : d[k] \in list /\ Index(list, pos, d[k]) = k - 1
  BY DrawnFacts
<1>2. IsFiniteSet(all) /\ Cardinality(all) = Len(d) + 1 /\ Compact(all, new)
  BY <1>1, FS_AddElement, InsertedCompact DEF Listed
<1>3. /\ new[x] = index
      /\ \A y \in list : new[y] = IF Index(list, pos, y) < index THEN Index(list, pos, y)
                                  ELSE Index(list, pos, y) + 1
  BY DEF InsertedAt
<1> HIDE DEF d, new
<1>4. d \in Seq(all) /\ x \in all /\ index + 1 \in 1 .. Len(d) + 1
  BY <1>1
<1>5. /\ in \in Seq(all) /\ Len(in) = Len(d) + 1 /\ in[index + 1] = x
      /\ \A k \in 1 .. index : in[k] = d[k]
      /\ \A k \in index + 2 .. Len(d) + 1 : in[k] = d[k - 1]
  <2> HIDE DEF all, in
  <2>1. PICK i \in 1 .. Len(d) + 1 : i = index + 1
    BY <1>4
  <2>2. /\ InsertAt(d, i, x) \in Seq(all) /\ Len(InsertAt(d, i, x)) = Len(d) + 1
        /\ InsertAt(d, i, x)[i] = x
        /\ \A k \in 1 .. i - 1 : InsertAt(d, i, x)[k] = d[k]
        /\ \A k \in i + 1 .. Len(d) + 1 : InsertAt(d, i, x)[k] = d[k - 1]
    BY <1>4, InsertAtFacts
  <2>3. i - 1 = index /\ i + 1 = index + 2 /\ in = InsertAt(d, i, x)
    BY <2>1 DEF in
  <2> QED
    BY <2>1, <2>2, <2>3
<1> HIDE DEF in
<1>6. \A y \in all : Index(all, new, y) = new[y]
  <2>1. \A y \in all : y \in Int
    BY DEF Listed
  <2> HIDE DEF all
  <2> QED
    BY <1>2, <2>1, CompactPosition
<1>7. \A k \in 1 .. Len(d) + 1 : in[k] \in all /\ new[in[k]] = k - 1
  <2> TAKE k \in 1 .. Len(d) + 1
  <2>1. CASE k <= index
    <3>1. k \in 1 .. Len(d) /\ k \in 1 .. index
      BY <1>1, <2>1
    <3> QED
      BY <1>1, <1>3, <1>5, <2>1, <3>1
  <2>2. CASE k = index + 1
    BY <1>3, <1>5, <2>2
  <2>3. CASE k > index + 1
    <3>1. k - 1 \in 1 .. Len(d) /\ k \in index + 2 .. Len(d) + 1 /\ ~((k - 1) - 1 < index)
      BY <1>1, <2>3
    <3>2. in[k] = d[k - 1] /\ d[k - 1] \in list /\ Index(list, pos, d[k - 1]) = (k - 1) - 1
      BY <1>1, <1>5, <3>1
    <3>3. new[d[k - 1]] = (k - 1) - 1 + 1
      BY <1>3, <3>1, <3>2
    <3> QED
      BY <3>2, <3>3
  <2> QED
    BY <1>1, <2>1, <2>2, <2>3
<1>8. Listed(all, new)
  <2>1. \A y \in all : y \in Int /\ new[y] \in Int
    BY <1>2 DEF Listed, Compact
  <2> QED
    BY <1>2, <2>1 DEF Listed
<1>9. \A k \in 1 .. Len(in) : Index(all, new, in[k]) = k - 1
  BY <1>5, <1>6, <1>7
<1>10. Drawn(all, new) = in
  <2> HIDE DEF all
  <2> QED
    BY <1>2, <1>5, <1>8, <1>9, DrawnIs
<1> QED
  BY <1>10 DEF d, new, in

\* A row behind all the others is drawn last.
LEMMA DrawnAppended ==
  ASSUME NEW list, NEW pos, NEW x \in Int, NEW new, NEW longer, Listed(list, pos), x \notin list,
         \A y \in list : new[y] = pos[y], \A y \in list : pos[y] < new[x], new[x] \in Int,
         longer = Append(Drawn(list, pos), x)
  PROVE  Drawn(list \cup {x}, new) = longer
<1> DEFINE d == Drawn(list, pos)
           all == list \cup {x}
<1>1. /\ d \in Seq(list) /\ Len(d) = Cardinality(list) /\ Len(d) \in Nat
      /\ \A k \in 1 .. Len(d) : d[k] \in list /\ Index(list, pos, d[k]) = k - 1
  BY DrawnFacts
<1>2. Listed(all, new) /\ Cardinality(all) = Len(d) + 1
  <2>1. IsFiniteSet(all) /\ Cardinality(all) = Len(d) + 1
    BY <1>1, FS_AddElement DEF Listed
  <2>2. \A y \in all : y \in Int /\ new[y] \in Int
    BY DEF Listed
  <2> QED
    BY <2>1, <2>2 DEF Listed
<1>3. \A y \in list : Index(all, new, y) = Index(list, pos, y)
  <2> TAKE y \in list
  <2>1. \A z \in list : new[z] = pos[z] /\ pos[z] \in Int /\ pos[z] < new[x]
    BY DEF Listed
  <2>2. \A z \in list : Before(new, z, y) <=> Before(pos, z, y)
    BY <2>1 DEF Before
  <2>3. ~Before(new, x, y)
    BY <2>1 DEF Before
  <2>4. {z \in all : Before(new, z, y)} = {z \in list : Before(pos, z, y)}
    BY <2>2, <2>3
  <2> QED
    BY <2>4 DEF Index
<1>4. Index(all, new, x) = Len(d)
  <2>1. \A z \in list : Before(new, z, x)
    BY DEF Before
  <2>2. ~Before(new, x, x)
    BY DEF Before
  <2>3. {z \in all : Before(new, z, x)} = list
    BY <2>1, <2>2
  <2> QED
    BY <1>1, <2>3 DEF Index
<1> HIDE DEF d
<1>5. /\ longer \in Seq(all) /\ Len(longer) = Len(d) + 1
      /\ \A k \in 1 .. Len(d) : longer[k] = d[k]
      /\ longer[Len(d) + 1] = x
  <2>1. d \in Seq(all) /\ x \in all /\ longer = Append(d, x)
    BY <1>1 DEF d
  <2> HIDE DEF all
  <2> QED
    BY <2>1, AppendProperties
<1>6. \A k \in 1 .. Len(d) + 1 : Index(all, new, longer[k]) = k - 1
  <2> TAKE k \in 1 .. Len(d) + 1
  <2>1. CASE k \in 1 .. Len(d)
    BY <1>1, <1>3, <1>5, <2>1
  <2>2. CASE k = Len(d) + 1
    <3>1. longer[k] = x /\ k - 1 = Len(d)
      BY <1>1, <1>5, <2>2
    <3> QED
      BY <1>4, <3>1
  <2>3. k \in 1 .. Len(d) \/ k = Len(d) + 1
    BY <1>1
  <2> QED
    BY <2>1, <2>2, <2>3
<1> HIDE DEF all
<1>7. Drawn(all, new) = longer
  BY <1>2, <1>5, <1>6, DrawnIs
<1> QED
  BY <1>7 DEF all

\* Rows that get other ids, n higher.
Shifted(list, n) == {n + k : k \in list}
Raised(seq, n) == [k \in DOMAIN seq |-> n + seq[k]]
ShiftedList(list, pos, new, n) == \A k \in list : new[n + k] = pos[k]

\* They are as many.
LEMMA ShiftedSize ==
  ASSUME NEW list, list \subseteq Nat, IsFiniteSet(list), NEW n \in Nat,
         NEW shifted, shifted = {n + k : k \in list}
  PROVE  IsFiniteSet(shifted) /\ Cardinality(shifted) = Cardinality(list)
<1> DEFINE f == [k \in list |-> n + k]
<1>1. f \in Injection(list, shifted)
  <2>1. \A j, k \in list : n + j = n + k => j = k
    <3> HIDE DEF f
    <3>1. \A j \in list : j \in Nat
      OBVIOUS
    <3> QED
      BY <3>1
  <2>2. f \in [list -> shifted] /\ \A j, k \in list : f[j] = f[k] => j = k
    BY <2>1
  <2> HIDE DEF f
  <2> QED
    BY <2>2 DEF Injection, IsInjective
<1>2. f \in Surjection(list, shifted)
  <2>1. f \in [list -> shifted] /\ \A x \in shifted : \E k \in list : f[k] = x
    OBVIOUS
  <2> HIDE DEF f
  <2> QED
    BY <2>1 DEF Surjection
<1> HIDE DEF f
<1>3. Cardinality(shifted) = Cardinality(list)
  BY <1>1, <1>2, FS_Bijection DEF ExistsBijection, Bijection
<1>4. IsFiniteSet(shifted)
  BY <1>2, FS_Surjection
<1> QED
  BY <1>3, <1>4

\* They are drawn as they were, n higher.
LEMMA DrawnShifted ==
  ASSUME NEW list, NEW pos, NEW new, NEW n, n \in Nat,
         \A x \in list : x \in Nat, Listed(list, pos), ShiftedList(list, pos, new, n)
  PROVE  /\ Listed(Shifted(list, n), new)
         /\ Cardinality(Shifted(list, n)) = Cardinality(list)
         /\ Drawn(Shifted(list, n), new) = Raised(Drawn(list, pos), n)
<1> DEFINE shifted == Shifted(list, n)
<1>0. shifted = {n + k : k \in list} /\ \A k \in list : new[n + k] = pos[k]
  BY DEF Shifted, ShiftedList
<1> HIDE DEF shifted
<1>1. IsFiniteSet(list) /\ list \subseteq Nat /\ \A x \in list : x \in Nat /\ pos[x] \in Int
  BY DEF Listed
<1>2. IsFiniteSet(shifted) /\ Cardinality(shifted) = Cardinality(list)
  BY <1>0, <1>1, ShiftedSize
<1>3. Listed(shifted, new)
  <2>1. \A k \in list : n + k \in Int /\ new[n + k] \in Int
    <3> TAKE k \in list
    <3>1. k \in Nat /\ pos[k] \in Int
      BY <1>1
    <3>2. n + k \in Int
      BY <3>1
    <3>3. new[n + k] = pos[k]
      BY <1>0, ZenonT(30)
    <3> QED
      BY <3>1, <3>2, <3>3
  <2>2. \A x \in shifted : x \in Int /\ new[x] \in Int
    BY <1>0, <2>1
  <2> QED
    BY <1>2, <2>2 DEF Listed
<1>4. ASSUME NEW k \in list
      PROVE  Index(shifted, new, n + k) = Index(list, pos, k)
  <2> DEFINE ahead == {j \in list : Before(pos, j, k)}
  <2>1. \A j \in list : Before(new, n + j, n + k) <=> Before(pos, j, k)
    <3> TAKE j \in list
    <3>1. new[n + j] = pos[j] /\ new[n + k] = pos[k]
      BY <1>0
    <3>2. n + j < n + k <=> j < k
      BY <1>1
    <3> QED
      BY <3>1, <3>2 DEF Before
  <2>2. {x \in shifted : Before(new, x, n + k)} = {n + j : j \in ahead}
    BY <1>0, <2>1
  <2>3. ahead \subseteq Nat /\ IsFiniteSet(ahead)
    BY <1>1, FS_Subset
  <2>4. Cardinality({n + j : j \in ahead}) = Cardinality(ahead)
    <3> HIDE DEF ahead
    <3> QED
      BY <2>3, ShiftedSize
  <2> QED
    BY <2>2, <2>4 DEF Index
<1>5. ASSUME NEW k \in 1 .. Cardinality(list)
      PROVE  Drawn(shifted, new)[k] = n + Drawn(list, pos)[k]
  <2>1. PICK x \in list : x = Drawn(list, pos)[k] /\ Index(list, pos, x) = k - 1
    BY DrawnFacts
  <2>2. Drawn(shifted, new)[k] \in shifted /\ Index(shifted, new, Drawn(shifted, new)[k]) = k - 1
    <3>1. PICK rows, after : rows = shifted /\ after = new
      OBVIOUS
    <3>2. Listed(rows, after)
      BY <1>3, <3>1
    <3>3. \A m \in 1 .. Cardinality(rows) :
            Drawn(rows, after)[m] \in rows /\ Index(rows, after, Drawn(rows, after)[m]) = m - 1
      BY <3>2, DrawnFacts
    <3>4. k \in 1 .. Cardinality(rows)
      BY <1>2, <3>1
    <3> QED
      BY <3>1, <3>3, <3>4
  <2>3. PICK y \in list : n + y = Drawn(shifted, new)[k]
    BY <1>0, <2>2
  <2>4. Index(list, pos, y) = Index(list, pos, x)
    BY <1>4, <2>1, <2>2, <2>3
  <2>5. y = x
    BY <2>4, IndexInjective DEF Listed
  <2> QED
    BY <2>1, <2>3, <2>5
<1>6. Drawn(shifted, new) = Raised(Drawn(list, pos), n)
  <2>1. /\ DOMAIN Drawn(list, pos) = 1 .. Cardinality(list)
        /\ DOMAIN Drawn(shifted, new) = 1 .. Cardinality(list)
        /\ Drawn(shifted, new) = [k \in DOMAIN Drawn(shifted, new) |-> Drawn(shifted, new)[k]]
    BY <1>2 DEF Drawn
  <2> QED
    BY <1>5, <2>1 DEF Raised
<1> QED
  BY <1>2, <1>3, <1>6 DEF shifted
=============================================================================
