--------------------------- MODULE StartPageProofs ---------------------------
(***************************************************************************)
(* Theorems about StartPage, for every number of users, groups, tiles and  *)
(* columns, every set of names, urls and files, and every position asked.  *)
(* The last part shows that the tables implement the grid of lists of      *)
(* PageLists.                                                              *)
(***************************************************************************)
EXTENDS StartPageRefinement, PositionsProofs

-----------------------------------------------------------------------------
(* Type correctness.                                                       *)

\* Both tables are finite, whatever part of them a query selects.
LEMMA FiniteTables ==
  ASSUME TypeOK
  PROVE  /\ IsFiniteSet(DOMAIN groups) /\ IsFiniteSet(DOMAIN items)
         /\ \A list \in SUBSET DOMAIN groups : IsFiniteSet(list)
         /\ \A list \in SUBSET DOMAIN items : IsFiniteSet(list)
         /\ \A g \in DOMAIN groups : PositionsOf(groups)[g] = groups[g].position
         /\ \A g \in DOMAIN groups : PositionsOf(groups)[g] \in Nat
         /\ \A i \in DOMAIN items : PositionsOf(items)[i] = items[i].position
         /\ \A i \in DOMAIN items : PositionsOf(items)[i] \in Nat
         /\ \A list \in SUBSET DOMAIN groups : Listed(list, PositionsOf(groups))
         /\ \A list \in SUBSET DOMAIN items : Listed(list, PositionsOf(items))
<1>1. lastGroup \in Nat /\ lastItem \in Nat
  BY ConstantsAssumption DEF TypeOK
<1>2. IsFiniteSet(DOMAIN groups) /\ IsFiniteSet(DOMAIN items)
  BY <1>1, FiniteRows DEF TypeOK
<1>3. \A g \in DOMAIN groups : groups[g].position \in Nat
  BY DEF TypeOK, GroupType
<1>4. \A i \in DOMAIN items : items[i].position \in Nat
  BY DEF TypeOK, ItemType
<1>5. /\ \A list \in SUBSET DOMAIN groups : IsFiniteSet(list)
      /\ \A list \in SUBSET DOMAIN items : IsFiniteSet(list)
  BY <1>2, FS_Subset
<1>6. /\ \A g \in DOMAIN groups : PositionsOf(groups)[g] = groups[g].position
      /\ \A g \in DOMAIN groups : PositionsOf(groups)[g] \in Nat
      /\ \A i \in DOMAIN items : PositionsOf(items)[i] = items[i].position
      /\ \A i \in DOMAIN items : PositionsOf(items)[i] \in Nat
  BY <1>3, <1>4 DEF PositionsOf
<1>7. (\A g \in DOMAIN groups : g \in Int) /\ (\A i \in DOMAIN items : i \in Int)
  BY <1>1 DEF TypeOK
<1>8. /\ \A list \in SUBSET DOMAIN groups : Listed(list, PositionsOf(groups))
      /\ \A list \in SUBSET DOMAIN items : Listed(list, PositionsOf(items))
  BY <1>5, <1>6, <1>7 DEF Listed
<1> QED
  BY <1>2, <1>5, <1>6, <1>8

\* Writing positions over a table of groups keeps its type.
LEMMA RepositionedGroups ==
  ASSUME NEW rows, rows \in [DOMAIN rows -> GroupType],
         NEW pos, \A r \in DOMAIN pos : pos[r] \in Nat
  PROVE  /\ DOMAIN Repositioned(rows, pos) = DOMAIN rows
         /\ Repositioned(rows, pos) \in [DOMAIN rows -> GroupType]
BY DEF Repositioned, GroupType

\* And over a table of tiles.
LEMMA RepositionedItems ==
  ASSUME NEW rows, rows \in [DOMAIN rows -> ItemType],
         NEW pos, \A r \in DOMAIN pos : pos[r] \in Nat
  PROVE  /\ DOMAIN Repositioned(rows, pos) = DOMAIN rows
         /\ Repositioned(rows, pos) \in [DOMAIN rows -> ItemType]
BY DEF Repositioned, ItemType

\* The positions of an insertion are natural numbers.
LEMMA InsertedNat ==
  ASSUME NEW list, IsFiniteSet(list), NEW pos, \A y \in list : pos[y] \in Int,
         NEW x, NEW index \in Nat
  PROVE  \A y \in DOMAIN InsertedAt(list, pos, x, index) :
           InsertedAt(list, pos, x, index)[y] \in Nat
<1>1. \A y \in list : Index(list, pos, y) \in Nat
  BY IndexNat
<1> QED
  BY <1>1 DEF InsertedAt

\* So are those of a renumbering.
LEMMA RenumberedNat ==
  ASSUME NEW list, IsFiniteSet(list), NEW pos, \A y \in list : pos[y] \in Int
  PROVE  \A y \in DOMAIN Renumbered(list, pos) : Renumbered(list, pos)[y] \in Nat
BY IndexNat DEF Renumbered

\* A clamped position is an index of the list, or its length.
LEMMA ClampBound ==
  ASSUME NEW p \in Int, NEW n \in Nat
  PROVE  Clamp(p, 0, n) \in 0 .. n
BY DEF Clamp

\* The same, of the list itself.
LEMMA ClampedIndex ==
  ASSUME NEW list, IsFiniteSet(list), NEW p \in Int
  PROVE  /\ Clamp(p, 0, Cardinality(list)) \in 0 .. Cardinality(list)
         /\ Clamp(p, 0, Cardinality(list)) \in Nat
<1>1. Cardinality(list) \in Nat
  BY FS_CardinalityType
<1>2. Clamp(p, 0, Cardinality(list)) \in 0 .. Cardinality(list)
  BY <1>1, ClampBound
<1> QED
  BY <1>1, <1>2

\* The empty database is well typed.
LEMMA InitType == Init => TypeOK
BY ConstantsAssumption DEF Init, TypeOK, Users

\* The positions of any table are naturals, and its rows' lists are finite.
LEMMA TableLists ==
  ASSUME NEW rows, IsFiniteSet(DOMAIN rows),
         \A r \in DOMAIN rows : rows[r].position \in Nat,
         NEW list, list \subseteq DOMAIN rows
  PROVE  /\ IsFiniteSet(list)
         /\ \A r \in list : PositionsOf(rows)[r] = rows[r].position
         /\ \A r \in list : PositionsOf(rows)[r] \in Nat
BY FS_Subset DEF PositionsOf

\* Renumbering a column keeps the table's type.
LEMMA ReorderColumnType ==
  ASSUME NEW rows, IsFiniteSet(DOMAIN rows), rows \in [DOMAIN rows -> GroupType], NEW u, NEW c
  PROVE  /\ DOMAIN ReorderColumn(rows, u, c) = DOMAIN rows
         /\ ReorderColumn(rows, u, c) \in [DOMAIN rows -> GroupType]
<1> DEFINE list == {g \in DOMAIN rows : rows[g].user = u /\ rows[g].column = c}
           pos == Renumbered(list, PositionsOf(rows))
<1>1. \A r \in DOMAIN rows : rows[r].position \in Nat
  BY DEF GroupType
<1>2. IsFiniteSet(list) /\ \A g \in list : PositionsOf(rows)[g] \in Int
  BY <1>1, TableLists
<1>3. \A r \in DOMAIN pos : pos[r] \in Nat
  BY <1>2, RenumberedNat
<1> HIDE DEF list, pos
<1>4. ReorderColumn(rows, u, c) = Repositioned(rows, pos)
  BY DEF ReorderColumn, list, pos
<1> QED
  BY <1>3, <1>4, RepositionedGroups

\* Renumbering a group of tiles keeps the table's type.
LEMMA ReorderGroupType ==
  ASSUME NEW rows, IsFiniteSet(DOMAIN rows), rows \in [DOMAIN rows -> ItemType], NEW g
  PROVE  /\ DOMAIN ReorderGroup(rows, g) = DOMAIN rows
         /\ ReorderGroup(rows, g) \in [DOMAIN rows -> ItemType]
<1> DEFINE list == {i \in DOMAIN rows : rows[i].group = g}
           pos == Renumbered(list, PositionsOf(rows))
<1>1. \A r \in DOMAIN rows : rows[r].position \in Nat
  BY DEF ItemType
<1>2. IsFiniteSet(list) /\ \A i \in list : PositionsOf(rows)[i] \in Int
  BY <1>1, TableLists
<1>3. \A r \in DOMAIN pos : pos[r] \in Nat
  BY <1>2, RenumberedNat
<1> HIDE DEF list, pos
<1>4. ReorderGroup(rows, g) = Repositioned(rows, pos)
  BY DEF ReorderGroup, list, pos
<1> QED
  BY <1>3, <1>4, RepositionedItems

\* CreateGroup keeps the type: the new position is a natural number.
LEMMA CreateGroupType ==
  ASSUME TypeOK, NEW u \in Users, NEW name \in Names, NEW c \in Int,
         CreateGroup(u, name, c)
  PROVE  TypeOK'
<1> DEFINE p == NextPosition(InColumn(u, c), PositionsOf(groups))
           row == [user |-> u, column |-> c, name |-> name, position |-> p]
<1>1. p \in Nat
  <2>1. InColumn(u, c) \in SUBSET DOMAIN groups
    BY DEF InColumn, OwnedBy
  <2> QED
    BY <2>1, FiniteTables, NextPositionBound
<1>2. u \in 1 .. MaxUsers
  BY ConstantsAssumption DEF TypeOK
<1>3. row \in GroupType
  BY <1>1, <1>2 DEF GroupType
<1> HIDE DEF p
<1>4. groups' = WithRow(groups, lastGroup + 1, row)
  BY DEF CreateGroup, p
<1> HIDE DEF row
<1>5. /\ DOMAIN groups' = DOMAIN groups \cup {lastGroup + 1}
      /\ groups' \in [DOMAIN groups' -> GroupType]
  BY <1>3, <1>4 DEF WithRow, TypeOK
<1>6. lastGroup' = lastGroup + 1 /\ lastGroup' \in 0 .. MaxGroups
  BY ConstantsAssumption DEF CreateGroup, TypeOK
<1>7. DOMAIN groups' \subseteq 1 .. lastGroup'
  BY <1>5, <1>6, ConstantsAssumption DEF TypeOK
<1> QED
  BY <1>5, <1>6, <1>7 DEF CreateGroup, TypeOK, Users

\* MoveGroup keeps the type: both renumberings write natural numbers.
LEMMA MoveGroupType ==
  ASSUME TypeOK, NEW u \in Users, NEW g \in DOMAIN groups, NEW c \in Int, NEW p \in Int,
         MoveGroup(u, g, c, p)
  PROVE  TypeOK'
<1> DEFINE neighbours == InColumn(u, c) \ {g}
           index == Clamp(p, 0, Cardinality(neighbours))
           moved == [groups EXCEPT ![g].column = c]
           pos == InsertedAt(neighbours, PositionsOf(groups), g, index)
           landed == Repositioned(moved, pos)
<1>1. neighbours \in SUBSET DOMAIN groups
  BY DEF InColumn, OwnedBy
<1>2. IsFiniteSet(neighbours) /\ \A y \in neighbours : PositionsOf(groups)[y] \in Int
  BY <1>1, FiniteTables
<1>3. index \in Nat
  BY <1>2, ClampedIndex
<1>4. \A y \in DOMAIN pos : pos[y] \in Nat
  <2> HIDE DEF neighbours, index
  <2> QED
    BY <1>2, <1>3, InsertedNat
<1>5. DOMAIN moved = DOMAIN groups /\ moved \in [DOMAIN groups -> GroupType]
  BY DEF TypeOK, GroupType
<1> HIDE DEF pos, moved
<1>6. DOMAIN landed = DOMAIN groups /\ landed \in [DOMAIN groups -> GroupType]
  BY <1>4, <1>5, RepositionedGroups
<1> HIDE DEF landed
<1>7. \/ groups' = landed
      \/ groups' = ReorderColumn(landed, u, groups[g].column)
  BY DEF MoveGroup, landed, moved, pos
<1>8. DOMAIN groups' = DOMAIN groups /\ groups' \in [DOMAIN groups -> GroupType]
  BY <1>6, <1>7, ReorderColumnType, FiniteTables
<1> QED
  BY <1>8 DEF MoveGroup, TypeOK, Users, ids

\* DeleteGroup keeps the type.
LEMMA DeleteGroupType ==
  ASSUME TypeOK, NEW u \in Users, NEW g \in DOMAIN groups, DeleteGroup(u, g)
  PROVE  TypeOK'
<1> DEFINE left == WithoutRows(groups, {g})
<1>1. /\ DOMAIN left = DOMAIN groups \ {g} /\ IsFiniteSet(DOMAIN left)
      /\ left \in [DOMAIN left -> GroupType]
  BY FiniteTables DEF WithoutRows, TypeOK
<1> HIDE DEF left
<1>2. groups' = ReorderColumn(left, u, groups[g].column)
  BY DEF DeleteGroup, left
<1>3. DOMAIN groups' = DOMAIN groups \ {g} /\ groups' \in [DOMAIN groups' -> GroupType]
  BY <1>1, <1>2, ReorderColumnType
<1>4. /\ DOMAIN items' \subseteq DOMAIN items
      /\ items' \in [DOMAIN items' -> ItemType]
  BY DEF DeleteGroup, WithoutRows, TypeOK
<1> QED
  BY <1>3, <1>4 DEF DeleteGroup, TypeOK, Users, ids

\* CreateItem keeps the type.
LEMMA CreateItemType ==
  ASSUME TypeOK, NEW u \in Users, NEW g \in DOMAIN groups, NEW url \in Urls,
         CreateItem(u, g, url)
  PROVE  TypeOK'
<1> DEFINE p == NextPosition(InGroup(g), PositionsOf(items))
           row == [group |-> g, url |-> url, visits |-> 0, position |-> p]
<1>1. p \in Nat
  <2>1. InGroup(g) \in SUBSET DOMAIN items
    BY DEF InGroup
  <2> QED
    BY <2>1, FiniteTables, NextPositionBound
<1>2. g \in 1 .. MaxGroups /\ 0 \in 0 .. MaxVisits
  BY ConstantsAssumption DEF TypeOK
<1>3. row \in ItemType
  BY <1>1, <1>2 DEF ItemType
<1> HIDE DEF p
<1>4. items' = WithRow(items, lastItem + 1, row)
  BY DEF CreateItem, p
<1> HIDE DEF row
<1>5. /\ DOMAIN items' = DOMAIN items \cup {lastItem + 1}
      /\ items' \in [DOMAIN items' -> ItemType]
  BY <1>3, <1>4 DEF WithRow, TypeOK
<1>6. lastItem' = lastItem + 1 /\ lastItem' \in 0 .. MaxItems
  BY ConstantsAssumption DEF CreateItem, TypeOK
<1>7. DOMAIN items' \subseteq 1 .. lastItem'
  BY <1>5, <1>6, ConstantsAssumption DEF TypeOK
<1> QED
  BY <1>5, <1>6, <1>7 DEF CreateItem, TypeOK, Users

\* MoveItem keeps the type: its index is inside the list.
LEMMA MoveItemType ==
  ASSUME TypeOK, NEW u \in Users, NEW i \in DOMAIN items, NEW p \in Int, MoveItem(u, i, p)
  PROVE  TypeOK'
<1> DEFINE list == InGroup(items[i].group)
           index == MoveItemIndex(list, PositionsOf(items), p)
           pos == InsertedAt(list \ {i}, PositionsOf(items), i, index)
<1>1. list \in SUBSET DOMAIN items /\ i \in list
  BY DEF InGroup
<1>2. IsFiniteSet(list) /\ IsFiniteSet(list \ {i})
      /\ \A y \in list : PositionsOf(items)[y] \in Int
  BY <1>1, FiniteTables
<1>3. Cardinality(list) \in Nat /\ Cardinality(list) # 0
  BY <1>1, <1>2, FS_CardinalityType, FS_EmptySet
<1> HIDE DEF list
<1>4. index \in Nat
  <2>1. FirstAtLeast(list, PositionsOf(items), p) \in Nat
    BY <1>2, FirstAtLeastBound
  <2>2. Cardinality(list) - 1 \in Nat
    BY <1>3
  <2> QED
    BY <2>1, <2>2, ClampBound DEF MoveItemIndex
<1> HIDE DEF index
<1>5. \A y \in DOMAIN pos : pos[y] \in Nat
  BY <1>2, <1>4, InsertedNat
<1> HIDE DEF pos
<1>6. items' = Repositioned(items, pos)
  BY DEF MoveItem, pos, index, list
<1>7. DOMAIN items' = DOMAIN items /\ items' \in [DOMAIN items -> ItemType]
  BY <1>5, <1>6, RepositionedItems DEF TypeOK
<1> QED
  BY <1>7 DEF MoveItem, TypeOK, Users, ids

\* MoveItemToGroup keeps the type.
LEMMA MoveItemToGroupType ==
  ASSUME TypeOK, NEW u \in Users, NEW i \in DOMAIN items, NEW g \in DOMAIN groups,
         NEW p \in Int, MoveItemToGroup(u, i, g, p)
  PROVE  TypeOK'
<1> DEFINE neighbours == InGroup(g) \ {i}
           index == MoveItemToGroupIndex(neighbours, p)
           moved == [items EXCEPT ![i].group = g]
           pos == InsertedAt(neighbours, PositionsOf(items), i, index)
           landed == Repositioned(moved, pos)
<1>1. neighbours \in SUBSET DOMAIN items
  BY DEF InGroup
<1>2. IsFiniteSet(neighbours) /\ \A y \in neighbours : PositionsOf(items)[y] \in Int
  BY <1>1, FiniteTables
<1>3. index \in Nat
  BY <1>2, ClampedIndex DEF MoveItemToGroupIndex
<1>4. \A y \in DOMAIN pos : pos[y] \in Nat
  <2> HIDE DEF neighbours, index
  <2> QED
    BY <1>2, <1>3, InsertedNat
<1>5. DOMAIN moved = DOMAIN items /\ moved \in [DOMAIN items -> ItemType]
  <2>1. g \in 1 .. MaxGroups
    BY ConstantsAssumption DEF TypeOK
  <2> QED
    BY <2>1 DEF TypeOK, ItemType
<1> HIDE DEF pos, moved
<1>6. DOMAIN landed = DOMAIN items /\ landed \in [DOMAIN items -> ItemType]
  BY <1>4, <1>5, RepositionedItems
<1> HIDE DEF landed
<1>7. \/ items' = landed
      \/ items' = ReorderGroup(landed, items[i].group)
  BY DEF MoveItemToGroup, landed, moved, pos
<1>8. DOMAIN items' = DOMAIN items /\ items' \in [DOMAIN items -> ItemType]
  BY <1>6, <1>7, ReorderGroupType, FiniteTables
<1> QED
  BY <1>8 DEF MoveItemToGroup, TypeOK, Users, ids

\* DeleteItem keeps the type.
LEMMA DeleteItemType ==
  ASSUME TypeOK, NEW u \in Users, NEW i \in DOMAIN items, DeleteItem(u, i)
  PROVE  TypeOK'
<1> DEFINE left == WithoutRows(items, {i})
<1>1. /\ DOMAIN left = DOMAIN items \ {i} /\ IsFiniteSet(DOMAIN left)
      /\ left \in [DOMAIN left -> ItemType]
  BY FiniteTables DEF WithoutRows, TypeOK
<1> HIDE DEF left
<1>2. items' = ReorderGroup(left, items[i].group)
  BY DEF DeleteItem, left
<1>3. DOMAIN items' = DOMAIN items \ {i} /\ items' \in [DOMAIN items' -> ItemType]
  BY <1>1, <1>2, ReorderGroupType
<1> QED
  BY <1>3 DEF DeleteItem, TypeOK, Users, ids

\* Editing a group or a tile in place, or counting a visit, keeps the type.
LEMMA EditType ==
  ASSUME TypeOK, NEW u \in Users
  PROVE  /\ \A g \in DOMAIN groups, name \in Names : UpdateGroup(u, g, name) => TypeOK'
         /\ \A i \in DOMAIN items, url \in Urls : UpdateItem(u, i, url) => TypeOK'
         /\ \A i \in DOMAIN items : IncrementVisitCount(u, i) => TypeOK'
<1>1. ASSUME NEW g \in DOMAIN groups, NEW name \in Names, UpdateGroup(u, g, name)
      PROVE  TypeOK'
  <2>1. DOMAIN groups' = DOMAIN groups /\ groups' \in [DOMAIN groups -> GroupType]
    BY <1>1 DEF UpdateGroup, TypeOK, GroupType
  <2> QED
    BY <1>1, <2>1 DEF UpdateGroup, TypeOK, Users, ids
<1>2. ASSUME NEW i \in DOMAIN items, NEW url \in Urls, UpdateItem(u, i, url)
      PROVE  TypeOK'
  <2>1. DOMAIN items' = DOMAIN items /\ items' \in [DOMAIN items -> ItemType]
    BY <1>2 DEF UpdateItem, TypeOK, ItemType
  <2> QED
    BY <1>2, <2>1 DEF UpdateItem, TypeOK, Users, ids
<1>3. ASSUME NEW i \in DOMAIN items, IncrementVisitCount(u, i)
      PROVE  TypeOK'
  <2>1. items[i].visits + 1 \in 0 .. MaxVisits
    BY <1>3, ConstantsAssumption DEF IncrementVisitCount, TypeOK, ItemType
  <2>2. DOMAIN items' = DOMAIN items /\ items' \in [DOMAIN items -> ItemType]
    BY <1>3, <2>1 DEF IncrementVisitCount, TypeOK, ItemType
  <2> QED
    BY <1>3, <2>2 DEF IncrementVisitCount, TypeOK, Users, ids
<1> QED
  BY <1>1, <1>2, <1>3

\* What it means to be a sequence.
LEMMA SequenceFacts ==
  ASSUME NEW S, NEW s \in Seq(S)
  PROVE  /\ Len(s) \in Nat /\ DOMAIN s = 1 .. Len(s)
         /\ \A k \in 1 .. Len(s) : s[k] \in S
OBVIOUS

\* The rows an import inserts are typed, and their ids are new and in bounds.
LEMMA NewRowsType ==
  ASSUME TypeOK, NEW u \in Users, NEW file \in Layouts, ReplaceStartPage(u, file)
  PROVE  /\ Len(file.groups) \in Nat /\ Len(file.items) \in Nat
         /\ DOMAIN NewGroups(u, file) = lastGroup + 1 .. lastGroup'
         /\ NewGroups(u, file) \in [DOMAIN NewGroups(u, file) -> GroupType]
         /\ DOMAIN NewItems(file) = lastItem + 1 .. lastItem'
         /\ NewItems(file) \in [DOMAIN NewItems(file) -> ItemType]
         /\ \A j \in DOMAIN file.items :
              lastGroup + file.items[j].group \in lastGroup + 1 .. lastGroup'
<1>1. file \in LayoutType /\ \A j \in DOMAIN file.items : file.items[j].group \in DOMAIN file.groups
  BY LayoutsAssumption
<1>2. /\ file.groups \in Seq([column: Int, position: Nat, name: Names])
      /\ file.items \in Seq([group: Nat, position: Nat, url: Urls])
  BY <1>1 DEF LayoutType
<1>3. /\ Len(file.groups) \in Nat /\ DOMAIN file.groups = 1 .. Len(file.groups)
      /\ \A k \in 1 .. Len(file.groups) :
           file.groups[k] \in [column: Int, position: Nat, name: Names]
  BY <1>2, SequenceFacts
<1>4. /\ Len(file.items) \in Nat /\ DOMAIN file.items = 1 .. Len(file.items)
      /\ \A k \in 1 .. Len(file.items) :
           file.items[k] \in [group: Nat, position: Nat, url: Urls]
  BY <1>2, SequenceFacts
<1>5. /\ lastGroup \in Nat /\ lastItem \in Nat
      /\ lastGroup' = lastGroup + Len(file.groups) /\ lastGroup' <= MaxGroups
      /\ lastItem' = lastItem + Len(file.items)
      /\ u \in 1 .. MaxUsers /\ MaxGroups \in Nat /\ 0 \in 0 .. MaxVisits
  BY ConstantsAssumption DEF TypeOK, ReplaceStartPage
<1>6. \A g \in lastGroup + 1 .. lastGroup' : g - lastGroup \in 1 .. Len(file.groups)
  BY <1>3, <1>5
<1>7. \A i \in lastItem + 1 .. lastItem' : i - lastItem \in 1 .. Len(file.items)
  BY <1>4, <1>5
<1>8. \A j \in DOMAIN file.items :
        lastGroup + file.items[j].group \in lastGroup + 1 .. lastGroup'
  BY <1>1, <1>3, <1>4, <1>5
<1>9. /\ DOMAIN NewGroups(u, file) = lastGroup + 1 .. lastGroup'
      /\ NewGroups(u, file) \in [DOMAIN NewGroups(u, file) -> GroupType]
  BY <1>3, <1>5, <1>6 DEF NewGroups, GroupType
<1>10. ASSUME NEW i \in lastItem + 1 .. lastItem'
       PROVE  lastGroup + file.items[i - lastItem].group \in 1 .. MaxGroups
  <2>1. lastGroup + file.items[i - lastItem].group \in lastGroup + 1 .. lastGroup'
    BY <1>4, <1>7, <1>8
  <2>2. \A x \in lastGroup + 1 .. lastGroup' : x \in 1 .. MaxGroups
    BY <1>3, <1>5
  <2> QED
    BY <2>1, <2>2
<1>11. /\ DOMAIN NewItems(file) = lastItem + 1 .. lastItem'
       /\ NewItems(file) \in [DOMAIN NewItems(file) -> ItemType]
  BY <1>4, <1>5, <1>7, <1>10 DEF NewItems, ItemType
<1> QED
  BY <1>3, <1>4, <1>8, <1>9, <1>11

\* An import keeps the type.
LEMMA ReplaceStartPageType ==
  ASSUME TypeOK, NEW u \in Users, NEW file \in Layouts, ReplaceStartPage(u, file)
  PROVE  TypeOK'
<1> DEFINE newGroups == NewGroups(u, file)
           newItems == NewItems(file)
<1>1. /\ Len(file.groups) \in Nat /\ Len(file.items) \in Nat
      /\ DOMAIN newGroups = lastGroup + 1 .. lastGroup'
      /\ newGroups \in [DOMAIN newGroups -> GroupType]
      /\ DOMAIN newItems = lastItem + 1 .. lastItem'
      /\ newItems \in [DOMAIN newItems -> ItemType]
  BY NewRowsType
<1>2. /\ groups' = Merge(WithoutRows(groups, OwnedBy(u)), newGroups)
      /\ items' = Merge(WithoutRows(items, TilesOf(u)), newItems)
  BY DEF ReplaceStartPage
<1> HIDE DEF newGroups, newItems
<1>3. /\ lastGroup' = lastGroup + Len(file.groups) /\ lastGroup + Len(file.groups) <= MaxGroups
      /\ lastItem' = lastItem + Len(file.items) /\ lastItem + Len(file.items) <= MaxItems
  BY DEF ReplaceStartPage
<1>4. lastGroup \in Nat /\ lastItem \in Nat /\ MaxGroups \in Nat /\ MaxItems \in Nat
  BY ConstantsAssumption DEF TypeOK
<1>5. /\ lastGroup' \in 0 .. MaxGroups /\ lastGroup <= lastGroup'
      /\ lastItem' \in 0 .. MaxItems /\ lastItem <= lastItem'
  BY <1>1, <1>3, <1>4
<1>6. DOMAIN groups' \subseteq 1 .. lastGroup' /\ groups' \in [DOMAIN groups' -> GroupType]
  BY <1>1, <1>2, <1>4, <1>5 DEF Merge, WithoutRows, TypeOK
<1>7. DOMAIN items' \subseteq 1 .. lastItem' /\ items' \in [DOMAIN items' -> ItemType]
  BY <1>1, <1>2, <1>4, <1>5 DEF Merge, WithoutRows, TypeOK
<1>8. file.width \in Int
  BY LayoutsAssumption DEF LayoutType
<1>9. columns' \in [Users -> 1 .. MaxColumns]
  BY <1>8, ConstantsAssumption DEF ReplaceStartPage, LayoutAccepted, TypeOK
<1> QED
  BY <1>5, <1>6, <1>7, <1>9 DEF ReplaceStartPage, TypeOK, Users

\* Widths, accounts that come and accounts that go keep the type.
LEMMA AccountType ==
  ASSUME TypeOK
  PROVE  /\ CreateUser => TypeOK'
         /\ \A u \in Users : DeleteUser(u) => TypeOK'
         /\ \A u \in Users, width \in Int : UpdateColumns(u, width) => TypeOK'
<1>1. ASSUME CreateUser
      PROVE  TypeOK'
  <2>1. lastUser' = lastUser + 1 /\ lastUser' \in 0 .. MaxUsers /\ lastUser \in Nat
    BY <1>1, ConstantsAssumption DEF CreateUser, TypeOK
  <2>2. DOMAIN columns' = Users \cup {lastUser + 1}
        /\ columns' \in [DOMAIN columns' -> 1 .. MaxColumns]
    BY <1>1, ConstantsAssumption DEF CreateUser, WithRow, TypeOK, Users
  <2> QED
    BY <1>1, <2>1, <2>2 DEF CreateUser, TypeOK, Users
<1>2. ASSUME NEW u \in Users, DeleteUser(u)
      PROVE  TypeOK'
  BY <1>2 DEF DeleteUser, WithoutRows, TypeOK, Users, ids
<1>3. ASSUME NEW u \in Users, NEW width \in Int, UpdateColumns(u, width)
      PROVE  TypeOK'
  <2>1. columns' \in [Users -> 1 .. MaxColumns]
    BY <1>3, ConstantsAssumption DEF UpdateColumns, TypeOK
  <2> QED
    BY <1>3, <2>1 DEF UpdateColumns, TypeOK, Users, ids
<1> QED
  BY <1>1, <1>2, <1>3

\* Every step keeps the type.
LEMMA NextType == TypeOK /\ [Next]_vars => TypeOK'
<1> SUFFICES ASSUME TypeOK, [Next]_vars
             PROVE  TypeOK'
  OBVIOUS
<1> USE ConstantsAssumption
<1>1. CASE UNCHANGED vars
  BY <1>1 DEF vars, ids, TypeOK, Users
<1>2. CASE CreateUser
  BY <1>2, AccountType
<1>3. ASSUME NEW u \in Users, GroupStep(u)
      PROVE  TypeOK'
  <2>1. ASSUME NEW name \in Names, NEW c \in 0 .. MaxColumns + 1, CreateGroup(u, name, c)
        PROVE  TypeOK'
    BY <2>1, CreateGroupType
  <2>2. ASSUME NEW g \in DOMAIN groups, NEW c \in 0 .. MaxColumns + 1,
               NEW p \in AskedPositions, MoveGroup(u, g, c, p)
        PROVE  TypeOK'
    BY <2>2, MoveGroupType
  <2> QED
    BY <1>3, <2>1, <2>2, EditType, DeleteGroupType DEF GroupStep
<1>4. ASSUME NEW u \in Users, ItemStep(u)
      PROVE  TypeOK'
  <2>1. ASSUME NEW i \in DOMAIN items, NEW p \in AskedPositions, MoveItem(u, i, p)
        PROVE  TypeOK'
    BY <2>1, MoveItemType
  <2>2. ASSUME NEW i \in DOMAIN items, NEW g \in DOMAIN groups,
               NEW p \in AskedPositions, MoveItemToGroup(u, i, g, p)
        PROVE  TypeOK'
    BY <2>2, MoveItemToGroupType
  <2> QED
    BY <1>4, <2>1, <2>2, EditType, CreateItemType, DeleteItemType DEF ItemStep
<1>5. ASSUME NEW u \in Users, PageStep(u)
      PROVE  TypeOK'
  BY <1>5, AccountType, ReplaceStartPageType DEF PageStep
<1> QED
  BY <1>1, <1>2, <1>3, <1>4, <1>5 DEF Next

\* TypeOK is inductive: every variable keeps its type, every id stays below the
\* sequence that hands out the next one, and no position is ever negative.
THEOREM TypeCorrect == Spec => []TypeOK
BY InitType, NextType, PTL DEF Spec

-----------------------------------------------------------------------------
(* What each kind of write leaves alone, and what it does to a list.       *)

\* The lists of a table of groups and of a table of tiles.
ColumnIn(rows, u, c) == {g \in DOMAIN rows : rows[g].user = u /\ rows[g].column = c}
GroupIn(rows, g) == {i \in DOMAIN rows : rows[i].group = g}

\* Two tables that differ in the rows' positions alone.
SameGroups(rows, next) ==
  /\ DOMAIN next = DOMAIN rows
  /\ \A r \in DOMAIN rows :
       /\ next[r].user = rows[r].user
       /\ next[r].column = rows[r].column
       /\ next[r].name = rows[r].name
SameItems(rows, next) ==
  /\ DOMAIN next = DOMAIN rows
  /\ \A r \in DOMAIN rows : next[r].group = rows[r].group /\ next[r].url = rows[r].url

\* Compact looks at the positions of the list and at nothing else.
LEMMA CompactAgree ==
  ASSUME NEW list, NEW pos, NEW new, Compact(list, pos), \A x \in list : new[x] = pos[x]
  PROVE  Compact(list, new)
BY DEF Compact

\* An empty list is compact.
LEMMA CompactEmpty ==
  ASSUME NEW pos
  PROVE  Compact({}, pos)
BY DEF Compact

\* Writing positions over groups changes nothing else, and no other position.
LEMMA RepositionedGroupRows ==
  ASSUME NEW rows, rows \in [DOMAIN rows -> GroupType], NEW pos
  PROVE  /\ SameGroups(rows, Repositioned(rows, pos))
         /\ \A r \in DOMAIN rows :
              PositionsOf(Repositioned(rows, pos))[r] =
                IF r \in DOMAIN pos THEN pos[r] ELSE rows[r].position
         /\ \A r \in DOMAIN rows : r \notin DOMAIN pos => Repositioned(rows, pos)[r] = rows[r]
BY DEF Repositioned, SameGroups, PositionsOf, GroupType

\* The same for tiles.
LEMMA RepositionedItemRows ==
  ASSUME NEW rows, rows \in [DOMAIN rows -> ItemType], NEW pos
  PROVE  /\ SameItems(rows, Repositioned(rows, pos))
         /\ \A r \in DOMAIN rows :
              PositionsOf(Repositioned(rows, pos))[r] =
                IF r \in DOMAIN pos THEN pos[r] ELSE rows[r].position
         /\ \A r \in DOMAIN rows : r \notin DOMAIN pos => Repositioned(rows, pos)[r] = rows[r]
BY DEF Repositioned, SameItems, PositionsOf, ItemType

\* Renumbering a column of groups makes it compact, whatever its positions were,
\* and leaves every other row alone.
LEMMA ReorderColumnRows ==
  ASSUME NEW rows, IsFiniteSet(DOMAIN rows), rows \in [DOMAIN rows -> GroupType], NEW u, NEW c,
         \A r \in DOMAIN rows : r \in Int
  PROVE  /\ SameGroups(rows, ReorderColumn(rows, u, c))
         /\ Compact(ColumnIn(rows, u, c), PositionsOf(ReorderColumn(rows, u, c)))
         /\ \A r \in DOMAIN rows \ ColumnIn(rows, u, c) :
              PositionsOf(ReorderColumn(rows, u, c))[r] = rows[r].position
<1> DEFINE list == ColumnIn(rows, u, c)
           pos == Renumbered(list, PositionsOf(rows))
<1>1. \A r \in DOMAIN rows : rows[r].position \in Nat
  BY DEF GroupType
<1>2. list \subseteq DOMAIN rows
  BY DEF ColumnIn
<1>3. /\ IsFiniteSet(list) /\ \A r \in list : PositionsOf(rows)[r] \in Int
      /\ \A r \in list : PositionsOf(rows)[r] = rows[r].position
  BY <1>1, <1>2, TableLists
<1>4. DOMAIN pos = list
  BY DEF Renumbered
<1>5. ReorderColumn(rows, u, c) = Repositioned(rows, pos)
  BY DEF ReorderColumn, ColumnIn
<1> HIDE DEF list
<1>6. Compact(list, pos)
  BY <1>2, <1>3, RenumberedCompact DEF Listed
<1> HIDE DEF pos
<1>7. \A r \in list : PositionsOf(Repositioned(rows, pos))[r] = pos[r]
  BY <1>2, <1>4, RepositionedGroupRows
<1>8. Compact(list, PositionsOf(Repositioned(rows, pos)))
  BY <1>6, <1>7, CompactAgree
<1>9. /\ SameGroups(rows, Repositioned(rows, pos))
      /\ \A r \in DOMAIN rows \ list : PositionsOf(Repositioned(rows, pos))[r] = rows[r].position
  BY <1>4, RepositionedGroupRows
<1> QED
  BY <1>5, <1>8, <1>9 DEF list

\* The same for the tiles of a group.
LEMMA ReorderGroupRows ==
  ASSUME NEW rows, IsFiniteSet(DOMAIN rows), rows \in [DOMAIN rows -> ItemType], NEW g,
         \A r \in DOMAIN rows : r \in Int
  PROVE  /\ SameItems(rows, ReorderGroup(rows, g))
         /\ Compact(GroupIn(rows, g), PositionsOf(ReorderGroup(rows, g)))
         /\ \A r \in DOMAIN rows \ GroupIn(rows, g) :
              PositionsOf(ReorderGroup(rows, g))[r] = rows[r].position
<1> DEFINE list == GroupIn(rows, g)
           pos == Renumbered(list, PositionsOf(rows))
<1>1. \A r \in DOMAIN rows : rows[r].position \in Nat
  BY DEF ItemType
<1>2. list \subseteq DOMAIN rows
  BY DEF GroupIn
<1>3. /\ IsFiniteSet(list) /\ \A r \in list : PositionsOf(rows)[r] \in Int
      /\ \A r \in list : PositionsOf(rows)[r] = rows[r].position
  BY <1>1, <1>2, TableLists
<1>4. DOMAIN pos = list
  BY DEF Renumbered
<1>5. ReorderGroup(rows, g) = Repositioned(rows, pos)
  BY DEF ReorderGroup, GroupIn
<1> HIDE DEF list
<1>6. Compact(list, pos)
  BY <1>2, <1>3, RenumberedCompact DEF Listed
<1> HIDE DEF pos
<1>7. \A r \in list : PositionsOf(Repositioned(rows, pos))[r] = pos[r]
  BY <1>2, <1>4, RepositionedItemRows
<1>8. Compact(list, PositionsOf(Repositioned(rows, pos)))
  BY <1>6, <1>7, CompactAgree
<1>9. /\ SameItems(rows, Repositioned(rows, pos))
      /\ \A r \in DOMAIN rows \ list : PositionsOf(Repositioned(rows, pos))[r] = rows[r].position
  BY <1>4, RepositionedItemRows
<1> QED
  BY <1>5, <1>8, <1>9 DEF list

\* Renumbering a column changes positions alone, whatever they were.
LEMMA ReorderColumnFields ==
  ASSUME NEW rows, rows \in [DOMAIN rows -> GroupType], NEW u, NEW c
  PROVE  SameGroups(rows, ReorderColumn(rows, u, c))
BY RepositionedGroupRows DEF ReorderColumn

\* The same for the tiles of a group.
LEMMA ReorderGroupFields ==
  ASSUME NEW rows, rows \in [DOMAIN rows -> ItemType], NEW g
  PROVE  SameItems(rows, ReorderGroup(rows, g))
BY RepositionedItemRows DEF ReorderGroup

\* A move of a group changes its column and positions.
LEMMA MoveGroupFields ==
  ASSUME TypeOK, NEW u \in Users, NEW g \in DOMAIN groups, NEW c \in Int, NEW p \in Int,
         MoveGroup(u, g, c, p)
  PROVE  SameGroups([groups EXCEPT ![g].column = c], groups')
<1> DEFINE moved == [groups EXCEPT ![g].column = c]
           neighbours == InColumn(u, c) \ {g}
           index == Clamp(p, 0, Cardinality(neighbours))
           pos == InsertedAt(neighbours, PositionsOf(groups), g, index)
           landed == Repositioned(moved, pos)
<1>1. DOMAIN moved = DOMAIN groups /\ moved \in [DOMAIN moved -> GroupType]
  BY DEF TypeOK, GroupType
<1>2. neighbours \in SUBSET DOMAIN groups
  BY DEF InColumn, OwnedBy
<1>3. \A y \in DOMAIN pos : pos[y] \in Nat
  <2>1. IsFiniteSet(neighbours) /\ \A y \in neighbours : PositionsOf(groups)[y] \in Int
    BY <1>2, FiniteTables
  <2>2. index \in Nat
    BY <2>1, ClampedIndex
  <2> HIDE DEF neighbours, index
  <2> QED
    BY <2>1, <2>2, InsertedNat
<1> HIDE DEF moved, pos
<1>4. SameGroups(moved, landed) /\ landed \in [DOMAIN landed -> GroupType]
  BY <1>1, <1>3, RepositionedGroupRows, RepositionedGroups
<1> HIDE DEF landed
<1>5. SameGroups(landed, ReorderColumn(landed, u, groups[g].column))
  BY <1>4, ReorderColumnFields
<1>6. \/ groups' = landed
      \/ groups' = ReorderColumn(landed, u, groups[g].column)
  BY DEF MoveGroup, landed, moved, pos
<1>7. SameGroups(moved, groups')
  BY <1>4, <1>5, <1>6 DEF SameGroups
<1> QED
  BY <1>7 DEF moved

\* A move of a tile inside its group changes positions.
LEMMA MoveItemFields ==
  ASSUME TypeOK, NEW u \in Users, NEW i \in DOMAIN items, NEW p \in Int, MoveItem(u, i, p)
  PROVE  SameItems(items, items')
BY RepositionedItemRows DEF MoveItem, TypeOK

\* A move of a tile to a group changes its group and positions.
LEMMA MoveItemToGroupFields ==
  ASSUME TypeOK, NEW u \in Users, NEW i \in DOMAIN items, NEW g \in DOMAIN groups,
         NEW p \in Int, MoveItemToGroup(u, i, g, p)
  PROVE  SameItems([items EXCEPT ![i].group = g], items')
<1> DEFINE moved == [items EXCEPT ![i].group = g]
           neighbours == InGroup(g) \ {i}
           index == MoveItemToGroupIndex(neighbours, p)
           pos == InsertedAt(neighbours, PositionsOf(items), i, index)
           landed == Repositioned(moved, pos)
<1>1. DOMAIN moved = DOMAIN items /\ moved \in [DOMAIN moved -> ItemType]
  <2>1. g \in 1 .. MaxGroups
    BY ConstantsAssumption DEF TypeOK
  <2> QED
    BY <2>1 DEF TypeOK, ItemType
<1>2. neighbours \in SUBSET DOMAIN items
  BY DEF InGroup
<1>3. \A y \in DOMAIN pos : pos[y] \in Nat
  <2>1. IsFiniteSet(neighbours) /\ \A y \in neighbours : PositionsOf(items)[y] \in Int
    BY <1>2, FiniteTables
  <2>2. index \in Nat
    BY <2>1, ClampedIndex DEF MoveItemToGroupIndex
  <2> HIDE DEF neighbours, index
  <2> QED
    BY <2>1, <2>2, InsertedNat
<1> HIDE DEF moved, pos
<1>4. SameItems(moved, landed) /\ landed \in [DOMAIN landed -> ItemType]
  BY <1>1, <1>3, RepositionedItemRows, RepositionedItems
<1> HIDE DEF landed
<1>5. SameItems(landed, ReorderGroup(landed, items[i].group))
  BY <1>4, ReorderGroupFields
<1>6. \/ items' = landed
      \/ items' = ReorderGroup(landed, items[i].group)
  BY DEF MoveItemToGroup, landed, moved, pos
<1>7. SameItems(moved, items')
  BY <1>4, <1>5, <1>6 DEF SameItems
<1> QED
  BY <1>7 DEF moved

-----------------------------------------------------------------------------
(* Nothing is stranded, orphaned or there twice.                           *)

\* What the three invariants need of each other.
Sound == NoGroupStranded /\ NoOrphanTiles /\ NoDuplicates

\* Creating, renaming, moving and deleting groups keeps the page sound.
LEMMA GroupStepSound ==
  ASSUME TypeOK, Sound, NEW u \in Users, GroupStep(u)
  PROVE  Sound'
<1>1. ASSUME NEW name \in Names, NEW c \in 0 .. MaxColumns + 1, CreateGroup(u, name, c)
      PROVE  Sound'
  <2> DEFINE new == lastGroup + 1
  <2>1. new \notin DOMAIN groups
    BY ConstantsAssumption DEF TypeOK
  <2>2. /\ DOMAIN groups' = DOMAIN groups \cup {new}
        /\ groups'[new].user = u /\ groups'[new].name = name /\ groups'[new].column = c
        /\ \A g \in DOMAIN groups : groups'[g] = groups[g]
    BY <1>1, <2>1 DEF CreateGroup, WithRow
  <2>3. items' = items /\ columns' = columns
    BY <1>1 DEF CreateGroup
  <2>4. c \in 1 .. columns[u] /\ \A g \in OwnedBy(u) : groups[g].name # name
    <3>1. c \in Int /\ 0 \notin OwnedBy(u)
      BY ConstantsAssumption DEF OwnedBy, TypeOK
    <3>2. columns[u] \in Int
      BY ConstantsAssumption DEF TypeOK, Users
    <3> QED
      BY <1>1, <3>1, <3>2 DEF CreateGroup, GroupAccepted
  <2> HIDE DEF new
  <2>5. NoGroupStranded'
    BY <2>2, <2>3, <2>4 DEF Sound, NoGroupStranded, Users
  <2>6. NoOrphanTiles'
    BY <2>2, <2>3 DEF Sound, NoOrphanTiles
  <2>7. NoDuplicates'
    BY <2>1, <2>2, <2>3, <2>4 DEF Sound, NoDuplicates, OwnedBy
  <2> QED
    BY <2>5, <2>6, <2>7 DEF Sound
<1>2. ASSUME NEW g \in DOMAIN groups, NEW name \in Names, UpdateGroup(u, g, name)
      PROVE  Sound'
  <2>1. /\ DOMAIN groups' = DOMAIN groups /\ items' = items /\ columns' = columns
        /\ \A h \in DOMAIN groups : /\ groups'[h].user = groups[h].user
                                    /\ groups'[h].column = groups[h].column
                                    /\ h # g => groups'[h].name = groups[h].name
        /\ groups'[g].name = name
    BY <1>2 DEF UpdateGroup, TypeOK, GroupType
  <2>2. groups[g].user = u /\ \A h \in OwnedBy(u) \ {g} : groups[h].name # name
    BY <1>2 DEF UpdateGroup, GroupAccepted, OwnedBy
  <2>3. NoGroupStranded'
    BY <2>1 DEF Sound, NoGroupStranded, Users
  <2>4. NoOrphanTiles'
    BY <2>1 DEF Sound, NoOrphanTiles
  <2>5. NoDuplicates'
    BY <2>1, <2>2 DEF Sound, NoDuplicates, OwnedBy
  <2> QED
    BY <2>3, <2>4, <2>5 DEF Sound
<1>3. ASSUME NEW g \in DOMAIN groups, NEW c \in 0 .. MaxColumns + 1, NEW p \in AskedPositions,
             MoveGroup(u, g, c, p)
      PROVE  Sound'
  <2>1. c \in Int /\ p \in Int
    BY ConstantsAssumption
  <2>2. SameGroups([groups EXCEPT ![g].column = c], groups')
    BY <1>3, <2>1, MoveGroupFields
  <2>3. /\ DOMAIN groups' = DOMAIN groups /\ items' = items /\ columns' = columns
        /\ \A h \in DOMAIN groups : /\ groups'[h].user = groups[h].user
                                    /\ groups'[h].column = IF h = g THEN c ELSE groups[h].column
                                    /\ groups'[h].name = groups[h].name
    <3> DEFINE moved == [groups EXCEPT ![g].column = c]
    <3>1. /\ DOMAIN moved = DOMAIN groups
          /\ \A h \in DOMAIN groups : /\ moved[h].user = groups[h].user
                                      /\ moved[h].column = IF h = g THEN c ELSE groups[h].column
                                      /\ moved[h].name = groups[h].name
      BY DEF TypeOK, GroupType
    <3>2. items' = items /\ columns' = columns
      BY <1>3 DEF MoveGroup
    <3> HIDE DEF moved
    <3> QED
      BY <2>2, <3>1, <3>2 DEF SameGroups, moved
  <2>4. groups[g].user = u /\ c >= 1 /\ c <= columns[u] /\ columns[u] \in Int
    BY <1>3 DEF MoveGroup, OwnedBy, TypeOK, Users
  <2>5. NoGroupStranded'
    BY <2>1, <2>3, <2>4 DEF Sound, NoGroupStranded, Users
  <2>6. NoOrphanTiles'
    BY <2>3 DEF Sound, NoOrphanTiles
  <2>7. NoDuplicates'
    BY <2>3 DEF Sound, NoDuplicates
  <2> QED
    BY <2>5, <2>6, <2>7 DEF Sound
<1>4. ASSUME NEW g \in DOMAIN groups, DeleteGroup(u, g)
      PROVE  Sound'
  <2> DEFINE left == WithoutRows(groups, {g})
  <2>1. /\ DOMAIN left = DOMAIN groups \ {g} /\ left \in [DOMAIN left -> GroupType]
        /\ \A h \in DOMAIN left : left[h] = groups[h]
    BY DEF WithoutRows, TypeOK
  <2> HIDE DEF left
  <2>2. groups' = ReorderColumn(left, u, groups[g].column)
    BY <1>4 DEF DeleteGroup, left
  <2>3. SameGroups(left, groups')
    BY <2>1, <2>2, ReorderColumnFields
  <2>4. /\ DOMAIN groups' = DOMAIN groups \ {g} /\ columns' = columns
        /\ \A h \in DOMAIN groups' : /\ groups'[h].user = groups[h].user
                                     /\ groups'[h].column = groups[h].column
                                     /\ groups'[h].name = groups[h].name
    BY <1>4, <2>1, <2>3 DEF SameGroups, DeleteGroup
  <2>5. /\ DOMAIN items' = DOMAIN items \ InGroup(g)
        /\ \A i \in DOMAIN items' : items'[i] = items[i]
    BY <1>4 DEF DeleteGroup, WithoutRows
  <2>6. NoGroupStranded'
    BY <2>4 DEF Sound, NoGroupStranded, Users
  <2>7. NoOrphanTiles'
    BY <2>4, <2>5 DEF Sound, NoOrphanTiles, InGroup
  <2>8. NoDuplicates'
    BY <2>4, <2>5 DEF Sound, NoDuplicates
  <2> QED
    BY <2>6, <2>7, <2>8 DEF Sound
<1> QED
  BY <1>1, <1>2, <1>3, <1>4 DEF GroupStep

\* Creating, editing, moving and deleting tiles keeps the page sound.
LEMMA ItemStepSound ==
  ASSUME TypeOK, Sound, NEW u \in Users, ItemStep(u)
  PROVE  Sound'
<1> SUFFICES NoOrphanTiles' /\ NoDuplicates'
  BY DEF Sound, NoGroupStranded, ItemStep, CreateItem, UpdateItem, MoveItem, MoveItemToGroup,
         DeleteItem, IncrementVisitCount, Users
<1>0. groups' = groups
  BY DEF ItemStep, CreateItem, UpdateItem, MoveItem, MoveItemToGroup, DeleteItem,
         IncrementVisitCount
<1>1. ASSUME NEW g \in DOMAIN groups, NEW url \in Urls, CreateItem(u, g, url)
      PROVE  NoOrphanTiles' /\ NoDuplicates'
  <2> DEFINE new == lastItem + 1
  <2>1. new \notin DOMAIN items
    BY ConstantsAssumption DEF TypeOK
  <2>2. /\ DOMAIN items' = DOMAIN items \cup {new}
        /\ items'[new].group = g /\ items'[new].url = url
        /\ \A i \in DOMAIN items : items'[i] = items[i]
    BY <1>1, <2>1 DEF CreateItem, WithRow
  <2>3. \A i \in InGroup(g) : items[i].url # url
    <3>1. 0 \notin InGroup(g)
      BY DEF InGroup, TypeOK
    <3> QED
      BY <1>1, <3>1 DEF CreateItem, ItemAccepted
  <2> HIDE DEF new
  <2> QED
    BY <1>0, <2>1, <2>2, <2>3 DEF Sound, NoOrphanTiles, NoDuplicates, InGroup
<1>2. ASSUME NEW i \in DOMAIN items, NEW url \in Urls, UpdateItem(u, i, url)
      PROVE  NoOrphanTiles' /\ NoDuplicates'
  <2>1. /\ DOMAIN items' = DOMAIN items
        /\ \A k \in DOMAIN items : /\ items'[k].group = items[k].group
                                   /\ k # i => items'[k].url = items[k].url
        /\ items'[i].url = url
    BY <1>2 DEF UpdateItem, TypeOK, ItemType
  <2>2. \A k \in InGroup(items[i].group) \ {i} : items[k].url # url
    BY <1>2 DEF UpdateItem, ItemAccepted
  <2> QED
    BY <1>0, <2>1, <2>2 DEF Sound, NoOrphanTiles, NoDuplicates, InGroup
<1>3. ASSUME NEW i \in DOMAIN items, NEW p \in AskedPositions, MoveItem(u, i, p)
      PROVE  NoOrphanTiles' /\ NoDuplicates'
  <2>1. SameItems(items, items')
    BY <1>3, MoveItemFields, ConstantsAssumption
  <2> QED
    BY <1>0, <2>1 DEF SameItems, Sound, NoOrphanTiles, NoDuplicates
<1>4. ASSUME NEW i \in DOMAIN items, NEW g \in DOMAIN groups, NEW p \in AskedPositions,
             MoveItemToGroup(u, i, g, p)
      PROVE  NoOrphanTiles' /\ NoDuplicates'
  <2> DEFINE moved == [items EXCEPT ![i].group = g]
  <2>1. /\ DOMAIN moved = DOMAIN items
        /\ \A k \in DOMAIN items : /\ moved[k].group = IF k = i THEN g ELSE items[k].group
                                   /\ moved[k].url = items[k].url
    BY DEF TypeOK, ItemType
  <2>2. SameItems(moved, items')
    BY <1>4, MoveItemToGroupFields, ConstantsAssumption
  <2>3. items[i].group # g => \A k \in InGroup(g) : items[k].url # items[i].url
    BY <1>4 DEF MoveItemToGroup, UrlFree
  <2> HIDE DEF moved
  <2>4. /\ DOMAIN items' = DOMAIN items
        /\ \A k \in DOMAIN items : /\ items'[k].group = IF k = i THEN g ELSE items[k].group
                                   /\ items'[k].url = items[k].url
    BY <2>1, <2>2 DEF SameItems
  <2> QED
    BY <1>0, <2>3, <2>4 DEF Sound, NoOrphanTiles, NoDuplicates, InGroup
<1>5. ASSUME NEW i \in DOMAIN items, DeleteItem(u, i)
      PROVE  NoOrphanTiles' /\ NoDuplicates'
  <2> DEFINE left == WithoutRows(items, {i})
  <2>1. /\ DOMAIN left = DOMAIN items \ {i} /\ left \in [DOMAIN left -> ItemType]
        /\ \A k \in DOMAIN left : left[k] = items[k]
    BY DEF WithoutRows, TypeOK
  <2> HIDE DEF left
  <2>2. items' = ReorderGroup(left, items[i].group)
    BY <1>5 DEF DeleteItem, left
  <2>3. SameItems(left, items')
    BY <2>1, <2>2, ReorderGroupFields
  <2> QED
    BY <1>0, <2>1, <2>3 DEF SameItems, Sound, NoOrphanTiles, NoDuplicates
<1>6. ASSUME NEW i \in DOMAIN items, IncrementVisitCount(u, i)
      PROVE  NoOrphanTiles' /\ NoDuplicates'
  <2>1. SameItems(items, items')
    BY <1>6 DEF IncrementVisitCount, SameItems, TypeOK, ItemType
  <2> QED
    BY <1>0, <2>1 DEF SameItems, Sound, NoOrphanTiles, NoDuplicates
<1> QED
  BY <1>1, <1>2, <1>3, <1>4, <1>5, <1>6 DEF ItemStep

\* Resizing the grid, importing a file and deleting the account keep it sound.
LEMMA PageStepSound ==
  ASSUME TypeOK, Sound, NEW u \in Users, PageStep(u)
  PROVE  Sound'
<1>1. ASSUME NEW width \in 0 .. MaxColumns + 1, UpdateColumns(u, width)
      PROVE  Sound'
  <2>1. /\ groups' = groups /\ items' = items /\ Users' = Users
        /\ columns'[u] = width /\ \A v \in Users \ {u} : columns'[v] = columns[v]
    BY <1>1 DEF UpdateColumns, TypeOK, Users
  <2>2. \A g \in OwnedBy(u) : groups[g].column <= width
    BY <1>1, ConstantsAssumption DEF UpdateColumns, Sound, NoGroupStranded, OwnedBy, TypeOK
  <2>3. width \in Int /\ columns[u] \in Int
    BY ConstantsAssumption DEF TypeOK
  <2>4. NoGroupStranded'
    BY <2>1, <2>2, <2>3, ConstantsAssumption DEF Sound, NoGroupStranded, OwnedBy, TypeOK, Users
  <2> QED
    BY <2>1, <2>4 DEF Sound, NoOrphanTiles, NoDuplicates
<1>2. ASSUME DeleteUser(u)
      PROVE  Sound'
  <2>1. /\ DOMAIN groups' = DOMAIN groups \ OwnedBy(u) /\ DOMAIN items' = DOMAIN items \ TilesOf(u)
        /\ \A g \in DOMAIN groups' : groups'[g] = groups[g]
        /\ \A i \in DOMAIN items' : items'[i] = items[i]
        /\ Users' = Users \ {u} /\ \A v \in Users' : columns'[v] = columns[v]
    BY <1>2 DEF DeleteUser, WithoutRows, Users
  <2> QED
    BY <2>1 DEF Sound, NoGroupStranded, NoOrphanTiles, NoDuplicates, OwnedBy, TilesOf
<1>3. ASSUME NEW file \in Layouts, ReplaceStartPage(u, file)
      PROVE  Sound'
  <2> DEFINE newGroups == NewGroups(u, file)
             newItems == NewItems(file)
  <2>1. /\ file \in LayoutType
        /\ file.groups \in Seq([column: Int, position: Nat, name: Names])
        /\ file.items \in Seq([group: Nat, position: Nat, url: Urls])
    BY LayoutsAssumption DEF LayoutType
  <2>2. /\ Len(file.groups) \in Nat /\ DOMAIN file.groups = 1 .. Len(file.groups)
        /\ \A k \in 1 .. Len(file.groups) :
             file.groups[k] \in [column: Int, position: Nat, name: Names]
    BY <2>1, SequenceFacts
  <2>3. /\ Len(file.items) \in Nat /\ DOMAIN file.items = 1 .. Len(file.items)
        /\ \A k \in 1 .. Len(file.items) :
             file.items[k] \in [group: Nat, position: Nat, url: Urls]
    BY <2>1, SequenceFacts
  <2>4. /\ lastGroup \in Nat /\ lastItem \in Nat
        /\ lastGroup' = lastGroup + Len(file.groups) /\ lastItem' = lastItem + Len(file.items)
    BY <1>3, ConstantsAssumption DEF TypeOK, ReplaceStartPage
  <2>5. /\ DOMAIN newGroups = lastGroup + 1 .. lastGroup'
        /\ DOMAIN newItems = lastItem + 1 .. lastItem'
        /\ \A j \in DOMAIN file.items :
             lastGroup + file.items[j].group \in lastGroup + 1 .. lastGroup'
    BY <1>3, NewRowsType
  <2>6. \A g \in DOMAIN newGroups : /\ g - lastGroup \in 1 .. Len(file.groups)
                                    /\ newGroups[g].user = u
                                    /\ newGroups[g].column = file.groups[g - lastGroup].column
                                    /\ newGroups[g].name = file.groups[g - lastGroup].name
    BY <2>2, <2>4, <2>5 DEF NewGroups
  <2>7. \A i \in DOMAIN newItems : /\ i - lastItem \in 1 .. Len(file.items)
                                   /\ newItems[i].group = lastGroup + file.items[i - lastItem].group
                                   /\ newItems[i].url = file.items[i - lastItem].url
    BY <2>3, <2>4, <2>5 DEF NewItems
  <2>8. /\ groups' = Merge(WithoutRows(groups, OwnedBy(u)), newGroups)
        /\ items' = Merge(WithoutRows(items, TilesOf(u)), newItems)
        /\ Users' = Users /\ columns'[u] = file.width
        /\ \A v \in Users \ {u} : columns'[v] = columns[v]
    BY <1>3 DEF ReplaceStartPage, Users, TypeOK
  <2>9. LayoutAccepted(file)
    BY <1>3 DEF ReplaceStartPage
  <2> HIDE DEF newGroups, newItems
  <2>10. /\ DOMAIN groups' = (DOMAIN groups \ OwnedBy(u)) \cup DOMAIN newGroups
         /\ \A g \in DOMAIN newGroups : groups'[g] = newGroups[g] /\ g \notin DOMAIN groups
         /\ \A g \in DOMAIN groups \ OwnedBy(u) : groups'[g] = groups[g] /\ groups[g].user # u
    BY <2>4, <2>5, <2>8 DEF Merge, WithoutRows, OwnedBy, TypeOK
  <2>11. /\ DOMAIN items' = (DOMAIN items \ TilesOf(u)) \cup DOMAIN newItems
         /\ \A i \in DOMAIN newItems : items'[i] = newItems[i]
         /\ \A i \in DOMAIN items \ TilesOf(u) : items'[i] = items[i] /\ items[i].group \notin OwnedBy(u)
    BY <2>4, <2>5, <2>8 DEF Merge, WithoutRows, TilesOf, TypeOK
  <2>12. NoGroupStranded'
    <3>1. \A g \in DOMAIN newGroups : newGroups[g].column \in 1 .. file.width
      <4>1. \A k \in 1 .. Len(file.groups) : file.groups[k].column \in 1 .. file.width
        <5>1. file.width \in Int /\ \A k \in 1 .. Len(file.groups) : file.groups[k].column \in Int
          BY <2>1, <2>2 DEF LayoutType
        <5> QED
          BY <2>2, <2>9, <5>1 DEF LayoutAccepted
      <4> QED
        BY <2>6, <4>1
    <3> QED
      BY <2>6, <2>8, <2>10, <3>1 DEF Sound, NoGroupStranded
  <2>13. NoOrphanTiles'
    <3>1. \A i \in DOMAIN newItems : newItems[i].group \in DOMAIN newGroups
      BY <2>3, <2>5, <2>7
    <3> QED
      BY <2>10, <2>11, <3>1 DEF Sound, NoOrphanTiles
  <2>14. ASSUME NEW g \in DOMAIN groups', NEW h \in DOMAIN groups', g # h,
                groups'[g].user = groups'[h].user
         PROVE  groups'[g].name # groups'[h].name
    <3>1. CASE g \in DOMAIN newGroups /\ h \in DOMAIN newGroups
      <4> DEFINE a == g - lastGroup
                 b == h - lastGroup
      <4>1. a \in 1 .. Len(file.groups) /\ b \in 1 .. Len(file.groups) /\ a # b
        BY <2>4, <2>5, <2>6, <2>14, <3>1
      <4>2. a \in 1 .. b - 1 \/ b \in 1 .. a - 1
        BY <4>1, <2>2
      <4>3. file.groups[a].name # file.groups[b].name
        BY <2>2, <2>9, <4>1, <4>2 DEF LayoutAccepted
      <4> QED
        BY <2>6, <2>10, <3>1, <4>3
    <3>2. CASE g \notin DOMAIN newGroups /\ h \notin DOMAIN newGroups
      BY <2>10, <2>14, <3>2 DEF Sound, NoDuplicates
    <3>3. CASE ~(g \in DOMAIN newGroups <=> h \in DOMAIN newGroups)
      BY <2>6, <2>10, <2>14, <3>3
    <3> QED
      BY <3>1, <3>2, <3>3
  <2>15. ASSUME NEW i \in DOMAIN items', NEW k \in DOMAIN items', i # k,
                items'[i].group = items'[k].group
         PROVE  items'[i].url # items'[k].url
    <3>1. CASE i \in DOMAIN newItems /\ k \in DOMAIN newItems
      <4> DEFINE a == i - lastItem
                 b == k - lastItem
      <4>1. a \in 1 .. Len(file.items) /\ b \in 1 .. Len(file.items) /\ a # b
        BY <2>4, <2>5, <2>7, <2>15, <3>1
      <4>2. a \in 1 .. b - 1 \/ b \in 1 .. a - 1
        BY <4>1, <2>3
      <4>3. file.items[a].group = file.items[b].group
        <5>1. lastGroup + file.items[a].group = lastGroup + file.items[b].group
          BY <2>7, <2>11, <2>15, <3>1
        <5>2. file.items[a].group \in Nat /\ file.items[b].group \in Nat
          BY <2>3, <4>1
        <5> HIDE DEF a, b
        <5> QED
          BY <2>4, <5>1, <5>2
      <4>4. file.items[a].url # file.items[b].url
        BY <2>3, <2>9, <4>1, <4>2, <4>3 DEF LayoutAccepted
      <4> QED
        BY <2>7, <2>11, <3>1, <4>4
    <3>2. CASE i \notin DOMAIN newItems /\ k \notin DOMAIN newItems
      BY <2>11, <2>15, <3>2 DEF Sound, NoDuplicates
    <3>3. CASE ~(i \in DOMAIN newItems <=> k \in DOMAIN newItems)
      <4>1. \A j \in DOMAIN newItems : items'[j].group \in DOMAIN newGroups
        BY <2>3, <2>5, <2>7, <2>11
      <4>2. \A j \in DOMAIN items \ TilesOf(u) : items'[j].group \in DOMAIN groups
        BY <2>11 DEF Sound, NoOrphanTiles
      <4> QED
        BY <2>10, <2>11, <2>15, <3>3, <4>1, <4>2
    <3> QED
      BY <3>1, <3>2, <3>3
  <2>16. NoDuplicates'
    BY <2>14, <2>15 DEF NoDuplicates
  <2> QED
    BY <2>12, <2>13, <2>16 DEF Sound
<1> QED
  BY <1>1, <1>2, <1>3 DEF PageStep

\* Every step keeps the page sound.
LEMMA NextSound == TypeOK /\ Sound /\ [Next]_vars => Sound'
<1> SUFFICES ASSUME TypeOK, Sound, [Next]_vars
             PROVE  Sound'
  OBVIOUS
<1>1. CASE UNCHANGED vars
  BY <1>1 DEF vars, Sound, NoGroupStranded, NoOrphanTiles, NoDuplicates, Users
<1>2. CASE CreateUser
  <2>1. /\ groups' = groups /\ items' = items
        /\ Users \subseteq Users' /\ \A u \in Users : columns'[u] = columns[u]
    <3>1. lastUser + 1 \notin Users
      BY ConstantsAssumption DEF TypeOK
    <3> QED
      BY <1>2, <3>1 DEF CreateUser, WithRow, Users
  <2> QED
    BY <2>1 DEF Sound, NoGroupStranded, NoOrphanTiles, NoDuplicates
<1> QED
  BY <1>1, <1>2, GroupStepSound, ItemStepSound, PageStepSound DEF Next

\* A page with nothing on it is sound.
LEMMA InitSound == Init => Sound
BY DEF Init, Sound, NoGroupStranded, NoOrphanTiles, NoDuplicates

\* The three are inductive together, and with the types.
LEMMA AlwaysSound == Spec => [](TypeOK /\ Sound)
<1>1. Init => TypeOK /\ Sound
  BY InitType, InitSound
<1>2. TypeOK /\ Sound /\ [Next]_vars => (TypeOK /\ Sound)'
  BY NextType, NextSound
<1> QED
  BY <1>1, <1>2, PTL DEF Spec

\* No group ever sits outside its owner's grid: the check a narrowing makes, and
\* the columns creations and moves are held to, are enough.
THEOREM NothingIsStranded == Spec => []NoGroupStranded
<1>1. Sound => NoGroupStranded
  BY DEF Sound
<1> QED
  BY <1>1, AlwaysSound, PTL

\* No tile outlives its group: every deletion takes the tiles first.
THEOREM NothingIsOrphaned == Spec => []NoOrphanTiles
<1>1. Sound => NoOrphanTiles
  BY DEF Sound
<1> QED
  BY <1>1, AlwaysSound, PTL

\* Neither unique index is ever about to be violated: the checks that creation,
\* editing, moving and import make on names and links suffice.
THEOREM NothingIsThereTwice == Spec => []NoDuplicates
<1>1. Sound => NoDuplicates
  BY DEF Sound
<1> QED
  BY <1>1, AlwaysSound, PTL

-----------------------------------------------------------------------------
(* Every position is an index: each operation renumbers every list it       *)
(* disturbs.  Columns need a condition on the files, because one that spells  *)
(* a column's number in two ways brings in groups that share positions.     *)
(* Compact tables.                                                         *)

\* Every list of a table of groups, and of tiles, is compact.
CompactGroups(rows) == \A u, c : Compact(ColumnIn(rows, u, c), PositionsOf(rows))
CompactItems(rows) == \A g : Compact(GroupIn(rows, g), PositionsOf(rows))

\* A row added at MAX(position) + 1 keeps its list compact.
LEMMA AppendedCompact ==
  ASSUME NEW list, IsFiniteSet(list), NEW pos, \A y \in list : pos[y] \in Nat,
         Compact(list, pos), NEW x, x \notin list,
         NEW new, \A y \in list : new[y] = pos[y], new[x] = NextPosition(list, pos)
  PROVE  Compact(list \cup {x}, new)
<1>1. Cardinality(list) \in Nat /\ Cardinality(list \cup {x}) = Cardinality(list) + 1
  BY FS_CardinalityType, FS_AddElement
<1>2. /\ new[x] \in Nat /\ new[x] <= Cardinality(list)
      /\ \A y \in list : new[y] < new[x]
  BY NextPositionBound
<1>3. /\ \A y \in list : new[y] \in 0 .. Cardinality(list) - 1
      /\ \A y, z \in list : y # z => new[y] # new[z]
  BY DEF Compact
<1> HIDE DEF Compact
<1>4. \A y \in list \cup {x} : new[y] \in 0 .. Cardinality(list \cup {x}) - 1
  BY <1>1, <1>2, <1>3
<1>5. \A y, z \in list \cup {x} : y # z => new[y] # new[z]
  BY <1>1, <1>2, <1>3
<1> QED
  BY <1>4, <1>5 DEF Compact

\* A compact list whose rows get other ids, n higher, is compact.
LEMMA ShiftedCompact ==
  ASSUME NEW list, list \subseteq Nat, IsFiniteSet(list), NEW pos, Compact(list, pos),
         NEW n \in Nat, NEW new, \A k \in list : new[n + k] = pos[k],
         NEW shifted, shifted = {n + k : k \in list}
  PROVE  Compact(shifted, new)
<1>2. Cardinality(shifted) = Cardinality(list)
  BY ShiftedSize
<1>3. \A x \in shifted : new[x] \in 0 .. Cardinality(list) - 1
  BY DEF Compact
<1>4. ASSUME NEW j \in list, NEW k \in list, n + j # n + k
      PROVE  new[n + j] # new[n + k]
  BY <1>4 DEF Compact
<1>5. \A x, y \in shifted : x # y => new[x] # new[y]
  BY <1>4
<1> QED
  BY <1>2, <1>3, <1>5 DEF Compact

\* Renumbering the one column that is not compact makes them all compact.
LEMMA ReorderColumnCompact ==
  ASSUME NEW rows, IsFiniteSet(DOMAIN rows), rows \in [DOMAIN rows -> GroupType], NEW u, NEW c,
         \A r \in DOMAIN rows : r \in Int,
         \A v, k : <<v, k>> # <<u, c>> => Compact(ColumnIn(rows, v, k), PositionsOf(rows))
  PROVE  CompactGroups(ReorderColumn(rows, u, c))
<1> DEFINE next == ReorderColumn(rows, u, c)
<1>1. /\ SameGroups(rows, next)
      /\ Compact(ColumnIn(rows, u, c), PositionsOf(next))
      /\ \A r \in DOMAIN rows \ ColumnIn(rows, u, c) : PositionsOf(next)[r] = rows[r].position
  BY ReorderColumnRows
<1> HIDE DEF next
<1>2. \A v, k : ColumnIn(next, v, k) = ColumnIn(rows, v, k)
  BY <1>1 DEF SameGroups, ColumnIn
<1>3. ASSUME NEW v, NEW k, <<v, k>> # <<u, c>>
      PROVE  Compact(ColumnIn(rows, v, k), PositionsOf(next))
  <2>1. \A r \in ColumnIn(rows, v, k) : PositionsOf(next)[r] = PositionsOf(rows)[r]
    BY <1>1, <1>3 DEF ColumnIn, PositionsOf
  <2> QED
    BY <1>3, <2>1, CompactAgree
<1>4. CompactGroups(next)
  BY <1>1, <1>2, <1>3 DEF CompactGroups
<1> QED
  BY <1>4 DEF next

\* The same for groups of tiles.
LEMMA ReorderGroupCompact ==
  ASSUME NEW rows, IsFiniteSet(DOMAIN rows), rows \in [DOMAIN rows -> ItemType], NEW g,
         \A r \in DOMAIN rows : r \in Int,
         \A h : h # g => Compact(GroupIn(rows, h), PositionsOf(rows))
  PROVE  CompactItems(ReorderGroup(rows, g))
<1> DEFINE next == ReorderGroup(rows, g)
<1>1. /\ SameItems(rows, next)
      /\ Compact(GroupIn(rows, g), PositionsOf(next))
      /\ \A r \in DOMAIN rows \ GroupIn(rows, g) : PositionsOf(next)[r] = rows[r].position
  BY ReorderGroupRows
<1> HIDE DEF next
<1>2. \A h : GroupIn(next, h) = GroupIn(rows, h)
  BY <1>1 DEF SameItems, GroupIn
<1>3. ASSUME NEW h, h # g
      PROVE  Compact(GroupIn(rows, h), PositionsOf(next))
  <2>1. \A r \in GroupIn(rows, h) : PositionsOf(next)[r] = PositionsOf(rows)[r]
    BY <1>1, <1>3 DEF GroupIn, PositionsOf
  <2> QED
    BY <1>3, <2>1, CompactAgree
<1>4. CompactItems(next)
  BY <1>1, <1>2, <1>3 DEF CompactItems
<1> QED
  BY <1>4 DEF next

\* Rows that keep their lists and positions keep them compact.
LEMMA KeptGroupsCompact ==
  ASSUME NEW rows, CompactGroups(rows), NEW next, SameGroups(rows, next),
         \A r \in DOMAIN rows : next[r].position = rows[r].position
  PROVE  CompactGroups(next)
<1>1. \A u, c : ColumnIn(next, u, c) = ColumnIn(rows, u, c)
  BY DEF SameGroups, ColumnIn
<1>2. \A u, c : \A r \in ColumnIn(rows, u, c) : PositionsOf(next)[r] = PositionsOf(rows)[r]
  BY DEF SameGroups, ColumnIn, PositionsOf
<1> QED
  BY <1>1, <1>2, CompactAgree DEF CompactGroups

\* The same for tiles.
LEMMA KeptItemsCompact ==
  ASSUME NEW rows, CompactItems(rows), NEW next, DOMAIN next = DOMAIN rows,
         \A r \in DOMAIN rows : /\ next[r].group = rows[r].group
                                /\ next[r].position = rows[r].position
  PROVE  CompactItems(next)
<1>1. \A g : GroupIn(next, g) = GroupIn(rows, g)
  BY DEF GroupIn
<1>2. \A g : \A r \in GroupIn(rows, g) : PositionsOf(next)[r] = PositionsOf(rows)[r]
  BY DEF GroupIn, PositionsOf
<1> QED
  BY <1>1, <1>2, CompactAgree DEF CompactItems

-----------------------------------------------------------------------------
(* Groups.                                                                 *)

\* A group is created past the last one of its column.
LEMMA CreateGroupCompact ==
  ASSUME TypeOK, CompactGroups(groups), NEW u \in Users, NEW name \in Names, NEW c \in Int,
         CreateGroup(u, name, c)
  PROVE  CompactGroups(groups')
<1> DEFINE new == lastGroup + 1
           list == InColumn(u, c)
           pos == PositionsOf(groups)
           row == [user |-> u, column |-> c, name |-> name, position |-> NextPosition(list, pos)]
<1>1. new \notin DOMAIN groups
  BY ConstantsAssumption DEF TypeOK
<1>2. groups' = WithRow(groups, new, row)
  BY DEF CreateGroup
<1>3. row.user = u /\ row.column = c /\ row.position = NextPosition(list, pos)
  OBVIOUS
<1>4. /\ list \in SUBSET DOMAIN groups /\ list = ColumnIn(groups, u, c)
      /\ IsFiniteSet(list) /\ \A y \in list : pos[y] \in Nat
  BY FiniteTables DEF InColumn, OwnedBy, ColumnIn
<1> HIDE DEF new, row, list
<1>5. /\ DOMAIN groups' = DOMAIN groups \cup {new} /\ groups'[new] = row
      /\ \A g \in DOMAIN groups : groups'[g] = groups[g]
  BY <1>1, <1>2 DEF WithRow
<1>6. /\ \A g \in DOMAIN groups : PositionsOf(groups')[g] = pos[g]
      /\ PositionsOf(groups')[new] = NextPosition(list, pos)
  BY <1>3, <1>5 DEF PositionsOf
<1>7. \A v, k : ColumnIn(groups', v, k) =
                  IF <<v, k>> = <<u, c>> THEN list \cup {new} ELSE ColumnIn(groups, v, k)
  BY <1>1, <1>3, <1>4, <1>5 DEF ColumnIn
<1>8. Compact(list, pos) /\ new \notin list
  BY <1>1, <1>4 DEF CompactGroups
<1> HIDE DEF pos
<1>9. Compact(list \cup {new}, PositionsOf(groups'))
  BY <1>4, <1>6, <1>8, AppendedCompact
<1>10. ASSUME NEW v, NEW k
       PROVE  Compact(ColumnIn(groups, v, k), PositionsOf(groups'))
  <2>1. \A r \in ColumnIn(groups, v, k) : PositionsOf(groups')[r] = pos[r]
    BY <1>6 DEF ColumnIn
  <2>2. Compact(ColumnIn(groups, v, k), pos)
    BY DEF CompactGroups, pos
  <2> QED
    BY <2>1, <2>2, CompactAgree
<1> QED
  BY <1>7, <1>9, <1>10 DEF CompactGroups

\* A column that two tables keep alike.
SameColumn(rows, next, u, c) ==
  /\ ColumnIn(next, u, c) = ColumnIn(rows, u, c)
  /\ \A r \in ColumnIn(rows, u, c) : PositionsOf(next)[r] = PositionsOf(rows)[r]

\* Such a column is as compact in the one as in the other.
LEMMA SameColumnCompact ==
  ASSUME NEW rows, NEW next, NEW u, NEW c, SameColumn(rows, next, u, c),
         Compact(ColumnIn(rows, u, c), PositionsOf(rows))
  PROVE  Compact(ColumnIn(next, u, c), PositionsOf(next))
BY CompactAgree DEF SameColumn

\* A moved group leaves a column that closes up behind it, and lands between
\* the others of the column it moves to, whatever the positions in either.
LEMMA MoveGroupColumns ==
  ASSUME TypeOK, NEW u \in Users, NEW g \in DOMAIN groups,
         NEW c \in Int, NEW p \in Int, MoveGroup(u, g, c, p)
  PROVE  /\ groups[g].user = u
         /\ Compact(ColumnIn(groups', u, c), PositionsOf(groups'))
         /\ Compact(ColumnIn(groups', u, groups[g].column), PositionsOf(groups'))
         /\ \A v, k : <<v, k>> # <<u, c>> /\ <<v, k>> # <<u, groups[g].column>> =>
              SameColumn(groups, groups', v, k)
         /\ \A h \in DOMAIN groups : h \in DOMAIN groups' /\ groups'[h].user = groups[h].user
         /\ \A h \in DOMAIN groups \ {g} : groups'[h].column = groups[h].column
         /\ groups'[g].column = c
<1> DEFINE neighbours == InColumn(u, c) \ {g}
           index == Clamp(p, 0, Cardinality(neighbours))
           moved == [groups EXCEPT ![g].column = c]
           pos == InsertedAt(neighbours, PositionsOf(groups), g, index)
           landed == Repositioned(moved, pos)
           source == groups[g].column
<1>1. groups[g].user = u
  BY DEF MoveGroup, OwnedBy
<1>2. /\ neighbours \in SUBSET DOMAIN groups
      /\ neighbours = ColumnIn(groups, u, c) \ {g}
  BY DEF InColumn, OwnedBy, ColumnIn
<1>3. Listed(neighbours, PositionsOf(groups))
  BY <1>2, FiniteTables
<1>4. IsFiniteSet(neighbours) /\ \A y \in neighbours : PositionsOf(groups)[y] \in Int
  BY <1>3 DEF Listed
<1>5. index \in 0 .. Cardinality(neighbours)
  BY <1>4, ClampedIndex
<1>6. DOMAIN pos = neighbours \cup {g}
  BY DEF InsertedAt
<1>7. Compact(neighbours \cup {g}, pos) /\ \A y \in DOMAIN pos : pos[y] \in Nat
  <2>1. index \in Nat /\ g \notin neighbours
    BY <1>4, <1>5, FS_CardinalityType
  <2> HIDE DEF neighbours, index
  <2> QED
    BY <1>3, <1>4, <1>5, <2>1, InsertedCompact, InsertedNat
<1>8. /\ DOMAIN moved = DOMAIN groups /\ moved \in [DOMAIN groups -> GroupType]
      /\ \A h \in DOMAIN groups : /\ moved[h].user = groups[h].user
                                  /\ moved[h].column = IF h = g THEN c ELSE groups[h].column
                                  /\ moved[h].position = groups[h].position
  BY DEF TypeOK, GroupType
<1> HIDE DEF pos, moved, index
<1>9. /\ SameGroups(moved, landed) /\ landed \in [DOMAIN landed -> GroupType]
      /\ \A r \in DOMAIN groups : PositionsOf(landed)[r] =
           IF r \in neighbours \cup {g} THEN pos[r] ELSE groups[r].position
  BY <1>6, <1>7, <1>8, RepositionedGroupRows, RepositionedGroups
<1>10. DOMAIN landed = DOMAIN groups /\ IsFiniteSet(DOMAIN landed)
  BY <1>8, <1>9, FiniteTables DEF SameGroups
<1>11. groups' = IF source # c THEN ReorderColumn(landed, u, source) ELSE landed
  BY DEF MoveGroup, landed, moved, pos, index
<1> HIDE DEF landed
<1>12. \A v, k : ColumnIn(landed, v, k) =
                   IF <<v, k>> = <<u, c>> THEN neighbours \cup {g} ELSE ColumnIn(groups, v, k) \ {g}
  BY <1>1, <1>2, <1>8, <1>9 DEF SameGroups, ColumnIn
<1> HIDE DEF neighbours
<1>13. Compact(neighbours \cup {g}, PositionsOf(landed))
  <2>1. \A r \in neighbours \cup {g} : PositionsOf(landed)[r] = pos[r]
    BY <1>2, <1>9
  <2> QED
    BY <1>7, <2>1, CompactAgree
<1>14. ASSUME NEW v, NEW k, <<v, k>> # <<u, c>>
       PROVE  \A r \in ColumnIn(groups, v, k) \ {g} :
                PositionsOf(landed)[r] = PositionsOf(groups)[r] /\ r \in DOMAIN groups
  <2>1. \A r \in ColumnIn(groups, v, k) \ {g} : r \notin neighbours \cup {g} /\ r \in DOMAIN groups
    BY <1>2, <1>14 DEF ColumnIn
  <2> QED
    BY <1>9, <2>1 DEF PositionsOf
<1>15. ASSUME NEW v, NEW k, <<v, k>> # <<u, c>>, <<v, k>> # <<u, source>>
       PROVE  SameColumn(groups, landed, v, k)
  <2>1. ColumnIn(landed, v, k) = ColumnIn(groups, v, k) \ {g} /\ g \notin ColumnIn(groups, v, k)
    <3>1. groups[g].user = u /\ groups[g].column = source
      BY <1>1
    <3>2. g \notin ColumnIn(groups, v, k)
      BY <1>15, <3>1 DEF ColumnIn
    <3> QED
      BY <1>12, <1>15, <3>2
  <2>2. \A r \in ColumnIn(groups, v, k) : PositionsOf(landed)[r] = PositionsOf(groups)[r]
    BY <1>14, <1>15, <2>1
  <2> QED
    BY <2>1, <2>2 DEF SameColumn
<1>16. Compact(ColumnIn(landed, u, c), PositionsOf(landed))
  BY <1>12, <1>13
<1>17. \A h \in DOMAIN groups : /\ h \in DOMAIN landed /\ landed[h].user = groups[h].user
                               /\ landed[h].column = IF h = g THEN c ELSE groups[h].column
  BY <1>8, <1>9, <1>10 DEF SameGroups
<1>18. CASE source = c
  BY <1>1, <1>11, <1>15, <1>16, <1>17, <1>18
<1>19. CASE source # c
  <2> HIDE DEF source
  <2>1. groups' = ReorderColumn(landed, u, source)
    BY <1>11, <1>19
  <2>2. \A r \in DOMAIN landed : r \in Int
    BY <1>10 DEF TypeOK
  <2>3. /\ SameGroups(landed, groups')
        /\ Compact(ColumnIn(landed, u, source), PositionsOf(groups'))
        /\ \A r \in DOMAIN landed \ ColumnIn(landed, u, source) :
             PositionsOf(groups')[r] = landed[r].position
    BY <1>9, <1>10, <2>1, <2>2, ReorderColumnRows
  <2>4. \A v, k : ColumnIn(groups', v, k) = ColumnIn(landed, v, k)
    BY <2>3 DEF SameGroups, ColumnIn
  <2>5. ASSUME NEW v, NEW k, <<v, k>> # <<u, source>>
        PROVE  SameColumn(landed, groups', v, k)
    <3>1. \A r \in ColumnIn(landed, v, k) : PositionsOf(groups')[r] = PositionsOf(landed)[r]
      BY <2>3, <2>5 DEF ColumnIn, PositionsOf
    <3> QED
      BY <2>4, <3>1 DEF SameColumn
  <2>6. Compact(ColumnIn(groups', u, source), PositionsOf(groups'))
    BY <2>3, <2>4
  <2>7. Compact(ColumnIn(groups', u, c), PositionsOf(groups'))
    <3>1. SameColumn(landed, groups', u, c)
      BY <1>19, <2>5
    <3>2. Compact(ColumnIn(landed, u, c), PositionsOf(groups'))
      BY <1>16, <3>1, CompactAgree DEF SameColumn
    <3> QED
      BY <2>4, <3>2
  <2>8. ASSUME NEW v, NEW k, <<v, k>> # <<u, c>>, <<v, k>> # <<u, source>>
        PROVE  SameColumn(groups, groups', v, k)
    <3>1. SameColumn(groups, landed, v, k) /\ SameColumn(landed, groups', v, k)
      BY <1>15, <2>5, <2>8
    <3> QED
      BY <3>1 DEF SameColumn
  <2>9. \A h \in DOMAIN groups : /\ h \in DOMAIN groups' /\ groups'[h].user = groups[h].user
                                 /\ groups'[h].column = IF h = g THEN c ELSE groups[h].column
    BY <1>17, <2>3 DEF SameGroups
  <2> QED
    BY <1>1, <2>6, <2>7, <2>8, <2>9 DEF source
<1> QED
  BY <1>18, <1>19

\* So it leaves every column compact, where they were.
LEMMA MoveGroupCompact ==
  ASSUME TypeOK, CompactGroups(groups), NEW u \in Users, NEW g \in DOMAIN groups,
         NEW c \in Int, NEW p \in Int, MoveGroup(u, g, c, p)
  PROVE  CompactGroups(groups')
BY MoveGroupColumns, SameColumnCompact DEF CompactGroups

\* A deleted group leaves a column that closes up behind it, whatever the
\* positions in it.
LEMMA DeleteGroupColumns ==
  ASSUME TypeOK, NEW u \in Users, NEW g \in DOMAIN groups, DeleteGroup(u, g)
  PROVE  /\ groups[g].user = u
         /\ Compact(ColumnIn(groups', u, groups[g].column), PositionsOf(groups'))
         /\ \A v, k : <<v, k>> # <<u, groups[g].column>> => SameColumn(groups, groups', v, k)
         /\ \A h \in DOMAIN groups' : /\ h \in DOMAIN groups /\ groups'[h].user = groups[h].user
                                      /\ groups'[h].column = groups[h].column
<1> DEFINE left == WithoutRows(groups, {g})
           source == groups[g].column
<1>1. groups[g].user = u
  BY DEF DeleteGroup, OwnedBy
<1>2. /\ DOMAIN left = DOMAIN groups \ {g} /\ IsFiniteSet(DOMAIN left)
      /\ left \in [DOMAIN left -> GroupType]
      /\ \A h \in DOMAIN left : left[h] = groups[h]
  BY FiniteTables DEF WithoutRows, TypeOK
<1>3. groups' = ReorderColumn(left, u, source)
  BY DEF DeleteGroup
<1> HIDE DEF left
<1>4. \A v, k : ColumnIn(left, v, k) = ColumnIn(groups, v, k) \ {g}
  BY <1>2 DEF ColumnIn
<1>5. \A r \in DOMAIN left : PositionsOf(left)[r] = PositionsOf(groups)[r]
  BY <1>2 DEF PositionsOf
<1>6. \A r \in DOMAIN left : r \in Int
  BY <1>2 DEF TypeOK
<1> HIDE DEF source
<1>7. /\ SameGroups(left, groups')
      /\ Compact(ColumnIn(left, u, source), PositionsOf(groups'))
      /\ \A r \in DOMAIN left \ ColumnIn(left, u, source) :
           PositionsOf(groups')[r] = left[r].position
  BY <1>2, <1>3, <1>6, ReorderColumnRows
<1>8. \A v, k : ColumnIn(groups', v, k) = ColumnIn(left, v, k)
  BY <1>7 DEF SameGroups, ColumnIn
<1>9. ASSUME NEW v, NEW k, <<v, k>> # <<u, source>>
      PROVE  SameColumn(groups, groups', v, k)
  <2>1. ColumnIn(left, v, k) = ColumnIn(groups, v, k)
    <3>1. g \notin ColumnIn(groups, v, k)
      BY <1>1, <1>9 DEF ColumnIn, source
    <3> QED
      BY <1>4, <3>1
  <2>2. \A r \in ColumnIn(left, v, k) : r \in DOMAIN left \ ColumnIn(left, u, source)
    BY <1>9 DEF ColumnIn
  <2>3. \A r \in ColumnIn(left, v, k) : PositionsOf(groups')[r] = PositionsOf(groups)[r]
    BY <1>5, <1>7, <2>2 DEF PositionsOf
  <2> QED
    BY <1>8, <2>1, <2>3 DEF SameColumn
<1>10. \A h \in DOMAIN groups' : /\ h \in DOMAIN groups /\ groups'[h].user = groups[h].user
                                 /\ groups'[h].column = groups[h].column
  BY <1>2, <1>7 DEF SameGroups
<1> QED
  BY <1>1, <1>7, <1>8, <1>9, <1>10 DEF source

\* So every column is compact, where they were.
LEMMA DeleteGroupCompact ==
  ASSUME TypeOK, CompactGroups(groups), NEW u \in Users, NEW g \in DOMAIN groups,
         DeleteGroup(u, g)
  PROVE  CompactGroups(groups')
BY DeleteGroupColumns, SameColumnCompact DEF CompactGroups

\* A deleted group takes its tiles, and every other list of tiles stays.
LEMMA DeleteGroupTiles ==
  ASSUME CompactItems(items), NEW u \in Users, NEW g \in DOMAIN groups, DeleteGroup(u, g)
  PROVE  CompactItems(items')
<1>1. /\ DOMAIN items' = DOMAIN items \ InGroup(g)
      /\ \A i \in DOMAIN items' : items'[i] = items[i]
  BY DEF DeleteGroup, WithoutRows
<1>2. \A h : GroupIn(items', h) = IF h = g THEN {} ELSE GroupIn(items, h)
  BY <1>1 DEF GroupIn, InGroup
<1>3. ASSUME NEW h, h # g
      PROVE  Compact(GroupIn(items, h), PositionsOf(items'))
  <2>1. \A r \in GroupIn(items, h) : PositionsOf(items')[r] = PositionsOf(items)[r]
    BY <1>1, <1>3 DEF GroupIn, InGroup, PositionsOf
  <2> QED
    BY <2>1, CompactAgree DEF CompactItems
<1> QED
  BY <1>2, <1>3, CompactEmpty DEF CompactItems

-----------------------------------------------------------------------------
(* Tiles.                                                                  *)

\* A tile is created past the last one of its group.
LEMMA CreateItemCompact ==
  ASSUME TypeOK, CompactItems(items), NEW u \in Users, NEW g \in DOMAIN groups, NEW url \in Urls,
         CreateItem(u, g, url)
  PROVE  CompactItems(items')
<1> DEFINE new == lastItem + 1
           list == InGroup(g)
           pos == PositionsOf(items)
           row == [group |-> g, url |-> url, visits |-> 0, position |-> NextPosition(list, pos)]
<1>1. new \notin DOMAIN items
  BY ConstantsAssumption DEF TypeOK
<1>2. items' = WithRow(items, new, row)
  BY DEF CreateItem
<1>3. row.group = g /\ row.position = NextPosition(list, pos)
  OBVIOUS
<1>4. /\ list \in SUBSET DOMAIN items /\ list = GroupIn(items, g)
      /\ IsFiniteSet(list) /\ \A y \in list : pos[y] \in Nat
  BY FiniteTables DEF InGroup, GroupIn
<1> HIDE DEF new, row, list
<1>5. /\ DOMAIN items' = DOMAIN items \cup {new} /\ items'[new] = row
      /\ \A i \in DOMAIN items : items'[i] = items[i]
  BY <1>1, <1>2 DEF WithRow
<1>6. /\ \A i \in DOMAIN items : PositionsOf(items')[i] = pos[i]
      /\ PositionsOf(items')[new] = NextPosition(list, pos)
  BY <1>3, <1>5 DEF PositionsOf
<1>7. \A h : GroupIn(items', h) = IF h = g THEN list \cup {new} ELSE GroupIn(items, h)
  BY <1>1, <1>3, <1>4, <1>5 DEF GroupIn
<1>8. Compact(list, pos) /\ new \notin list
  BY <1>1, <1>4 DEF CompactItems
<1> HIDE DEF pos
<1>9. Compact(list \cup {new}, PositionsOf(items'))
  BY <1>4, <1>6, <1>8, AppendedCompact
<1>10. ASSUME NEW h
       PROVE  Compact(GroupIn(items, h), PositionsOf(items'))
  <2>1. \A r \in GroupIn(items, h) : PositionsOf(items')[r] = pos[r]
    BY <1>6 DEF GroupIn
  <2>2. Compact(GroupIn(items, h), pos)
    BY DEF CompactItems, pos
  <2> QED
    BY <2>1, <2>2, CompactAgree
<1> QED
  BY <1>7, <1>9, <1>10 DEF CompactItems

\* A tile moved inside its group lands between the others.
LEMMA MoveItemCompact ==
  ASSUME TypeOK, CompactItems(items), NEW u \in Users, NEW i \in DOMAIN items, NEW p \in Int,
         MoveItem(u, i, p)
  PROVE  CompactItems(items')
<1> DEFINE g == items[i].group
           list == InGroup(g)
           index == MoveItemIndex(list, PositionsOf(items), p)
           pos == InsertedAt(list \ {i}, PositionsOf(items), i, index)
<1>1. list \in SUBSET DOMAIN items /\ i \in list /\ list = GroupIn(items, g)
  BY DEF InGroup, GroupIn
<1>2. /\ IsFiniteSet(list) /\ IsFiniteSet(list \ {i})
      /\ \A y \in list : PositionsOf(items)[y] \in Int
  BY <1>1, FiniteTables
<1>3. Listed(list \ {i}, PositionsOf(items))
  BY <1>1, FiniteTables
<1>4. /\ Cardinality(list) \in Nat /\ Cardinality(list) # 0
      /\ Cardinality(list \ {i}) = Cardinality(list) - 1
  BY <1>1, <1>2, FS_CardinalityType, FS_EmptySet, FS_RemoveElement
<1> HIDE DEF g, list
<1>5. index \in 0 .. Cardinality(list \ {i})
  <2>1. FirstAtLeast(list, PositionsOf(items), p) \in Nat
    BY <1>2, FirstAtLeastBound
  <2>2. Cardinality(list) - 1 \in Nat
    BY <1>4
  <2>3. index \in 0 .. Cardinality(list) - 1
    BY <2>1, <2>2, ClampBound DEF MoveItemIndex
  <2> QED
    BY <1>4, <2>3
<1> HIDE DEF index
<1>6. Compact((list \ {i}) \cup {i}, pos)
  BY <1>3, <1>5, InsertedCompact
<1>7. DOMAIN pos = list /\ (list \ {i}) \cup {i} = list
  BY <1>1 DEF InsertedAt
<1> HIDE DEF pos
<1>8. items' = Repositioned(items, pos)
  BY DEF MoveItem, pos, index, list, g
<1>9. /\ SameItems(items, items')
      /\ \A r \in DOMAIN items : PositionsOf(items')[r] =
           IF r \in list THEN pos[r] ELSE items[r].position
  BY <1>7, <1>8, RepositionedItemRows DEF TypeOK
<1>10. \A h : GroupIn(items', h) = GroupIn(items, h)
  BY <1>9 DEF SameItems, GroupIn
<1>11. Compact(list, PositionsOf(items'))
  <2>1. \A r \in list : PositionsOf(items')[r] = pos[r]
    BY <1>1, <1>9
  <2> QED
    BY <1>6, <1>7, <2>1, CompactAgree
<1>12. ASSUME NEW h, h # g
       PROVE  Compact(GroupIn(items, h), PositionsOf(items'))
  <2>1. \A r \in GroupIn(items, h) : r \notin list /\ r \in DOMAIN items
    BY <1>1, <1>12 DEF GroupIn
  <2>2. \A r \in GroupIn(items, h) : PositionsOf(items')[r] = PositionsOf(items)[r]
    BY <1>9, <2>1 DEF PositionsOf
  <2> QED
    BY <2>2, CompactAgree DEF CompactItems
<1> QED
  BY <1>1, <1>10, <1>11, <1>12 DEF CompactItems

\* A tile moved to a group lands between the others, and the group it leaves
\* closes up behind it.
LEMMA MoveItemToGroupCompact ==
  ASSUME TypeOK, CompactItems(items), NEW u \in Users, NEW i \in DOMAIN items,
         NEW g \in DOMAIN groups, NEW p \in Int, MoveItemToGroup(u, i, g, p)
  PROVE  CompactItems(items')
<1> DEFINE neighbours == InGroup(g) \ {i}
           index == MoveItemToGroupIndex(neighbours, p)
           moved == [items EXCEPT ![i].group = g]
           pos == InsertedAt(neighbours, PositionsOf(items), i, index)
           landed == Repositioned(moved, pos)
           source == items[i].group
<1>1. /\ neighbours \in SUBSET DOMAIN items
      /\ neighbours = GroupIn(items, g) \ {i}
  BY DEF InGroup, GroupIn
<1>2. IsFiniteSet(neighbours) /\ \A y \in neighbours : PositionsOf(items)[y] \in Int
  BY <1>1, FiniteTables
<1>3. Listed(neighbours, PositionsOf(items))
  BY <1>1, FiniteTables
<1>4. index \in 0 .. Cardinality(neighbours)
  BY <1>2, ClampedIndex DEF MoveItemToGroupIndex
<1>5. DOMAIN pos = neighbours \cup {i}
  BY DEF InsertedAt
<1>6. Compact(neighbours \cup {i}, pos) /\ \A y \in DOMAIN pos : pos[y] \in Nat
  <2>1. index \in Nat /\ i \notin neighbours
    BY <1>2, <1>4, FS_CardinalityType
  <2> HIDE DEF neighbours, index
  <2> QED
    BY <1>2, <1>3, <1>4, <2>1, InsertedCompact, InsertedNat
<1>7. /\ DOMAIN moved = DOMAIN items /\ moved \in [DOMAIN items -> ItemType]
      /\ \A k \in DOMAIN items : /\ moved[k].group = IF k = i THEN g ELSE items[k].group
                                 /\ moved[k].position = items[k].position
  <2>1. g \in 1 .. MaxGroups
    BY ConstantsAssumption DEF TypeOK
  <2> QED
    BY <2>1 DEF TypeOK, ItemType
<1> HIDE DEF pos, moved, index
<1>8. /\ SameItems(moved, landed) /\ landed \in [DOMAIN landed -> ItemType]
      /\ \A r \in DOMAIN items : PositionsOf(landed)[r] =
           IF r \in neighbours \cup {i} THEN pos[r] ELSE items[r].position
  BY <1>5, <1>6, <1>7, RepositionedItemRows, RepositionedItems
<1>9. DOMAIN landed = DOMAIN items /\ IsFiniteSet(DOMAIN landed)
  BY <1>7, <1>8, FiniteTables DEF SameItems
<1>10. items' = IF source # g THEN ReorderGroup(landed, source) ELSE landed
  BY DEF MoveItemToGroup, landed, moved, pos, index
<1> HIDE DEF landed
<1>11. \A h : GroupIn(landed, h) = IF h = g THEN neighbours \cup {i} ELSE GroupIn(items, h) \ {i}
  BY <1>1, <1>7, <1>8 DEF SameItems, GroupIn
<1> HIDE DEF neighbours
<1>12. Compact(neighbours \cup {i}, PositionsOf(landed))
  <2>1. \A r \in neighbours \cup {i} : PositionsOf(landed)[r] = pos[r]
    BY <1>1, <1>8
  <2> QED
    BY <1>6, <2>1, CompactAgree
<1>13. ASSUME NEW h, h # g
       PROVE  \A r \in GroupIn(items, h) \ {i} :
                PositionsOf(landed)[r] = PositionsOf(items)[r] /\ r \in DOMAIN items
  <2>1. \A r \in GroupIn(items, h) \ {i} : r \notin neighbours \cup {i} /\ r \in DOMAIN items
    BY <1>1, <1>13 DEF GroupIn
  <2> QED
    BY <1>8, <2>1 DEF PositionsOf
<1>14. ASSUME NEW h, h # g, h # source
       PROVE  Compact(GroupIn(landed, h), PositionsOf(landed))
  <2>1. GroupIn(landed, h) = GroupIn(items, h) /\ i \notin GroupIn(items, h)
    BY <1>11, <1>14 DEF GroupIn
  <2>2. \A r \in GroupIn(items, h) : PositionsOf(landed)[r] = PositionsOf(items)[r]
    BY <1>13, <1>14, <2>1
  <2>3. Compact(GroupIn(items, h), PositionsOf(landed))
    BY <2>2, CompactAgree DEF CompactItems
  <2> QED
    BY <2>1, <2>3
<1>15. CASE source = g
  BY <1>10, <1>11, <1>12, <1>14, <1>15 DEF CompactItems
<1>16. CASE source # g
  <2>1. \A r \in DOMAIN landed : r \in Int
    BY <1>9 DEF TypeOK
  <2>2. \A h : h # source => Compact(GroupIn(landed, h), PositionsOf(landed))
    BY <1>11, <1>12, <1>14
  <2> HIDE DEF source
  <2>3. CompactItems(ReorderGroup(landed, source))
    BY <1>8, <1>9, <2>1, <2>2, ReorderGroupCompact
  <2> QED
    BY <1>10, <1>16, <2>3
<1> QED
  BY <1>15, <1>16

\* A deleted tile leaves a group that closes up behind it.
LEMMA DeleteItemCompact ==
  ASSUME TypeOK, CompactItems(items), NEW u \in Users, NEW i \in DOMAIN items, DeleteItem(u, i)
  PROVE  CompactItems(items')
<1> DEFINE left == WithoutRows(items, {i})
           source == items[i].group
<1>1. /\ DOMAIN left = DOMAIN items \ {i} /\ IsFiniteSet(DOMAIN left)
      /\ left \in [DOMAIN left -> ItemType]
      /\ \A k \in DOMAIN left : left[k] = items[k]
  BY FiniteTables DEF WithoutRows, TypeOK
<1>2. items' = ReorderGroup(left, source)
  BY DEF DeleteItem
<1> HIDE DEF left
<1>3. \A h : GroupIn(left, h) = GroupIn(items, h) \ {i}
  BY <1>1 DEF GroupIn
<1>4. \A r \in DOMAIN left : PositionsOf(left)[r] = PositionsOf(items)[r]
  BY <1>1 DEF PositionsOf
<1>5. \A r \in DOMAIN left : r \in Int
  BY <1>1 DEF TypeOK
<1>6. ASSUME NEW h, h # source
      PROVE  Compact(GroupIn(left, h), PositionsOf(left))
  <2>1. GroupIn(left, h) = GroupIn(items, h)
    BY <1>3, <1>6 DEF GroupIn
  <2>2. \A r \in GroupIn(left, h) : PositionsOf(left)[r] = PositionsOf(items)[r]
    BY <1>4 DEF GroupIn
  <2>3. Compact(GroupIn(left, h), PositionsOf(items))
    BY <2>1 DEF CompactItems
  <2> QED
    BY <2>2, <2>3, CompactAgree
<1> HIDE DEF source
<1> QED
  BY <1>1, <1>2, <1>5, <1>6, ReorderGroupCompact

-----------------------------------------------------------------------------
(* The page as a whole.                                                    *)

\* The lists of a file.
ColumnOfFile(file, c) == {k \in DOMAIN file.groups : file.groups[k].column = c}
GroupOfFile(file, k) == {j \in DOMAIN file.items : file.items[j].group = k}

\* A list as one table keeps it and as the next one does: the same rows.
SameList(list, rows, next) ==
  \A r \in list : PositionsOf(next)[r] = PositionsOf(rows)[r]

\* An import keeps everyone else's lists and brings in the file's own, with the
\* next ids.
LEMMA ReplacedLists ==
  ASSUME TypeOK, Sound, NEW u \in Users, NEW file \in Layouts, ReplaceStartPage(u, file)
  PROVE  /\ Len(file.groups) \in Nat /\ DOMAIN file.groups = 1 .. Len(file.groups)
         /\ lastGroup \in Nat /\ lastItem \in Nat /\ lastGroup' = lastGroup + Len(file.groups)
         /\ DOMAIN groups' = (DOMAIN groups \ OwnedBy(u)) \cup (lastGroup + 1 .. lastGroup')
         /\ \A v, c : v # u => /\ ColumnIn(groups', v, c) = ColumnIn(groups, v, c)
                              /\ SameList(ColumnIn(groups, v, c), groups, groups')
         /\ \A c : /\ ColumnIn(groups', u, c) = Shifted(ColumnOfFile(file, c), lastGroup)
                   /\ ShiftedList(ColumnOfFile(file, c), PositionsOf(file.groups), PositionsOf(groups'), lastGroup)
                   /\ ColumnOfFile(file, c) \subseteq Nat /\ IsFiniteSet(ColumnOfFile(file, c))
                   /\ c \notin 1 .. MaxColumns => ColumnOfFile(file, c) = {}
         /\ \A g \in OwnedBy(u) : GroupIn(items', g) = {}
         /\ \A g : g \notin OwnedBy(u) /\ g \notin lastGroup + 1 .. lastGroup' =>
              /\ GroupIn(items', g) = GroupIn(items, g)
              /\ SameList(GroupIn(items, g), items, items')
         /\ \A k \in DOMAIN file.groups :
              /\ GroupIn(items', lastGroup + k) = Shifted(GroupOfFile(file, k), lastItem)
              /\ ShiftedList(GroupOfFile(file, k), PositionsOf(file.items), PositionsOf(items'), lastItem)
              /\ GroupOfFile(file, k) \subseteq Nat /\ IsFiniteSet(GroupOfFile(file, k))
<1> DEFINE newGroups == NewGroups(u, file)
           newItems == NewItems(file)
           G == DOMAIN file.groups
           I == DOMAIN file.items
<1>1. /\ file \in LayoutType
      /\ file.groups \in Seq([column: Int, position: Nat, name: Names])
      /\ file.items \in Seq([group: Nat, position: Nat, url: Urls])
  BY LayoutsAssumption DEF LayoutType
<1>2. /\ Len(file.groups) \in Nat /\ G = 1 .. Len(file.groups)
      /\ \A k \in G : file.groups[k] \in [column: Int, position: Nat, name: Names]
  BY <1>1, SequenceFacts
<1>3. /\ Len(file.items) \in Nat /\ I = 1 .. Len(file.items)
      /\ \A j \in I : file.items[j] \in [group: Nat, position: Nat, url: Urls]
  BY <1>1, SequenceFacts
<1>4. /\ lastGroup \in Nat /\ lastItem \in Nat
      /\ lastGroup' = lastGroup + Len(file.groups) /\ lastItem' = lastItem + Len(file.items)
  BY ConstantsAssumption DEF TypeOK, ReplaceStartPage
<1>5. /\ DOMAIN newGroups = lastGroup + 1 .. lastGroup'
      /\ DOMAIN newItems = lastItem + 1 .. lastItem'
      /\ \A j \in I : lastGroup + file.items[j].group \in lastGroup + 1 .. lastGroup'
  BY NewRowsType
<1>6. \A g \in DOMAIN newGroups : /\ g - lastGroup \in G
                                  /\ g = lastGroup + (g - lastGroup)
                                  /\ newGroups[g].user = u
                                  /\ newGroups[g].column = file.groups[g - lastGroup].column
                                  /\ newGroups[g].position = file.groups[g - lastGroup].position
  BY <1>2, <1>4, <1>5 DEF NewGroups
<1>7. \A i \in DOMAIN newItems : /\ i - lastItem \in I
                                 /\ i = lastItem + (i - lastItem)
                                 /\ newItems[i].group = lastGroup + file.items[i - lastItem].group
                                 /\ newItems[i].position = file.items[i - lastItem].position
  <2> TAKE i \in DOMAIN newItems
  <2>1. i \in lastItem + 1 .. lastItem + Len(file.items)
    BY <1>4, <1>5
  <2>2. i - lastItem \in I /\ i = lastItem + (i - lastItem)
    BY <1>3, <1>4, <2>1
  <2>3. newItems[i] = [group |-> lastGroup + file.items[i - lastItem].group,
                       url |-> file.items[i - lastItem].url, visits |-> 0,
                       position |-> file.items[i - lastItem].position]
    BY <2>1 DEF NewItems
  <2> QED
    BY <2>2, <2>3
<1>8. /\ \A k \in G : lastGroup + k \in DOMAIN newGroups /\ (lastGroup + k) - lastGroup = k
      /\ \A j \in I : lastItem + j \in DOMAIN newItems /\ (lastItem + j) - lastItem = j
  BY <1>2, <1>3, <1>4, <1>5
<1>9. /\ groups' = Merge(WithoutRows(groups, OwnedBy(u)), newGroups)
      /\ items' = Merge(WithoutRows(items, TilesOf(u)), newItems)
      /\ LayoutAccepted(file)
  BY DEF ReplaceStartPage
<1> HIDE DEF newGroups, newItems, G, I
<1>10. /\ DOMAIN groups' = (DOMAIN groups \ OwnedBy(u)) \cup DOMAIN newGroups
       /\ \A g \in DOMAIN newGroups : groups'[g] = newGroups[g] /\ g \notin DOMAIN groups
       /\ \A g \in DOMAIN groups \ OwnedBy(u) : groups'[g] = groups[g] /\ groups[g].user # u
  BY <1>4, <1>5, <1>9 DEF Merge, WithoutRows, OwnedBy, TypeOK
<1>11. /\ DOMAIN items' = (DOMAIN items \ TilesOf(u)) \cup DOMAIN newItems
       /\ \A i \in DOMAIN newItems : items'[i] = newItems[i] /\ i \notin DOMAIN items
       /\ \A i \in DOMAIN items \ TilesOf(u) : /\ items'[i] = items[i]
                                               /\ items[i].group \in DOMAIN groups \ OwnedBy(u)
  BY <1>4, <1>5, <1>9 DEF Merge, WithoutRows, TilesOf, TypeOK, Sound, NoOrphanTiles
<1>12. ASSUME NEW v, NEW c, v # u
       PROVE  /\ ColumnIn(groups', v, c) = ColumnIn(groups, v, c)
              /\ SameList(ColumnIn(groups, v, c), groups, groups')
  <2>1. ColumnIn(groups', v, c) = ColumnIn(groups, v, c)
    BY <1>6, <1>10, <1>12 DEF ColumnIn, OwnedBy
  <2>2. \A r \in ColumnIn(groups, v, c) : PositionsOf(groups')[r] = PositionsOf(groups)[r]
    BY <1>10, <1>12 DEF ColumnIn, OwnedBy, PositionsOf
  <2> QED
    BY <2>1, <2>2 DEF SameList
<1>13. ASSUME NEW c
       PROVE  /\ ColumnIn(groups', u, c) = Shifted(ColumnOfFile(file, c), lastGroup)
              /\ ShiftedList(ColumnOfFile(file, c), PositionsOf(file.groups), PositionsOf(groups'), lastGroup)
              /\ ColumnOfFile(file, c) \subseteq Nat /\ IsFiniteSet(ColumnOfFile(file, c))
              /\ c \notin 1 .. MaxColumns => ColumnOfFile(file, c) = {}
  <2> DEFINE list == {k \in G : file.groups[k].column = c}
  <2>0. list = ColumnOfFile(file, c)
    BY DEF ColumnOfFile, G
  <2>1. ColumnIn(groups', u, c) = {lastGroup + k : k \in list}
    BY <1>6, <1>8, <1>10 DEF ColumnIn
  <2>2. \A k \in list : PositionsOf(groups')[lastGroup + k] = PositionsOf(file.groups)[k]
    BY <1>6, <1>8, <1>10 DEF PositionsOf, G
  <2>3. list \subseteq Nat /\ IsFiniteSet(list)
    BY <1>2, FiniteRows
  <2>4. ASSUME c \notin 1 .. MaxColumns
        PROVE  list = {}
    <3>1. \A k \in G : file.groups[k].column \in 1 .. MaxColumns
      <4>1. /\ file.width \in Int /\ MaxColumns \in Int
            /\ \A k \in G : file.groups[k].column \in Int
        <5>1. file.width \in Int
          BY <1>1 DEF LayoutType
        <5>2. \A k \in G : file.groups[k].column \in Int
          BY <1>2
        <5> QED
          BY <5>1, <5>2, ConstantsAssumption
      <4> QED
        BY <1>9, <4>1 DEF LayoutAccepted, G
    <3> QED
      BY <2>4, <3>1
  <2> HIDE DEF list
  <2> QED
    BY <2>0, <2>1, <2>2, <2>3, <2>4 DEF Shifted, ShiftedList
<1>14. ASSUME NEW g, g \notin DOMAIN newGroups
       PROVE  /\ g \in OwnedBy(u) => GroupIn(items', g) = {}
              /\ g \notin OwnedBy(u) => /\ GroupIn(items', g) = GroupIn(items, g)
                                       /\ SameList(GroupIn(items, g), items, items')
  <2>1. \A i \in DOMAIN newItems : newItems[i].group \in DOMAIN newGroups
    BY <1>5, <1>7
  <2>2. CASE g \in OwnedBy(u)
    BY <1>11, <1>14, <2>1, <2>2 DEF GroupIn
  <2>3. CASE g \notin OwnedBy(u)
    <3>1. GroupIn(items', g) = GroupIn(items, g)
      BY <1>11, <1>14, <2>1, <2>3 DEF GroupIn, TilesOf
    <3>2. \A r \in GroupIn(items, g) : PositionsOf(items')[r] = PositionsOf(items)[r]
      BY <1>11, <2>3 DEF GroupIn, TilesOf, PositionsOf
    <3> QED
      BY <2>3, <3>1, <3>2 DEF SameList
  <2> QED
    BY <2>2, <2>3
<1>15. ASSUME NEW m \in G
       PROVE  /\ GroupIn(items', lastGroup + m) = Shifted(GroupOfFile(file, m), lastItem)
              /\ ShiftedList(GroupOfFile(file, m), PositionsOf(file.items), PositionsOf(items'), lastItem)
              /\ GroupOfFile(file, m) \subseteq Nat /\ IsFiniteSet(GroupOfFile(file, m))
  <2> DEFINE g == lastGroup + m
             list == {j \in I : file.items[j].group = m}
  <2>0. list = GroupOfFile(file, m) /\ g \in DOMAIN newGroups
    BY <1>8 DEF GroupOfFile, I
  <2>1. \A j \in I : lastGroup + file.items[j].group = g <=> file.items[j].group = m
    <3>1. \A j \in I : file.items[j].group \in Int
      BY <1>3
    <3>2. m \in Int /\ lastGroup \in Int
      BY <1>2, <1>4
    <3>3. \A a, b, c \in Int : a + b = a + c <=> b = c
      OBVIOUS
    <3> HIDE DEF list
    <3> QED
      BY <3>1, <3>2, <3>3
  <2> HIDE DEF g
  <2>2. GroupIn(items', g) = {lastItem + j : j \in list}
    BY <1>7, <1>8, <1>10, <1>11, <2>0, <2>1 DEF GroupIn
  <2>3. \A j \in list : PositionsOf(items')[lastItem + j] = PositionsOf(file.items)[j]
    BY <1>7, <1>8, <1>11 DEF PositionsOf, I
  <2>4. list \subseteq Nat /\ IsFiniteSet(list)
    BY <1>3, FiniteRows
  <2> HIDE DEF list
  <2> QED
    BY <2>0, <2>2, <2>3, <2>4 DEF Shifted, ShiftedList, g
<1>16. OwnedBy(u) \cap DOMAIN newGroups = {}
  BY <1>10 DEF OwnedBy
<1>17. DOMAIN newGroups = lastGroup + 1 .. lastGroup'
  BY <1>5
<1>18. \A g \in OwnedBy(u) : GroupIn(items', g) = {}
  BY <1>14, <1>16
<1>19. \A g : g \notin OwnedBy(u) /\ g \notin lastGroup + 1 .. lastGroup' =>
         /\ GroupIn(items', g) = GroupIn(items, g)
         /\ SameList(GroupIn(items, g), items, items')
  BY <1>14, <1>17
<1> QED
  BY <1>2, <1>4, <1>10, <1>12, <1>13, <1>15, <1>17, <1>18, <1>19 DEF G

\* So every column is compact still, if the file names no column twice.
LEMMA ReplaceStartPageColumns ==
  ASSUME TypeOK, Sound, CompactGroups(groups), NEW u \in Users,
         NEW file \in Layouts, CompactFile(file), ReplaceStartPage(u, file)
  PROVE  CompactGroups(groups')
<1>1. ASSUME NEW v, NEW c, v # u
      PROVE  Compact(ColumnIn(groups', v, c), PositionsOf(groups'))
  <2>1. /\ ColumnIn(groups', v, c) = ColumnIn(groups, v, c)
        /\ SameList(ColumnIn(groups, v, c), groups, groups')
    BY <1>1, ReplacedLists
  <2>2. \A r \in ColumnIn(groups, v, c) : PositionsOf(groups')[r] = PositionsOf(groups)[r]
    BY <2>1 DEF SameList
  <2> QED
    BY <2>1, <2>2, CompactAgree DEF CompactGroups
<1>2. ASSUME NEW c
      PROVE  Compact(ColumnIn(groups', u, c), PositionsOf(groups'))
  <2>1. PICK list, shifted, pos, new, n :
          /\ list = ColumnOfFile(file, c) /\ shifted = ColumnIn(groups', u, c)
          /\ pos = PositionsOf(file.groups) /\ new = PositionsOf(groups') /\ n = lastGroup
    OBVIOUS
  <2>2. /\ list \subseteq Nat /\ IsFiniteSet(list) /\ n \in Nat
        /\ shifted = {n + k : k \in list} /\ \A k \in list : new[n + k] = pos[k]
    <3>1. /\ ColumnIn(groups', u, c) = Shifted(ColumnOfFile(file, c), lastGroup)
          /\ ShiftedList(ColumnOfFile(file, c), PositionsOf(file.groups), PositionsOf(groups'), lastGroup)
          /\ ColumnOfFile(file, c) \subseteq Nat /\ IsFiniteSet(ColumnOfFile(file, c))
          /\ lastGroup \in Nat
      BY ReplacedLists
    <3> QED
      BY <2>1, <3>1 DEF Shifted, ShiftedList
  <2>3. Compact(list, pos)
    <3>1. CASE c \in 1 .. MaxColumns
      BY <2>1, <3>1 DEF CompactFile, ColumnOfFile
    <3>2. CASE c \notin 1 .. MaxColumns
      <4>1. ColumnOfFile(file, c) = {}
        BY <3>2, ReplacedLists
      <4> QED
        BY <2>1, <4>1, CompactEmpty
    <3> QED
      BY <3>1, <3>2
  <2>4. Compact(shifted, new)
    BY <2>2, <2>3, ShiftedCompact
  <2> QED
    BY <2>1, <2>4
<1> QED
  BY <1>1, <1>2 DEF CompactGroups

\* And every list of tiles is, whatever columns the file names.
LEMMA ReplaceStartPageCompact ==
  ASSUME TypeOK, Sound, CompactItems(items), NEW u \in Users,
         NEW file \in Layouts, ReplaceStartPage(u, file)
  PROVE  CompactItems(items')
<1>1. ASSUME NEW g \in OwnedBy(u)
      PROVE  Compact(GroupIn(items', g), PositionsOf(items'))
  BY ReplacedLists, CompactEmpty
<1>2. ASSUME NEW g, g \notin OwnedBy(u), g \notin lastGroup + 1 .. lastGroup'
      PROVE  Compact(GroupIn(items', g), PositionsOf(items'))
  <2>1. /\ GroupIn(items', g) = GroupIn(items, g)
        /\ SameList(GroupIn(items, g), items, items')
    BY <1>2, ReplacedLists
  <2>2. \A r \in GroupIn(items, g) : PositionsOf(items')[r] = PositionsOf(items)[r]
    BY <2>1 DEF SameList
  <2> QED
    BY <2>1, <2>2, CompactAgree DEF CompactItems
<1>3. ASSUME NEW g \in lastGroup + 1 .. lastGroup'
      PROVE  Compact(GroupIn(items', g), PositionsOf(items'))
  <2>1. PICK m \in DOMAIN file.groups : g = lastGroup + m
    <3>1. /\ Len(file.groups) \in Nat /\ DOMAIN file.groups = 1 .. Len(file.groups)
          /\ lastGroup \in Nat /\ lastGroup' = lastGroup + Len(file.groups)
      BY ReplacedLists
    <3>2. g - lastGroup \in DOMAIN file.groups /\ g = lastGroup + (g - lastGroup)
      BY <3>1
    <3> QED
      BY <3>2
  <2>2. PICK list, shifted, pos, new, n :
          /\ list = GroupOfFile(file, m) /\ shifted = GroupIn(items', g)
          /\ pos = PositionsOf(file.items) /\ new = PositionsOf(items') /\ n = lastItem
    OBVIOUS
  <2>3. /\ list \subseteq Nat /\ IsFiniteSet(list) /\ n \in Nat
        /\ shifted = {n + k : k \in list} /\ \A k \in list : new[n + k] = pos[k]
    <3>1. /\ GroupIn(items', lastGroup + m) = Shifted(GroupOfFile(file, m), lastItem)
          /\ ShiftedList(GroupOfFile(file, m), PositionsOf(file.items), PositionsOf(items'), lastItem)
          /\ GroupOfFile(file, m) \subseteq Nat /\ IsFiniteSet(GroupOfFile(file, m))
          /\ lastItem \in Nat
      BY ReplacedLists
    <3> QED
      BY <2>1, <2>2, <3>1 DEF Shifted, ShiftedList
  <2>4. Compact(list, pos)
    BY <2>2, LayoutsAssumption DEF GroupOfFile
  <2>5. Compact(shifted, new)
    BY <2>3, <2>4, ShiftedCompact
  <2> QED
    BY <2>2, <2>5
<1> QED
  BY <1>1, <1>2, <1>3 DEF CompactItems

\* Deleting an account deletes its columns whole.
LEMMA DeleteUserColumns ==
  ASSUME CompactGroups(groups), NEW u \in Users, DeleteUser(u)
  PROVE  CompactGroups(groups')
<1>1. /\ DOMAIN groups' = DOMAIN groups \ OwnedBy(u)
      /\ \A g \in DOMAIN groups' : groups'[g] = groups[g]
  BY DEF DeleteUser, WithoutRows
<1>2. \A v, c : ColumnIn(groups', v, c) = IF v = u THEN {} ELSE ColumnIn(groups, v, c)
  BY <1>1 DEF ColumnIn, OwnedBy
<1>3. ASSUME NEW v, NEW c, v # u
      PROVE  Compact(ColumnIn(groups, v, c), PositionsOf(groups'))
  <2>1. \A r \in ColumnIn(groups, v, c) : PositionsOf(groups')[r] = PositionsOf(groups)[r]
    BY <1>1, <1>3 DEF ColumnIn, OwnedBy, PositionsOf
  <2> QED
    BY <2>1, CompactAgree DEF CompactGroups
<1> QED
  BY <1>2, <1>3, CompactEmpty DEF CompactGroups

\* And its lists of tiles.
LEMMA DeleteUserCompact ==
  ASSUME CompactItems(items), NEW u \in Users, DeleteUser(u)
  PROVE  CompactItems(items')
<1>1. /\ DOMAIN items' = DOMAIN items \ TilesOf(u)
      /\ \A i \in DOMAIN items' : items'[i] = items[i]
  BY DEF DeleteUser, WithoutRows
<1>2. \A g : GroupIn(items', g) = IF g \in OwnedBy(u) THEN {} ELSE GroupIn(items, g)
  BY <1>1 DEF GroupIn, TilesOf
<1>3. ASSUME NEW g, g \notin OwnedBy(u)
      PROVE  Compact(GroupIn(items, g), PositionsOf(items'))
  <2>1. \A r \in GroupIn(items, g) : PositionsOf(items')[r] = PositionsOf(items)[r]
    BY <1>1, <1>3 DEF GroupIn, TilesOf, PositionsOf
  <2> QED
    BY <2>1, CompactAgree DEF CompactItems
<1> QED
  BY <1>2, <1>3, CompactEmpty DEF CompactItems

\* Every step keeps every list of tiles compact, whatever columns the files name.
LEMMA NextTilesIndexed == TypeOK /\ Sound /\ CompactItems(items) /\ [Next]_vars => CompactItems(items')
<1> SUFFICES ASSUME TypeOK, Sound, CompactItems(items), [Next]_vars
             PROVE  CompactItems(items')
  OBVIOUS
<1>1. CASE items' = items
  BY <1>1
<1>2. ASSUME NEW u \in Users, GroupStep(u)
      PROVE  CompactItems(items')
  <2>1. ASSUME NEW g \in DOMAIN groups, DeleteGroup(u, g)
        PROVE  CompactItems(items')
    BY <2>1, DeleteGroupTiles
  <2> QED
    BY <1>1, <1>2, <2>1 DEF GroupStep, CreateGroup, UpdateGroup, MoveGroup
<1>3. ASSUME NEW u \in Users, ItemStep(u)
      PROVE  CompactItems(items')
  <2>3. ASSUME NEW i \in DOMAIN items, NEW url \in Urls, UpdateItem(u, i, url)
        PROVE  CompactItems(items')
    <3>1. /\ DOMAIN items' = DOMAIN items
          /\ \A k \in DOMAIN items : /\ items'[k].group = items[k].group
                                     /\ items'[k].position = items[k].position
      BY <2>3 DEF UpdateItem, TypeOK, ItemType
    <3> QED
      BY <3>1, KeptItemsCompact
  <2>4. ASSUME NEW i \in DOMAIN items, IncrementVisitCount(u, i)
        PROVE  CompactItems(items')
    <3>1. /\ DOMAIN items' = DOMAIN items
          /\ \A k \in DOMAIN items : /\ items'[k].group = items[k].group
                                     /\ items'[k].position = items[k].position
      BY <2>4 DEF IncrementVisitCount, TypeOK, ItemType
    <3> QED
      BY <3>1, KeptItemsCompact
  <2>5. ASSUME NEW i \in DOMAIN items, NEW p \in AskedPositions, MoveItem(u, i, p)
        PROVE  CompactItems(items')
    BY <2>5, MoveItemCompact, ConstantsAssumption
  <2>6. ASSUME NEW i \in DOMAIN items, NEW g \in DOMAIN groups, NEW p \in AskedPositions,
               MoveItemToGroup(u, i, g, p)
        PROVE  CompactItems(items')
    BY <2>6, MoveItemToGroupCompact, ConstantsAssumption
  <2> QED
    BY <1>3, <2>3, <2>4, <2>5, <2>6, CreateItemCompact, DeleteItemCompact DEF ItemStep
<1>4. ASSUME NEW u \in Users, PageStep(u)
      PROVE  CompactItems(items')
  <2>1. \A width \in 0 .. MaxColumns + 1 : UpdateColumns(u, width) => CompactItems(items')
    BY <1>1 DEF UpdateColumns
  <2> QED
    BY <1>4, <2>1, ReplaceStartPageCompact, DeleteUserCompact DEF PageStep
<1>5. CASE UNCHANGED vars \/ CreateUser
  BY <1>1, <1>5 DEF vars, CreateUser
<1> QED
  BY <1>2, <1>3, <1>4, <1>5 DEF Next

\* Every step keeps every column compact, if no file names a column twice.
LEMMA NextColumnsIndexed ==
  ASSUME \A file \in Layouts : CompactFile(file)
  PROVE  TypeOK /\ Sound /\ CompactGroups(groups) /\ [Next]_vars => CompactGroups(groups')
<1> SUFFICES ASSUME TypeOK, Sound, CompactGroups(groups), [Next]_vars
             PROVE  CompactGroups(groups')
  OBVIOUS
<1>1. CASE groups' = groups
  BY <1>1
<1>2. CASE UNCHANGED vars \/ CreateUser
  BY <1>1, <1>2 DEF vars, CreateUser
<1>3. ASSUME NEW u \in Users, GroupStep(u)
      PROVE  CompactGroups(groups')
  <2>1. ASSUME NEW name \in Names, NEW c \in 0 .. MaxColumns + 1, CreateGroup(u, name, c)
        PROVE  CompactGroups(groups')
    BY <2>1, CreateGroupCompact, ConstantsAssumption
  <2>2. ASSUME NEW g \in DOMAIN groups, NEW name \in Names, UpdateGroup(u, g, name)
        PROVE  CompactGroups(groups')
    <3>1. /\ DOMAIN groups' = DOMAIN groups
          /\ \A h \in DOMAIN groups : /\ groups'[h].user = groups[h].user
                                      /\ groups'[h].column = groups[h].column
                                      /\ groups'[h].position = groups[h].position
      BY <2>2 DEF UpdateGroup, TypeOK, GroupType
    <3>2. \A v, c : ColumnIn(groups', v, c) = ColumnIn(groups, v, c)
      BY <3>1 DEF ColumnIn
    <3>3. \A v, c : \A r \in ColumnIn(groups, v, c) : PositionsOf(groups')[r] = PositionsOf(groups)[r]
      BY <3>1 DEF ColumnIn, PositionsOf
    <3> QED
      BY <3>2, <3>3, CompactAgree DEF CompactGroups
  <2>3. ASSUME NEW g \in DOMAIN groups, NEW c \in 0 .. MaxColumns + 1, NEW p \in AskedPositions,
               MoveGroup(u, g, c, p)
        PROVE  CompactGroups(groups')
    <3>1. c \in Int /\ p \in Int
      BY ConstantsAssumption
    <3> QED
      BY <2>3, <3>1, MoveGroupCompact
  <2> QED
    BY <1>3, <2>1, <2>2, <2>3, DeleteGroupCompact DEF GroupStep
<1>4. ASSUME NEW u \in Users, ItemStep(u)
      PROVE  CompactGroups(groups')
  BY <1>1, <1>4 DEF ItemStep, CreateItem, UpdateItem, MoveItem, MoveItemToGroup, DeleteItem,
                    IncrementVisitCount
<1>5. ASSUME NEW u \in Users, PageStep(u)
      PROVE  CompactGroups(groups')
  <2>1. \A width \in 0 .. MaxColumns + 1 : UpdateColumns(u, width) => CompactGroups(groups')
    BY <1>1 DEF UpdateColumns
  <2> QED
    BY <1>5, <2>1, ReplaceStartPageColumns, DeleteUserColumns DEF PageStep
<1> QED
  BY <1>2, <1>3, <1>4, <1>5 DEF Next

\* An empty database has no list that is not compact.
LEMMA InitIndexed == Init => CompactGroups(groups) /\ CompactItems(items)
BY CompactEmpty DEF Init, CompactGroups, CompactItems, ColumnIn, GroupIn

\* Inductive with the types, and with every tile having its group.
LEMMA TilesAlwaysIndexed == Spec => []CompactItems(items)
<1>1. Init => TypeOK /\ Sound /\ CompactItems(items)
  BY InitType, InitSound, InitIndexed
<1>2. TypeOK /\ Sound /\ CompactItems(items) /\ [Next]_vars => (TypeOK /\ Sound /\ CompactItems(items))'
  BY NextType, NextSound, NextTilesIndexed
<1> QED
  BY <1>1, <1>2, PTL DEF Spec

\* "Position is 0-based and always compacted, so a position is an index": true
\* of every column that can be reached, as long as no file read names a column
\* twice.
THEOREM ColumnsAreIndexed ==
  ASSUME \A file \in Layouts : CompactFile(file)
  PROVE  Spec => []GroupsCompacted
<1>1. \A u, c : InColumn(u, c) = ColumnIn(groups, u, c)
  BY DEF InColumn, OwnedBy, ColumnIn
<1>2. CompactGroups(groups) => GroupsCompacted
  BY <1>1 DEF CompactGroups, GroupsCompacted
<1>3. Init => TypeOK /\ Sound /\ CompactGroups(groups)
  BY InitType, InitSound, InitIndexed
<1>4. TypeOK /\ Sound /\ CompactGroups(groups) /\ [Next]_vars =>
        (TypeOK /\ Sound /\ CompactGroups(groups))'
  BY NextType, NextSound, NextColumnsIndexed
<1> QED
  BY <1>2, <1>3, <1>4, PTL DEF Spec

\* The same of the tiles of every group, whatever columns the files name.
THEOREM TilesAreIndexed == Spec => []ItemsCompacted
<1>1. \A g : InGroup(g) = GroupIn(items, g)
  BY DEF InGroup, GroupIn
<1>2. CompactItems(items) => ItemsCompacted
  BY <1>1 DEF CompactItems, ItemsCompacted
<1>3. Spec => []CompactItems(items)
  BY TilesAlwaysIndexed
<1> QED
  BY <1>2, <1>3, PTL

\* "Positions always stay compacted, so for the editor the two agree": MoveItem,
\* which looks for its index, and MoveItemToGroup, which is told it, would put
\* the same tile in the same place, whatever position is asked for.
THEOREM MovesAlwaysAgree == Spec => []MovesAgree
<1>1. TypeOK /\ NoOrphanTiles /\ ItemsCompacted => MovesAgree
  <2> SUFFICES ASSUME TypeOK, NoOrphanTiles, ItemsCompacted,
                      NEW i \in DOMAIN items, NEW p \in AskedPositions
               PROVE  MoveItemIndex(InGroup(items[i].group), PositionsOf(items), p) =
                        MoveItemToGroupIndex(InGroup(items[i].group) \ {i}, p)
    BY DEF MovesAgree
  <2> DEFINE list == InGroup(items[i].group)
  <2>1. list \in SUBSET DOMAIN items /\ i \in list
    BY DEF InGroup
  <2>2. IsFiniteSet(list) /\ Compact(list, PositionsOf(items)) /\ p \in Int
    BY <2>1, FiniteTables, ConstantsAssumption DEF NoOrphanTiles, ItemsCompacted
  <2> HIDE DEF list
  <2>3. /\ Cardinality(list) \in Nat /\ Cardinality(list) # 0
        /\ Cardinality(list \ {i}) = Cardinality(list) - 1
    BY <2>1, <2>2, FS_CardinalityType, FS_EmptySet, FS_RemoveElement
  <2>4. FirstAtLeast(list, PositionsOf(items), p) = Clamp(p, 0, Cardinality(list))
    BY <2>2, CompactIndex
  <2>5. MoveItemIndex(list, PositionsOf(items), p) = MoveItemToGroupIndex(list \ {i}, p)
    BY <2>2, <2>3, <2>4 DEF MoveItemIndex, MoveItemToGroupIndex, Clamp
  <2> QED
    BY <2>5 DEF list
<1>2. Spec => []TypeOK
  BY TypeCorrect
<1>3. Spec => []NoOrphanTiles
  BY NothingIsOrphaned
<1>4. Spec => []ItemsCompacted
  BY TilesAreIndexed
<1> QED
  BY <1>1, <1>2, <1>3, <1>4, PTL
-----------------------------------------------------------------------------
(* A step is about one account.                                            *)

\* A step that touches u's page and nobody else's, and loses no visit.
OnlyTouches(u) ==
  /\ \A v \in Users \ {u} : v \in Users' /\ columns'[v] = columns[v]
  /\ \A g \in DOMAIN groups : groups[g].user # u => g \in DOMAIN groups' /\ groups'[g] = groups[g]
  /\ \A g \in DOMAIN groups' :
       groups'[g].user = u \/ (g \in DOMAIN groups /\ groups[g].user # u)
  /\ \A i \in DOMAIN items \ TilesOf(u) : i \in DOMAIN items' /\ items'[i] = items[i]
  /\ \A i \in DOMAIN items' :
       i \in DOMAIN items \ TilesOf(u) \/ groups'[items'[i].group].user = u
  /\ \A i \in Kept(items, items') : items'[i].visits >= items[i].visits

\* What such a step promises of the others.
LEMMA TouchesOne ==
  ASSUME TypeOK, NoOrphanTiles, NoOrphanTiles', NEW u, OnlyTouches(u)
  PROVE  /\ \A v \in Users \ {u} :
              /\ v \in Users' /\ columns'[v] = columns[v]
              /\ OwnedBy(v)' = OwnedBy(v) /\ TilesOf(v)' = TilesOf(v)
              /\ \A g \in OwnedBy(v) : groups'[g] = groups[g]
              /\ \A i \in TilesOf(v) : items'[i] = items[i]
         /\ \A i \in Kept(items, items') :
              /\ groups'[items'[i].group].user = groups[items[i].group].user
              /\ items'[i].visits >= items[i].visits
<1>1. ASSUME NEW v \in Users \ {u}
      PROVE  /\ v \in Users' /\ columns'[v] = columns[v]
             /\ OwnedBy(v)' = OwnedBy(v) /\ TilesOf(v)' = TilesOf(v)
             /\ \A g \in OwnedBy(v) : groups'[g] = groups[g]
             /\ \A i \in TilesOf(v) : items'[i] = items[i]
  <2>1. v \in Users' /\ columns'[v] = columns[v]
    BY DEF OnlyTouches
  <2>2. OwnedBy(v)' = OwnedBy(v) /\ \A g \in OwnedBy(v) : groups'[g] = groups[g]
    BY DEF OnlyTouches, OwnedBy
  <2>3. ASSUME NEW i \in TilesOf(v)
        PROVE  i \in DOMAIN items \ TilesOf(u)
    BY DEF TilesOf, OwnedBy
  <2>4. ASSUME NEW i \in TilesOf(v)
        PROVE  i \in TilesOf(v)' /\ items'[i] = items[i]
    BY <2>2, <2>3 DEF OnlyTouches, TilesOf
  <2>5. ASSUME NEW i \in TilesOf(v)'
        PROVE  i \in TilesOf(v)
    <3>1. i \in DOMAIN items' /\ groups'[items'[i].group].user = v
      BY DEF TilesOf, OwnedBy
    <3>2. i \in DOMAIN items /\ items'[i] = items[i]
      BY <3>1 DEF OnlyTouches
    <3> QED
      BY <2>2, <3>2 DEF TilesOf
  <2> QED
    BY <2>1, <2>2, <2>4, <2>5
<1>2. ASSUME NEW i \in Kept(items, items')
      PROVE  /\ groups'[items'[i].group].user = groups[items[i].group].user
             /\ items'[i].visits >= items[i].visits
  <2>1. /\ i \in DOMAIN items /\ i \in DOMAIN items' /\ items'[i].visits >= items[i].visits
        /\ items[i].group \in DOMAIN groups
    BY DEF OnlyTouches, Kept, NoOrphanTiles
  <2>2. CASE i \in TilesOf(u)
    BY <2>1, <2>2 DEF OnlyTouches, TilesOf, OwnedBy
  <2>3. CASE i \notin TilesOf(u)
    <3>1. items'[i] = items[i] /\ groups[items[i].group].user # u
      BY <2>1, <2>3 DEF OnlyTouches, TilesOf, OwnedBy
    <3> QED
      BY <2>1, <3>1 DEF OnlyTouches
  <2> QED
    BY <2>1, <2>2, <2>3
<1> QED
  BY <1>1, <1>2

\* Renumbering a column of u's leaves everybody else's groups alone.
LEMMA ReorderColumnOthers ==
  ASSUME NEW rows, NEW u, NEW c
  PROVE  /\ DOMAIN ReorderColumn(rows, u, c) = DOMAIN rows
         /\ \A g \in DOMAIN rows : rows[g].user # u => ReorderColumn(rows, u, c)[g] = rows[g]
BY DEF ReorderColumn, Repositioned, Renumbered

\* Renumbering a group leaves the tiles of the others alone, and all visits.
LEMMA ReorderGroupOthers ==
  ASSUME NEW rows, rows \in [DOMAIN rows -> ItemType], NEW g
  PROVE  /\ DOMAIN ReorderGroup(rows, g) = DOMAIN rows
         /\ \A i \in DOMAIN rows :
              /\ rows[i].group # g => ReorderGroup(rows, g)[i] = rows[i]
              /\ ReorderGroup(rows, g)[i].group = rows[i].group
              /\ ReorderGroup(rows, g)[i].visits = rows[i].visits
BY DEF ReorderGroup, Repositioned, Renumbered, ItemType

\* What changes groups of u's alone.
LEMMA GroupTouches ==
  ASSUME TypeOK, NoOrphanTiles, NEW u \in Users, items' = items, columns' = columns,
         \A g \in DOMAIN groups : g \in DOMAIN groups' /\ groups'[g].user = groups[g].user,
         \A g \in DOMAIN groups : groups[g].user # u => groups'[g] = groups[g],
         \A g \in DOMAIN groups' \ DOMAIN groups : groups'[g].user = u
  PROVE  OnlyTouches(u)
<1>1. \A i \in Kept(items, items') : items'[i].visits >= items[i].visits
  BY DEF Kept, TypeOK, ItemType
<1> QED
  BY <1>1 DEF OnlyTouches, NoOrphanTiles, TilesOf, OwnedBy, Users

\* A call about a group of u's touches u's page alone.
LEMMA GroupStepTouches ==
  ASSUME TypeOK, NoOrphanTiles, NEW u \in Users, GroupStep(u)
  PROVE  OnlyTouches(u)
<1>1. ASSUME NEW name, NEW c, CreateGroup(u, name, c)
      PROVE  OnlyTouches(u)
  <2>1. lastGroup + 1 \notin DOMAIN groups
    BY ConstantsAssumption DEF TypeOK
  <2>2. /\ DOMAIN groups' = DOMAIN groups \cup {lastGroup + 1}
        /\ groups'[lastGroup + 1].user = u
        /\ \A g \in DOMAIN groups : groups'[g] = groups[g]
    BY <1>1, <2>1 DEF CreateGroup, WithRow
  <2>3. items' = items /\ columns' = columns
    BY <1>1 DEF CreateGroup
  <2> QED
    BY <2>2, <2>3, GroupTouches
<1>2. ASSUME NEW g \in DOMAIN groups, NEW name, UpdateGroup(u, g, name)
      PROVE  OnlyTouches(u)
  <2>1. /\ DOMAIN groups' = DOMAIN groups /\ items' = items /\ columns' = columns
        /\ \A h \in DOMAIN groups : /\ groups'[h].user = groups[h].user
                                    /\ h # g => groups'[h] = groups[h]
        /\ groups[g].user = u
    BY <1>2 DEF UpdateGroup, OwnedBy, TypeOK, GroupType
  <2> QED
    BY <2>1, GroupTouches
<1>3. ASSUME NEW g \in DOMAIN groups, NEW c \in 0 .. MaxColumns + 1, NEW p \in AskedPositions,
             MoveGroup(u, g, c, p)
      PROVE  OnlyTouches(u)
  <2> DEFINE neighbours == InColumn(u, c) \ {g}
             index == Clamp(p, 0, Cardinality(neighbours))
             moved == [groups EXCEPT ![g].column = c]
             pos == InsertedAt(neighbours, PositionsOf(groups), g, index)
             landed == Repositioned(moved, pos)
  <2>1. groups[g].user = u /\ items' = items /\ columns' = columns
    BY <1>3 DEF MoveGroup, OwnedBy
  <2>2. \A h \in DOMAIN pos : h \in DOMAIN groups /\ groups[h].user = u
    BY <2>1 DEF InsertedAt, InColumn, OwnedBy
  <2>3. /\ DOMAIN moved = DOMAIN groups
        /\ \A h \in DOMAIN groups : /\ moved[h].user = groups[h].user
                                    /\ h # g => moved[h] = groups[h]
    BY DEF TypeOK, GroupType
  <2> HIDE DEF moved, pos
  <2>4. DOMAIN landed = DOMAIN groups /\ \A h \in DOMAIN groups : groups[h].user # u => landed[h] = groups[h]
    BY <2>1, <2>2, <2>3 DEF Repositioned
  <2>5. \A h \in DOMAIN groups : groups[h].user = u => landed[h].user = u
    <3>1. moved \in [DOMAIN moved -> GroupType]
      BY DEF moved, TypeOK, GroupType
    <3>2. SameGroups(moved, landed)
      BY <3>1, RepositionedGroupRows
    <3> QED
      BY <2>3, <3>2 DEF SameGroups
  <2> HIDE DEF landed
  <2>6. groups' = landed \/ groups' = ReorderColumn(landed, u, groups[g].column)
    BY <1>3 DEF MoveGroup, landed, moved, pos
  <2>7. DOMAIN groups' = DOMAIN groups
        /\ \A h \in DOMAIN groups : groups[h].user # u => groups'[h] = groups[h]
    BY <2>4, <2>6, ReorderColumnOthers
  <2>8. \A h \in DOMAIN groups : groups'[h].user = groups[h].user
    <3>1. c \in Int /\ p \in Int
      BY ConstantsAssumption
    <3>2. SameGroups([groups EXCEPT ![g].column = c], groups')
      BY <1>3, <3>1, MoveGroupFields
    <3> QED
      BY <2>3, <3>2 DEF SameGroups, moved
  <2> QED
    BY <2>1, <2>7, <2>8, GroupTouches
<1>4. ASSUME NEW g \in DOMAIN groups, DeleteGroup(u, g)
      PROVE  OnlyTouches(u)
  <2> DEFINE left == WithoutRows(groups, {g})
  <2>1. groups[g].user = u /\ columns' = columns
    BY <1>4 DEF DeleteGroup, OwnedBy
  <2>2. /\ DOMAIN left = DOMAIN groups \ {g} /\ left \in [DOMAIN left -> GroupType]
        /\ \A h \in DOMAIN left : left[h] = groups[h]
    BY DEF WithoutRows, TypeOK
  <2> HIDE DEF left
  <2>3. groups' = ReorderColumn(left, u, groups[g].column)
    BY <1>4 DEF DeleteGroup, left
  <2>4. /\ DOMAIN groups' = DOMAIN groups \ {g}
        /\ \A h \in DOMAIN groups' : /\ groups'[h].user = groups[h].user
                                     /\ groups[h].user # u => groups'[h] = groups[h]
    BY <2>2, <2>3, ReorderColumnOthers, ReorderColumnFields DEF SameGroups
  <2>5. /\ DOMAIN items' = DOMAIN items \ InGroup(g)
        /\ \A i \in DOMAIN items' : items'[i] = items[i]
    BY <1>4 DEF DeleteGroup, WithoutRows
  <2>6. InGroup(g) \subseteq TilesOf(u)
    BY <2>1 DEF InGroup, TilesOf, OwnedBy
  <2>7. \A i \in Kept(items, items') : items'[i].visits >= items[i].visits
    BY <2>5 DEF Kept, TypeOK, ItemType
  <2>8. ASSUME NEW i \in DOMAIN items', i \in TilesOf(u)
        PROVE  groups'[items'[i].group].user = u
    <3>1. items'[i] = items[i] /\ items[i].group # g /\ items[i].group \in DOMAIN groups
          /\ groups[items[i].group].user = u
      BY <2>5, <2>8 DEF InGroup, TilesOf, OwnedBy
    <3> QED
      BY <2>4, <3>1
  <2> QED
    BY <2>1, <2>4, <2>5, <2>6, <2>7, <2>8 DEF OnlyTouches, Users
<1> QED
  BY <1>1, <1>2, <1>3, <1>4 DEF GroupStep

\* What changes tiles of u's alone, and leaves them with u.
LEMMA ItemTouches ==
  ASSUME TypeOK, NoOrphanTiles, NEW u \in Users, groups' = groups, columns' = columns,
         \A i \in DOMAIN items \ TilesOf(u) : i \in DOMAIN items' /\ items'[i] = items[i],
         \A i \in DOMAIN items' : i \in DOMAIN items \ TilesOf(u) \/ items'[i].group \in OwnedBy(u),
         \A i \in TilesOf(u) : i \in DOMAIN items' => items'[i].visits >= items[i].visits
  PROVE  OnlyTouches(u)
<1>1. \A i \in Kept(items, items') : items'[i].visits >= items[i].visits
  BY DEF Kept, TypeOK, ItemType
<1> QED
  BY <1>1 DEF OnlyTouches, OwnedBy, Users

\* So does a call about a tile of u's.
LEMMA ItemStepTouches ==
  ASSUME TypeOK, NoOrphanTiles, NEW u \in Users, ItemStep(u)
  PROVE  OnlyTouches(u)
<1>0. /\ \A i \in DOMAIN items : items[i].visits \in Int
      /\ \A i \in TilesOf(u) : i \in DOMAIN items /\ items[i].group \in OwnedBy(u)
      /\ \A i \in DOMAIN items : items[i].group \in OwnedBy(u) => i \in TilesOf(u)
  BY DEF TypeOK, ItemType, TilesOf
<1>1. ASSUME NEW g, NEW url, CreateItem(u, g, url)
      PROVE  OnlyTouches(u)
  <2>1. lastItem + 1 \notin DOMAIN items
    BY ConstantsAssumption DEF TypeOK
  <2>2. /\ DOMAIN items' = DOMAIN items \cup {lastItem + 1}
        /\ items'[lastItem + 1].group = g /\ g \in OwnedBy(u)
        /\ \A i \in DOMAIN items : items'[i] = items[i]
        /\ groups' = groups /\ columns' = columns
    BY <1>1, <2>1 DEF CreateItem, WithRow
  <2> QED
    BY <1>0, <2>2, ItemTouches
<1>2. ASSUME NEW i, NEW url, UpdateItem(u, i, url)
      PROVE  OnlyTouches(u)
  <2>1. /\ i \in TilesOf(u) /\ i \in DOMAIN items
        /\ DOMAIN items' = DOMAIN items /\ groups' = groups /\ columns' = columns
        /\ \A k \in DOMAIN items : /\ k # i => items'[k] = items[k]
                                   /\ items'[k].group = items[k].group
                                   /\ items'[k].visits = items[k].visits
    BY <1>0, <1>2 DEF UpdateItem, TypeOK, ItemType
  <2> QED
    BY <1>0, <2>1, ItemTouches
<1>3. ASSUME NEW i \in DOMAIN items, NEW p \in AskedPositions, MoveItem(u, i, p)
      PROVE  OnlyTouches(u)
  <2> DEFINE list == InGroup(items[i].group)
             index == MoveItemIndex(list, PositionsOf(items), p)
             pos == InsertedAt(list \ {i}, PositionsOf(items), i, index)
  <2>1. items[i].group \in OwnedBy(u) /\ groups' = groups /\ columns' = columns
    BY <1>0, <1>3 DEF MoveItem
  <2>2. \A k \in DOMAIN pos : k \in DOMAIN items /\ items[k].group = items[i].group
    BY DEF InsertedAt, InGroup
  <2>3. items' = Repositioned(items, pos)
    BY <1>3 DEF MoveItem
  <2> HIDE DEF pos
  <2>4. /\ DOMAIN items' = DOMAIN items
        /\ \A k \in DOMAIN items : /\ items[k].group # items[i].group => items'[k] = items[k]
                                   /\ items'[k].group = items[k].group
                                   /\ items'[k].visits = items[k].visits
    BY <2>2, <2>3 DEF Repositioned, TypeOK, ItemType
  <2> QED
    BY <1>0, <2>1, <2>4, ItemTouches
<1>4. ASSUME NEW i \in DOMAIN items, NEW g \in DOMAIN groups, NEW p \in AskedPositions,
             MoveItemToGroup(u, i, g, p)
      PROVE  OnlyTouches(u)
  <2> DEFINE neighbours == InGroup(g) \ {i}
             index == MoveItemToGroupIndex(neighbours, p)
             moved == [items EXCEPT ![i].group = g]
             pos == InsertedAt(neighbours, PositionsOf(items), i, index)
             landed == Repositioned(moved, pos)
  <2>1. /\ items[i].group \in OwnedBy(u) /\ g \in OwnedBy(u)
        /\ groups' = groups /\ columns' = columns
    BY <1>0, <1>4 DEF MoveItemToGroup
  <2>2. \A k \in DOMAIN pos : k \in DOMAIN items /\ (k = i \/ items[k].group = g)
    BY DEF InsertedAt, InGroup
  <2>3. /\ DOMAIN moved = DOMAIN items /\ moved \in [DOMAIN moved -> ItemType]
        /\ \A k \in DOMAIN items : /\ k # i => moved[k] = items[k]
                                   /\ moved[k].group = IF k = i THEN g ELSE items[k].group
                                   /\ moved[k].visits = items[k].visits
    <3>1. g \in 1 .. MaxGroups
      BY ConstantsAssumption DEF TypeOK
    <3> QED
      BY <3>1 DEF TypeOK, ItemType
  <2>4. \A y \in DOMAIN pos : pos[y] \in Nat
    <3>1. neighbours \in SUBSET DOMAIN items
      BY DEF InGroup
    <3>2. IsFiniteSet(neighbours) /\ \A y \in neighbours : PositionsOf(items)[y] \in Int
      BY <3>1, FiniteTables
    <3>3. index \in Nat
      BY <3>2, ClampedIndex, ConstantsAssumption DEF MoveItemToGroupIndex
    <3> HIDE DEF neighbours, index
    <3> QED
      BY <3>2, <3>3, InsertedNat
  <2> HIDE DEF moved, pos
  <2>5. /\ DOMAIN landed = DOMAIN items /\ landed \in [DOMAIN landed -> ItemType]
        /\ \A k \in DOMAIN items : /\ k \notin DOMAIN pos => landed[k] = moved[k]
                                   /\ landed[k].group = moved[k].group
                                   /\ landed[k].visits = items[k].visits
    <3>1. DOMAIN landed = DOMAIN items /\ landed \in [DOMAIN landed -> ItemType]
      BY <2>3, <2>4, RepositionedItems
    <3>2. \A k \in DOMAIN items : moved[k] \in ItemType
      BY <2>3
    <3> QED
      BY <2>3, <3>1, <3>2 DEF Repositioned, ItemType
  <2> HIDE DEF landed
  <2>6. items' = landed \/ items' = ReorderGroup(landed, items[i].group)
    BY <1>4 DEF MoveItemToGroup, landed, moved, pos
  <2>7. /\ DOMAIN items' = DOMAIN items
        /\ \A k \in DOMAIN items : /\ items'[k].group = landed[k].group
                                   /\ items'[k].visits = landed[k].visits
                                   /\ landed[k].group # items[i].group => items'[k] = landed[k]
    BY <2>5, <2>6, ReorderGroupOthers
  <2>8. ASSUME NEW k \in DOMAIN items \ TilesOf(u)
        PROVE  items'[k] = items[k]
    BY <1>0, <2>1, <2>2, <2>3, <2>5, <2>7, <2>8
  <2> QED
    BY <1>0, <2>1, <2>3, <2>5, <2>7, <2>8, ItemTouches
<1>5. ASSUME NEW i \in DOMAIN items, DeleteItem(u, i)
      PROVE  OnlyTouches(u)
  <2> DEFINE left == WithoutRows(items, {i})
  <2>1. i \in TilesOf(u) /\ items[i].group \in OwnedBy(u) /\ groups' = groups /\ columns' = columns
    BY <1>0, <1>5 DEF DeleteItem
  <2>2. /\ DOMAIN left = DOMAIN items \ {i} /\ left \in [DOMAIN left -> ItemType]
        /\ \A k \in DOMAIN left : left[k] = items[k]
    BY DEF WithoutRows, TypeOK
  <2> HIDE DEF left
  <2>3. items' = ReorderGroup(left, items[i].group)
    BY <1>5 DEF DeleteItem, left
  <2>4. /\ DOMAIN items' = DOMAIN items \ {i}
        /\ \A k \in DOMAIN items' : /\ items[k].group # items[i].group => items'[k] = items[k]
                                    /\ items'[k].group = items[k].group
                                    /\ items'[k].visits = items[k].visits
    BY <2>2, <2>3, ReorderGroupOthers
  <2> QED
    BY <1>0, <2>1, <2>4, ItemTouches
<1>6. ASSUME NEW i \in DOMAIN items, IncrementVisitCount(u, i)
      PROVE  OnlyTouches(u)
  <2>1. /\ i \in TilesOf(u) /\ DOMAIN items' = DOMAIN items /\ groups' = groups /\ columns' = columns
        /\ \A k \in DOMAIN items : /\ k # i => items'[k] = items[k]
                                   /\ items'[k].group = items[k].group
        /\ items'[i].visits = items[i].visits + 1
    BY <1>6 DEF IncrementVisitCount, TypeOK, ItemType
  <2> QED
    BY <1>0, <2>1, ItemTouches
<1> QED
  BY <1>1, <1>2, <1>3, <1>4, <1>5, <1>6 DEF ItemStep

\* And what replaces, narrows or deletes the whole page of u.
LEMMA PageStepTouches ==
  ASSUME TypeOK, NoOrphanTiles, NEW u \in Users, PageStep(u)
  PROVE  OnlyTouches(u)
<1>0. \A i \in DOMAIN items : items[i].visits \in Int
  BY DEF TypeOK, ItemType
<1>1. ASSUME NEW width, UpdateColumns(u, width)
      PROVE  OnlyTouches(u)
  <2>1. /\ groups' = groups /\ items' = items /\ Users' = Users
        /\ \A v \in Users \ {u} : columns'[v] = columns[v]
    BY <1>1 DEF UpdateColumns, TypeOK, Users
  <2> QED
    BY <1>0, <2>1 DEF OnlyTouches, TilesOf, OwnedBy, NoOrphanTiles, Kept
<1>2. ASSUME DeleteUser(u)
      PROVE  OnlyTouches(u)
  <2>1. /\ DOMAIN groups' = DOMAIN groups \ OwnedBy(u) /\ DOMAIN items' = DOMAIN items \ TilesOf(u)
        /\ \A g \in DOMAIN groups' : groups'[g] = groups[g]
        /\ \A i \in DOMAIN items' : items'[i] = items[i]
        /\ Users' = Users \ {u} /\ \A v \in Users' : columns'[v] = columns[v]
    BY <1>2 DEF DeleteUser, WithoutRows, Users
  <2> QED
    BY <1>0, <2>1 DEF OnlyTouches, OwnedBy, Kept
<1>3. ASSUME NEW file \in Layouts, ReplaceStartPage(u, file)
      PROVE  OnlyTouches(u)
  <2> DEFINE newGroups == NewGroups(u, file)
             newItems == NewItems(file)
  <2>1. /\ Len(file.groups) \in Nat /\ Len(file.items) \in Nat
        /\ DOMAIN newGroups = lastGroup + 1 .. lastGroup'
        /\ DOMAIN newItems = lastItem + 1 .. lastItem'
        /\ lastGroup \in Nat /\ lastItem \in Nat
        /\ \A j \in DOMAIN file.items :
             lastGroup + file.items[j].group \in lastGroup + 1 .. lastGroup'
    BY <1>3, NewRowsType, ConstantsAssumption DEF TypeOK
  <2>2. \A g \in DOMAIN newGroups : newGroups[g].user = u
    BY DEF NewGroups
  <2>3. ASSUME NEW i \in DOMAIN newItems
        PROVE  newItems[i].group \in DOMAIN newGroups
    <3>1. i - lastItem \in DOMAIN file.items
      <4>1. lastItem' = lastItem + Len(file.items)
        BY <1>3 DEF ReplaceStartPage
      <4>2. file.items \in Seq([group: Nat, position: Nat, url: Urls])
        BY LayoutsAssumption DEF LayoutType
      <4>3. DOMAIN file.items = 1 .. Len(file.items)
        BY <4>2, SequenceFacts
      <4> QED
        BY <2>1, <2>3, <4>1, <4>3
    <3>2. newItems[i].group = lastGroup + file.items[i - lastItem].group
      BY DEF NewItems
    <3> QED
      BY <2>1, <3>1, <3>2
  <2>4. /\ groups' = Merge(WithoutRows(groups, OwnedBy(u)), newGroups)
        /\ items' = Merge(WithoutRows(items, TilesOf(u)), newItems)
        /\ Users' = Users /\ \A v \in Users \ {u} : columns'[v] = columns[v]
    BY <1>3 DEF ReplaceStartPage, Users, TypeOK
  <2> HIDE DEF newGroups, newItems
  <2>5. /\ DOMAIN groups' = (DOMAIN groups \ OwnedBy(u)) \cup DOMAIN newGroups
        /\ \A g \in DOMAIN newGroups : groups'[g] = newGroups[g] /\ g \notin DOMAIN groups
        /\ \A g \in DOMAIN groups \ OwnedBy(u) : groups'[g] = groups[g]
    BY <2>1, <2>4 DEF Merge, WithoutRows, TypeOK
  <2>6. /\ DOMAIN items' = (DOMAIN items \ TilesOf(u)) \cup DOMAIN newItems
        /\ \A i \in DOMAIN newItems : items'[i] = newItems[i] /\ i \notin DOMAIN items
        /\ \A i \in DOMAIN items \ TilesOf(u) : items'[i] = items[i]
    BY <2>1, <2>4 DEF Merge, WithoutRows, TypeOK
  <2>7. \A i \in Kept(items, items') : items'[i].visits >= items[i].visits
    BY <1>0, <2>6 DEF Kept
  <2>8. \A i \in DOMAIN newItems : groups'[items'[i].group].user = u
    BY <2>2, <2>3, <2>5, <2>6
  <2> QED
    BY <2>2, <2>4, <2>5, <2>6, <2>7, <2>8 DEF OnlyTouches, OwnedBy
<1> QED
  BY <1>1, <1>2, <1>3 DEF PageStep

\* Every step is somebody's, and changes nothing of anybody else's.
THEOREM StepsHaveOneOwner == Spec => OneOwnerPerStep
<1> DEFINE A == /\ \E u \in Users \cup {lastUser + 1} : \A v \in Users \ {u} :
                     /\ v \in Users' /\ columns'[v] = columns[v]
                     /\ OwnedBy(v)' = OwnedBy(v) /\ TilesOf(v)' = TilesOf(v)
                     /\ \A g \in OwnedBy(v) : groups'[g] = groups[g]
                     /\ \A i \in TilesOf(v) : items'[i] = items[i]
                /\ \A i \in Kept(items, items') :
                     /\ groups'[items'[i].group].user = groups[items[i].group].user
                     /\ items'[i].visits >= items[i].visits
<1>1. (TypeOK /\ Sound) /\ (TypeOK /\ Sound)' /\ [Next]_vars => [A]_vars
  <2> SUFFICES ASSUME TypeOK, NoOrphanTiles, NoOrphanTiles', Next
               PROVE  A
    BY DEF Sound
  <2>1. ASSUME NEW u \in Users, GroupStep(u) \/ ItemStep(u) \/ PageStep(u)
        PROVE  OnlyTouches(u)
    BY <2>1, GroupStepTouches, ItemStepTouches, PageStepTouches
  <2>2. ASSUME CreateUser
        PROVE  OnlyTouches(lastUser + 1)
    <3>1. lastUser + 1 \notin Users
      BY ConstantsAssumption DEF TypeOK
    <3>2. /\ groups' = groups /\ items' = items
          /\ Users \subseteq Users' /\ \A v \in Users : columns'[v] = columns[v]
      BY <2>2, <3>1 DEF CreateUser, WithRow, Users
    <3>3. \A i \in Kept(items, items') : items'[i].visits >= items[i].visits
      BY <3>2 DEF Kept, TypeOK, ItemType
    <3> QED
      BY <3>2, <3>3 DEF OnlyTouches, TilesOf, OwnedBy, NoOrphanTiles
  <2>3. PICK u \in Users \cup {lastUser + 1} : OnlyTouches(u)
    BY <2>1, <2>2 DEF Next
  <2> QED
    BY <2>3, TouchesOne
<1> QED
  BY <1>1, AlwaysSound, PTL DEF Spec, OneOwnerPerStep
-----------------------------------------------------------------------------
(* A step displaces one row.                                               *)

\* Rows with the same positions are in the same order.
LEMMA BeforeAgrees ==
  ASSUME NEW pos, NEW new, NEW a, NEW b, new[a] = pos[a], new[b] = pos[b]
  PROVE  Before(new, a, b) <=> Before(pos, a, b)
BY DEF Before

\* Renumbering a group keeps the order in every group.
LEMMA ReorderGroupOrder ==
  ASSUME NEW rows, IsFiniteSet(DOMAIN rows), rows \in [DOMAIN rows -> ItemType],
         \A r \in DOMAIN rows : r \in Int, NEW g,
         NEW a \in DOMAIN rows, NEW b \in DOMAIN rows, rows[a].group = rows[b].group
  PROVE  Before(PositionsOf(ReorderGroup(rows, g)), a, b) <=> Before(PositionsOf(rows), a, b)
<1> DEFINE list == {i \in DOMAIN rows : rows[i].group = g}
           pos == Renumbered(list, PositionsOf(rows))
           next == PositionsOf(ReorderGroup(rows, g))
<1>1. \A r \in DOMAIN rows : rows[r].position \in Nat
  BY DEF ItemType
<1>2. Listed(list, PositionsOf(rows))
  BY <1>1, TableLists DEF Listed
<1>3. DOMAIN pos = list
  BY DEF Renumbered
<1>4. ReorderGroup(rows, g) = Repositioned(rows, pos)
  BY DEF ReorderGroup
<1>5. a \in list <=> b \in list
  OBVIOUS
<1>6. a \in list => (Before(pos, a, b) <=> Before(PositionsOf(rows), a, b))
  BY <1>2, <1>5, RenumberedKeepsOrder
<1> HIDE DEF list, pos
<1>7. \A r \in DOMAIN rows : next[r] = IF r \in list THEN pos[r] ELSE PositionsOf(rows)[r]
  BY <1>3, <1>4, RepositionedItemRows DEF PositionsOf
<1> HIDE DEF next
<1>8. CASE a \in list
  <2>1. next[a] = pos[a] /\ next[b] = pos[b]
    BY <1>5, <1>7, <1>8
  <2>2. Before(next, a, b) <=> Before(pos, a, b)
    BY <2>1, BeforeAgrees
  <2> QED
    BY <1>6, <1>8, <2>2 DEF next
<1>9. CASE a \notin list
  <2>1. next[a] = PositionsOf(rows)[a] /\ next[b] = PositionsOf(rows)[b]
    BY <1>5, <1>7, <1>9
  <2>2. Before(next, a, b) <=> Before(PositionsOf(rows), a, b)
    BY <2>1, BeforeAgrees
  <2> QED
    BY <2>2 DEF next
<1> QED
  BY <1>8, <1>9

\* Renumbering a column keeps the order in every column.
LEMMA ReorderColumnOrder ==
  ASSUME NEW rows, IsFiniteSet(DOMAIN rows), rows \in [DOMAIN rows -> GroupType],
         \A r \in DOMAIN rows : r \in Int, NEW u, NEW c,
         NEW a \in DOMAIN rows, NEW b \in DOMAIN rows, rows[a].user = rows[b].user, rows[a].column = rows[b].column
  PROVE  Before(PositionsOf(ReorderColumn(rows, u, c)), a, b) <=> Before(PositionsOf(rows), a, b)
<1> DEFINE list == {g \in DOMAIN rows : rows[g].user = u /\ rows[g].column = c}
           pos == Renumbered(list, PositionsOf(rows))
           next == PositionsOf(ReorderColumn(rows, u, c))
<1>1. \A r \in DOMAIN rows : rows[r].position \in Nat
  BY DEF GroupType
<1>2. Listed(list, PositionsOf(rows))
  BY <1>1, TableLists DEF Listed
<1>3. DOMAIN pos = list
  BY DEF Renumbered
<1>4. ReorderColumn(rows, u, c) = Repositioned(rows, pos)
  BY DEF ReorderColumn
<1>5. a \in list <=> b \in list
  OBVIOUS
<1>6. a \in list => (Before(pos, a, b) <=> Before(PositionsOf(rows), a, b))
  BY <1>2, <1>5, RenumberedKeepsOrder
<1> HIDE DEF list, pos
<1>7. \A r \in DOMAIN rows : next[r] = IF r \in list THEN pos[r] ELSE PositionsOf(rows)[r]
  BY <1>3, <1>4, RepositionedGroupRows DEF PositionsOf
<1> HIDE DEF next
<1>8. CASE a \in list
  <2>1. next[a] = pos[a] /\ next[b] = pos[b]
    BY <1>5, <1>7, <1>8
  <2>2. Before(next, a, b) <=> Before(pos, a, b)
    BY <2>1, BeforeAgrees
  <2> QED
    BY <1>6, <1>8, <2>2 DEF next
<1>9. CASE a \notin list
  <2>1. next[a] = PositionsOf(rows)[a] /\ next[b] = PositionsOf(rows)[b]
    BY <1>5, <1>7, <1>9
  <2>2. Before(next, a, b) <=> Before(PositionsOf(rows), a, b)
    BY <2>1, BeforeAgrees
  <2> QED
    BY <2>2 DEF next
<1> QED
  BY <1>8, <1>9

\* The rows that stay, but for x, stay together and in their order.
TilesStay(x) ==
  \A a, b \in Kept(items, items') \ {x} :
    items[a].group = items[b].group =>
      /\ items'[a].group = items'[b].group
      /\ Before(PositionsOf(items), a, b) <=> Before(PositionsOf(items'), a, b)
GroupsStay(x) ==
  \A a, b \in Kept(groups, groups') \ {x} :
    groups[a].user = groups[b].user /\ groups[a].column = groups[b].column =>
      /\ groups'[a].column = groups'[b].column
      /\ Before(PositionsOf(groups), a, b) <=> Before(PositionsOf(groups'), a, b)

\* Tiles that keep their group and position do.
LEMMA TilesAlone ==
  ASSUME \A i \in Kept(items, items') : /\ items'[i].group = items[i].group
                                        /\ items'[i].position = items[i].position
  PROVE  TilesStay(0)
BY BeforeAgrees DEF TilesStay, Kept, PositionsOf

\* Groups whose rows stay as they are keep their order.
LEMMA GroupsAlone ==
  ASSUME \A g \in Kept(groups, groups') : /\ groups'[g].column = groups[g].column
                                          /\ groups'[g].position = groups[g].position
  PROVE  GroupsStay(0)
BY BeforeAgrees DEF GroupsStay, Kept, PositionsOf

\* A call about a tile moves at most that tile.
LEMMA ItemStepOrder ==
  ASSUME TypeOK, NEW u \in Users, ItemStep(u)
  PROVE  \E x \in DOMAIN items \cup {0} : TilesStay(x)
<1>1. ASSUME NEW g, NEW url, CreateItem(u, g, url)
      PROVE  TilesStay(0)
  <2>1. lastItem + 1 \notin DOMAIN items
    BY ConstantsAssumption DEF TypeOK
  <2>2. \A i \in DOMAIN items : items'[i] = items[i]
    BY <1>1, <2>1 DEF CreateItem, WithRow
  <2> QED
    BY <2>2, TilesAlone DEF Kept
<1>2. ASSUME NEW i, NEW url, UpdateItem(u, i, url)
      PROVE  TilesStay(0)
  <2>1. \A k \in DOMAIN items : /\ items'[k].group = items[k].group
                                /\ items'[k].position = items[k].position
    BY <1>2 DEF UpdateItem, TypeOK, ItemType
  <2> QED
    BY <2>1, TilesAlone DEF Kept
<1>3. ASSUME NEW i \in DOMAIN items, NEW p \in AskedPositions, MoveItem(u, i, p)
      PROVE  TilesStay(i)
  <2> DEFINE list == InGroup(items[i].group)
             others == list \ {i}
             index == MoveItemIndex(list, PositionsOf(items), p)
             pos == InsertedAt(others, PositionsOf(items), i, index)
  <2>1. list \in SUBSET DOMAIN items /\ others \in SUBSET DOMAIN items
        /\ \A k \in DOMAIN items : k \in list <=> items[k].group = items[i].group
    BY DEF InGroup
  <2>2. /\ IsFiniteSet(list) /\ IsFiniteSet(others)
        /\ \A y \in list : PositionsOf(items)[y] \in Int
        /\ \A y \in list : PositionsOf(items)[y] = items[y].position
    BY <2>1, FiniteTables
  <2>3. index \in Nat
    <3>1. Cardinality(list) \in Nat /\ Cardinality(list) # 0 /\ p \in Int
      BY <2>1, <2>2, FS_CardinalityType, FS_EmptySet, ConstantsAssumption
    <3> HIDE DEF list, others
    <3>2. FirstAtLeast(list, PositionsOf(items), p) \in Int /\ Cardinality(list) - 1 \in Nat
      BY <2>2, <3>1, FirstAtLeastBound
    <3> QED
      BY <3>2, ClampBound DEF MoveItemIndex
  <2>4. DOMAIN pos = list
    BY <2>1 DEF InsertedAt
  <2>5. items' = Repositioned(items, pos)
    BY <1>3 DEF MoveItem
  <2> HIDE DEF list, index, others
  <2>6. \A a, b \in list \ {i} : Before(pos, a, b) <=> Before(PositionsOf(items), a, b)
    <3>1. Listed(others, PositionsOf(items))
      BY <2>1, FiniteTables
    <3>2. \A a, b \in others \ {i} : Before(pos, a, b) <=> Before(PositionsOf(items), a, b)
      BY <2>3, <3>1, InsertedKeepsOrder
    <3> QED
      BY <3>2 DEF others
  <2> HIDE DEF pos
  <2>7. /\ DOMAIN items' = DOMAIN items
        /\ \A k \in DOMAIN items :
             /\ items'[k].group = items[k].group
             /\ PositionsOf(items')[k] = IF k \in list THEN pos[k] ELSE PositionsOf(items)[k]
    <3>1. \A k \in DOMAIN items : PositionsOf(items)[k] = items[k].position
      BY FiniteTables
    <3>2. items \in [DOMAIN items -> ItemType]
      BY DEF TypeOK
    <3> QED
      BY <2>4, <2>5, <3>1, <3>2, RepositionedItemRows DEF SameItems
  <2>8. ASSUME NEW a \in DOMAIN items \ {i}, NEW b \in DOMAIN items \ {i},
               items[a].group = items[b].group
        PROVE  Before(PositionsOf(items), a, b) <=> Before(PositionsOf(items'), a, b)
    <3>1. CASE a \in list
      <4>1. /\ a \in list \ {i} /\ b \in list \ {i}
            /\ PositionsOf(items')[a] = pos[a] /\ PositionsOf(items')[b] = pos[b]
        BY <2>1, <2>7, <2>8, <3>1
      <4>2. Before(PositionsOf(items'), a, b) <=> Before(pos, a, b)
        BY <4>1, BeforeAgrees
      <4> QED
        BY <2>6, <4>1, <4>2
    <3>2. CASE a \notin list
      <4>1. /\ PositionsOf(items')[a] = PositionsOf(items)[a]
            /\ PositionsOf(items')[b] = PositionsOf(items)[b]
        BY <2>1, <2>7, <2>8, <3>2
      <4> QED
        BY <4>1, BeforeAgrees
    <3> QED
      BY <3>1, <3>2
  <2> QED
    BY <2>7, <2>8 DEF TilesStay, Kept
<1>4. ASSUME NEW i \in DOMAIN items, NEW g \in DOMAIN groups, NEW p \in AskedPositions,
             MoveItemToGroup(u, i, g, p)
      PROVE  TilesStay(i)
  <2> DEFINE neighbours == InGroup(g) \ {i}
             index == MoveItemToGroupIndex(neighbours, p)
             moved == [items EXCEPT ![i].group = g]
             pos == InsertedAt(neighbours, PositionsOf(items), i, index)
             landed == Repositioned(moved, pos)
  <2>1. /\ neighbours \in SUBSET DOMAIN items
        /\ \A k \in DOMAIN items \ {i} : k \in neighbours <=> items[k].group = g
    BY DEF InGroup
  <2>2. /\ IsFiniteSet(neighbours)
        /\ \A y \in neighbours : PositionsOf(items)[y] \in Int
        /\ \A y \in neighbours : PositionsOf(items)[y] = items[y].position
    BY <2>1, FiniteTables
  <2>3. index \in Nat
    BY <2>2, ClampedIndex, ConstantsAssumption DEF MoveItemToGroupIndex
  <2>4. DOMAIN pos = neighbours \cup {i}
    BY DEF InsertedAt
  <2> HIDE DEF neighbours, index
  <2>5. \A a, b \in neighbours \ {i} : Before(pos, a, b) <=> Before(PositionsOf(items), a, b)
    <3>1. Listed(neighbours, PositionsOf(items))
      BY <2>1, FiniteTables
    <3> QED
      BY <2>3, <3>1, InsertedKeepsOrder
  <2>6. /\ DOMAIN moved = DOMAIN items /\ moved \in [DOMAIN moved -> ItemType]
        /\ \A k \in DOMAIN items \ {i} : moved[k] = items[k]
    <3>1. g \in 1 .. MaxGroups
      BY ConstantsAssumption DEF TypeOK
    <3> QED
      BY <3>1 DEF TypeOK, ItemType
  <2>7. \A y \in DOMAIN pos : pos[y] \in Nat
    BY <2>2, <2>3, InsertedNat
  <2> HIDE DEF moved, pos
  <2>8. DOMAIN landed = DOMAIN items /\ landed \in [DOMAIN landed -> ItemType]
    BY <2>6, <2>7, RepositionedItems
  <2>9. \A k \in DOMAIN items \ {i} :
          /\ landed[k].group = items[k].group
          /\ PositionsOf(landed)[k] = IF k \in neighbours THEN pos[k] ELSE PositionsOf(items)[k]
    <3>1. \A k \in DOMAIN items : PositionsOf(items)[k] = items[k].position
      BY FiniteTables
    <3>2. /\ SameItems(moved, landed)
          /\ \A k \in DOMAIN moved :
               PositionsOf(landed)[k] = IF k \in DOMAIN pos THEN pos[k] ELSE moved[k].position
      BY <2>6, RepositionedItemRows
    <3> QED
      BY <2>4, <2>6, <3>1, <3>2 DEF SameItems
  <2> HIDE DEF landed
  <2>10. items' = landed \/ items' = ReorderGroup(landed, items[i].group)
    BY <1>4 DEF MoveItemToGroup, landed, moved, pos, neighbours, index
  <2>11. /\ DOMAIN items' = DOMAIN items
         /\ \A k \in DOMAIN items : items'[k].group = landed[k].group
         /\ \A a, b \in DOMAIN items : landed[a].group = landed[b].group =>
              (Before(PositionsOf(items'), a, b) <=> Before(PositionsOf(landed), a, b))
    <3>1. IsFiniteSet(DOMAIN landed) /\ \A r \in DOMAIN landed : r \in Int
      BY <2>8, FiniteTables DEF TypeOK
    <3> QED
      BY <2>8, <2>10, <3>1, ReorderGroupOthers, ReorderGroupOrder
  <2>12. ASSUME NEW a \in DOMAIN items \ {i}, NEW b \in DOMAIN items \ {i},
                items[a].group = items[b].group
         PROVE  /\ items'[a].group = items'[b].group
                /\ Before(PositionsOf(items), a, b) <=> Before(PositionsOf(items'), a, b)
    <3>1. landed[a].group = landed[b].group /\ (a \in neighbours <=> b \in neighbours)
      BY <2>1, <2>9, <2>12
    <3>2. Before(PositionsOf(landed), a, b) <=> Before(PositionsOf(items), a, b)
      <4>1. CASE a \in neighbours
        <5>1. /\ a \in neighbours \ {i} /\ b \in neighbours \ {i}
              /\ PositionsOf(landed)[a] = pos[a] /\ PositionsOf(landed)[b] = pos[b]
          BY <2>9, <3>1, <4>1
        <5>2. Before(PositionsOf(landed), a, b) <=> Before(pos, a, b)
          BY <5>1, BeforeAgrees
        <5> QED
          BY <2>5, <5>1, <5>2
      <4>2. CASE a \notin neighbours
        <5>1. /\ PositionsOf(landed)[a] = PositionsOf(items)[a]
              /\ PositionsOf(landed)[b] = PositionsOf(items)[b]
          BY <2>9, <3>1, <4>2
        <5> QED
          BY <5>1, BeforeAgrees
      <4> QED
        BY <4>1, <4>2
    <3> QED
      BY <2>11, <3>1, <3>2
  <2> QED
    BY <2>12 DEF TilesStay, Kept
<1>5. ASSUME NEW i \in DOMAIN items, DeleteItem(u, i)
      PROVE  TilesStay(0)
  <2> DEFINE left == WithoutRows(items, {i})
  <2>1. /\ DOMAIN left = DOMAIN items \ {i} /\ left \in [DOMAIN left -> ItemType]
        /\ \A k \in DOMAIN left : left[k] = items[k]
        /\ IsFiniteSet(DOMAIN left) /\ \A r \in DOMAIN left : r \in Int
    BY FiniteTables DEF WithoutRows, TypeOK
  <2> HIDE DEF left
  <2>2. items' = ReorderGroup(left, items[i].group)
    BY <1>5 DEF DeleteItem, left
  <2>3. /\ DOMAIN items' = DOMAIN left
        /\ \A k \in DOMAIN left : items'[k].group = left[k].group
        /\ \A a, b \in DOMAIN left : left[a].group = left[b].group =>
             (Before(PositionsOf(items'), a, b) <=> Before(PositionsOf(left), a, b))
    BY <2>1, <2>2, ReorderGroupOthers, ReorderGroupOrder
  <2>4. \A r \in DOMAIN left : PositionsOf(left)[r] = PositionsOf(items)[r]
    BY <2>1 DEF PositionsOf
  <2>5. \A a, b \in DOMAIN left : Before(PositionsOf(left), a, b) <=> Before(PositionsOf(items), a, b)
    BY <2>4, BeforeAgrees
  <2> QED
    BY <2>1, <2>3, <2>5 DEF TilesStay, Kept
<1>6. ASSUME NEW i \in DOMAIN items, IncrementVisitCount(u, i)
      PROVE  TilesStay(0)
  <2>1. \A k \in DOMAIN items : /\ items'[k].group = items[k].group
                                /\ items'[k].position = items[k].position
    BY <1>6 DEF IncrementVisitCount, TypeOK, ItemType
  <2> QED
    BY <2>1, TilesAlone DEF Kept
<1> QED
  BY <1>1, <1>2, <1>3, <1>4, <1>5, <1>6 DEF ItemStep

\* A call about a group moves at most that group.
LEMMA GroupStepOrder ==
  ASSUME TypeOK, NEW u \in Users, GroupStep(u)
  PROVE  \E x \in DOMAIN groups \cup {0} : GroupsStay(x)
<1>1. ASSUME NEW name, NEW c, CreateGroup(u, name, c)
      PROVE  GroupsStay(0)
  <2>1. lastGroup + 1 \notin DOMAIN groups
    BY ConstantsAssumption DEF TypeOK
  <2>2. \A g \in DOMAIN groups : groups'[g] = groups[g]
    BY <1>1, <2>1 DEF CreateGroup, WithRow
  <2> QED
    BY <2>2, GroupsAlone DEF Kept
<1>2. ASSUME NEW g, NEW name, UpdateGroup(u, g, name)
      PROVE  GroupsStay(0)
  <2>1. \A h \in DOMAIN groups : /\ groups'[h].column = groups[h].column
                                 /\ groups'[h].position = groups[h].position
    BY <1>2 DEF UpdateGroup, TypeOK, GroupType
  <2> QED
    BY <2>1, GroupsAlone DEF Kept
<1>3. ASSUME NEW g \in DOMAIN groups, NEW c \in 0 .. MaxColumns + 1, NEW p \in AskedPositions,
             MoveGroup(u, g, c, p)
      PROVE  GroupsStay(g)
  <2> DEFINE neighbours == InColumn(u, c) \ {g}
             index == Clamp(p, 0, Cardinality(neighbours))
             moved == [groups EXCEPT ![g].column = c]
             pos == InsertedAt(neighbours, PositionsOf(groups), g, index)
             landed == Repositioned(moved, pos)
  <2>1. /\ neighbours \in SUBSET DOMAIN groups
        /\ \A h \in DOMAIN groups \ {g} :
             h \in neighbours <=> groups[h].user = u /\ groups[h].column = c
    BY DEF InColumn, OwnedBy
  <2>2. /\ IsFiniteSet(neighbours)
        /\ \A y \in neighbours : PositionsOf(groups)[y] \in Int
        /\ \A y \in neighbours : PositionsOf(groups)[y] = groups[y].position
    BY <2>1, FiniteTables
  <2>3. index \in Nat
    BY <2>2, ClampedIndex, ConstantsAssumption
  <2>4. DOMAIN pos = neighbours \cup {g}
    BY DEF InsertedAt
  <2> HIDE DEF neighbours, index
  <2>5. \A a, b \in neighbours \ {g} : Before(pos, a, b) <=> Before(PositionsOf(groups), a, b)
    <3>1. Listed(neighbours, PositionsOf(groups))
      BY <2>1, FiniteTables
    <3> QED
      BY <2>3, <3>1, InsertedKeepsOrder
  <2>6. /\ DOMAIN moved = DOMAIN groups /\ moved \in [DOMAIN moved -> GroupType]
        /\ \A h \in DOMAIN groups \ {g} : moved[h] = groups[h]
    <3>1. c \in Int
      OBVIOUS
    <3> QED
      BY <3>1 DEF TypeOK, GroupType
  <2>7. \A y \in DOMAIN pos : pos[y] \in Nat
    BY <2>2, <2>3, InsertedNat
  <2> HIDE DEF moved, pos
  <2>8. DOMAIN landed = DOMAIN groups /\ landed \in [DOMAIN landed -> GroupType]
    BY <2>6, <2>7, RepositionedGroups
  <2>9. \A h \in DOMAIN groups \ {g} :
          /\ landed[h].user = groups[h].user /\ landed[h].column = groups[h].column
          /\ PositionsOf(landed)[h] = IF h \in neighbours THEN pos[h] ELSE PositionsOf(groups)[h]
    <3>1. \A h \in DOMAIN groups : PositionsOf(groups)[h] = groups[h].position
      BY FiniteTables
    <3>2. /\ SameGroups(moved, landed)
          /\ \A h \in DOMAIN moved :
               PositionsOf(landed)[h] = IF h \in DOMAIN pos THEN pos[h] ELSE moved[h].position
      BY <2>6, RepositionedGroupRows
    <3> QED
      BY <2>4, <2>6, <3>1, <3>2 DEF SameGroups
  <2> HIDE DEF landed
  <2>10. groups' = landed \/ groups' = ReorderColumn(landed, u, groups[g].column)
    BY <1>3 DEF MoveGroup, landed, moved, pos, neighbours, index
  <2>11. /\ DOMAIN groups' = DOMAIN groups
         /\ \A h \in DOMAIN groups : groups'[h].column = landed[h].column
         /\ \A a, b \in DOMAIN groups :
              landed[a].user = landed[b].user /\ landed[a].column = landed[b].column =>
              (Before(PositionsOf(groups'), a, b) <=> Before(PositionsOf(landed), a, b))
    <3>1. IsFiniteSet(DOMAIN landed) /\ \A r \in DOMAIN landed : r \in Int
      BY <2>8, FiniteTables DEF TypeOK
    <3> QED
      BY <2>8, <2>10, <3>1, ReorderColumnFields, ReorderColumnOrder DEF SameGroups
  <2>12. ASSUME NEW a \in DOMAIN groups \ {g}, NEW b \in DOMAIN groups \ {g},
                groups[a].user = groups[b].user, groups[a].column = groups[b].column
         PROVE  /\ groups'[a].column = groups'[b].column
                /\ Before(PositionsOf(groups), a, b) <=> Before(PositionsOf(groups'), a, b)
    <3>1. /\ landed[a].user = landed[b].user /\ landed[a].column = landed[b].column
          /\ a \in neighbours <=> b \in neighbours
      BY <2>1, <2>9, <2>12
    <3>2. Before(PositionsOf(landed), a, b) <=> Before(PositionsOf(groups), a, b)
      <4>1. CASE a \in neighbours
        <5>1. /\ a \in neighbours \ {g} /\ b \in neighbours \ {g}
              /\ PositionsOf(landed)[a] = pos[a] /\ PositionsOf(landed)[b] = pos[b]
          BY <2>9, <3>1, <4>1
        <5>2. Before(PositionsOf(landed), a, b) <=> Before(pos, a, b)
          BY <5>1, BeforeAgrees
        <5> QED
          BY <2>5, <5>1, <5>2
      <4>2. CASE a \notin neighbours
        <5>1. /\ PositionsOf(landed)[a] = PositionsOf(groups)[a]
              /\ PositionsOf(landed)[b] = PositionsOf(groups)[b]
          BY <2>9, <3>1, <4>2
        <5> QED
          BY <5>1, BeforeAgrees
      <4> QED
        BY <4>1, <4>2
    <3> QED
      BY <2>11, <3>1, <3>2
  <2> QED
    BY <2>12 DEF GroupsStay, Kept
<1>4. ASSUME NEW g \in DOMAIN groups, DeleteGroup(u, g)
      PROVE  GroupsStay(0)
  <2> DEFINE left == WithoutRows(groups, {g})
  <2>1. /\ DOMAIN left = DOMAIN groups \ {g} /\ left \in [DOMAIN left -> GroupType]
        /\ \A h \in DOMAIN left : left[h] = groups[h]
        /\ IsFiniteSet(DOMAIN left) /\ \A r \in DOMAIN left : r \in Int
    BY FiniteTables DEF WithoutRows, TypeOK
  <2> HIDE DEF left
  <2>2. groups' = ReorderColumn(left, u, groups[g].column)
    BY <1>4 DEF DeleteGroup, left
  <2>3. /\ DOMAIN groups' = DOMAIN left
        /\ \A h \in DOMAIN left : groups'[h].column = left[h].column
        /\ \A a, b \in DOMAIN left : left[a].user = left[b].user /\ left[a].column = left[b].column =>
             (Before(PositionsOf(groups'), a, b) <=> Before(PositionsOf(left), a, b))
    BY <2>1, <2>2, ReorderColumnFields, ReorderColumnOrder DEF SameGroups
  <2>4. \A r \in DOMAIN left : PositionsOf(left)[r] = PositionsOf(groups)[r]
    BY <2>1 DEF PositionsOf
  <2>5. \A a, b \in DOMAIN left : Before(PositionsOf(left), a, b) <=> Before(PositionsOf(groups), a, b)
    BY <2>4, BeforeAgrees
  <2> QED
    BY <2>1, <2>3, <2>5 DEF GroupsStay, Kept
<1> QED
  BY <1>1, <1>2, <1>3, <1>4 DEF GroupStep

\* What is done to a whole page changes no row of those that stay.
LEMMA PageStepKeeps ==
  ASSUME TypeOK, NEW u \in Users, PageStep(u)
  PROVE  /\ \A i \in Kept(items, items') : items'[i] = items[i]
         /\ \A g \in Kept(groups, groups') : groups'[g] = groups[g]
<1>1. ASSUME NEW width, UpdateColumns(u, width)
      PROVE  groups' = groups /\ items' = items
  BY <1>1 DEF UpdateColumns
<1>2. ASSUME DeleteUser(u)
      PROVE  /\ \A i \in Kept(items, items') : items'[i] = items[i]
             /\ \A g \in Kept(groups, groups') : groups'[g] = groups[g]
  BY <1>2 DEF DeleteUser, WithoutRows, Kept
<1>3. ASSUME NEW file \in Layouts, ReplaceStartPage(u, file)
      PROVE  /\ \A i \in Kept(items, items') : items'[i] = items[i]
             /\ \A g \in Kept(groups, groups') : groups'[g] = groups[g]
  <2> DEFINE newGroups == NewGroups(u, file)
             newItems == NewItems(file)
  <2>1. /\ DOMAIN newGroups = lastGroup + 1 .. lastGroup'
        /\ DOMAIN newItems = lastItem + 1 .. lastItem'
        /\ lastGroup \in Nat /\ lastItem \in Nat
    BY <1>3, NewRowsType, ConstantsAssumption DEF TypeOK
  <2>2. /\ groups' = Merge(WithoutRows(groups, OwnedBy(u)), newGroups)
        /\ items' = Merge(WithoutRows(items, TilesOf(u)), newItems)
    BY <1>3 DEF ReplaceStartPage
  <2> HIDE DEF newGroups, newItems
  <2>3. DOMAIN groups \cap DOMAIN newGroups = {} /\ DOMAIN items \cap DOMAIN newItems = {}
    BY <2>1 DEF TypeOK
  <2> QED
    BY <2>2, <2>3 DEF Merge, WithoutRows, Kept
<1> QED
  BY <1>1, <1>2, <1>3 DEF PageStep, Kept

\* So what is done to a whole page, or to groups and their tiles, moves no row
\* of those that stay.
LEMMA RowsStay ==
  ASSUME TypeOK, NEW u \in Users, PageStep(u) \/ \E g \in DOMAIN groups : DeleteGroup(u, g)
  PROVE  /\ TilesStay(0)
         /\ PageStep(u) => GroupsStay(0)
<1>1. ASSUME NEW g \in DOMAIN groups, DeleteGroup(u, g)
      PROVE  TilesStay(0)
  <2>1. \A i \in DOMAIN items' : items'[i] = items[i]
    BY <1>1 DEF DeleteGroup, WithoutRows
  <2> QED
    BY <2>1, TilesAlone DEF Kept
<1>2. ASSUME PageStep(u)
      PROVE  TilesStay(0) /\ GroupsStay(0)
  BY <1>2, PageStepKeeps, TilesAlone, GroupsAlone
<1> QED
  BY <1>1, <1>2

\* Whatever is renumbered around it, a step carries at most one tile past
\* another: the rest keep together and keep their order.
THEOREM TilesMoveOneAtATime == Spec => OneTileJumps
<1> DEFINE A == \E x \in DOMAIN items \cup {0} : \A a, b \in Kept(items, items') \ {x} :
                  items[a].group = items[b].group =>
                    /\ items'[a].group = items'[b].group
                    /\ Before(PositionsOf(items), a, b) <=> Before(PositionsOf(items'), a, b)
<1>1. TypeOK /\ [Next]_vars => [A]_vars
  <2> SUFFICES ASSUME TypeOK, Next
               PROVE  \E x \in DOMAIN items \cup {0} : TilesStay(x)
    BY DEF TilesStay
  <2>1. CASE CreateUser
    BY <2>1, TilesAlone DEF CreateUser
  <2>2. ASSUME NEW u \in Users, GroupStep(u)
        PROVE  TilesStay(0)
    <3>1. CASE items' = items
      BY <3>1, TilesAlone
    <3>2. CASE \E g \in DOMAIN groups : DeleteGroup(u, g)
      BY <3>2, RowsStay
    <3> QED
      BY <2>2, <3>1, <3>2 DEF GroupStep, CreateGroup, UpdateGroup, MoveGroup
  <2> QED
    BY <2>1, <2>2, ItemStepOrder, RowsStay DEF Next
<1> QED
  BY <1>1, TypeCorrect, PTL DEF Spec, OneTileJumps

\* The same for groups and columns.
THEOREM GroupsMoveOneAtATime == Spec => OneGroupJumps
<1> DEFINE A == \E x \in DOMAIN groups \cup {0} : \A a, b \in Kept(groups, groups') \ {x} :
                  groups[a].user = groups[b].user /\ groups[a].column = groups[b].column =>
                    /\ groups'[a].column = groups'[b].column
                    /\ Before(PositionsOf(groups), a, b) <=> Before(PositionsOf(groups'), a, b)
<1>1. TypeOK /\ [Next]_vars => [A]_vars
  <2> SUFFICES ASSUME TypeOK, Next
               PROVE  \E x \in DOMAIN groups \cup {0} : GroupsStay(x)
    BY DEF GroupsStay
  <2>1. CASE groups' = groups
    BY <2>1, GroupsAlone
  <2>2. ASSUME NEW u \in Users, ItemStep(u)
        PROVE  groups' = groups
    BY <2>2 DEF ItemStep, CreateItem, UpdateItem, MoveItem, MoveItemToGroup, DeleteItem,
                IncrementVisitCount
  <2> QED
    BY <2>1, <2>2, GroupStepOrder, RowsStay DEF Next, CreateUser
<1> QED
  BY <1>1, TypeCorrect, PTL DEF Spec, OneGroupJumps

\* A move or a delete of a group leaves the columns it takes from and puts in
\* numbered from 0, also when an import had given two of their groups one
\* position; nothing else changes a group's column or position.
THEOREM RewrittenColumnsAreNumbered == Spec => TouchedColumnsAreNumbered
<1> DEFINE A == \A u \in Users, c \in 1 .. MaxColumns :
                  (\E g \in OwnedBy(u) \cap DOMAIN groups' :
                     /\ c \in {groups[g].column, groups'[g].column}
                     /\ \/ groups'[g].column # groups[g].column
                        \/ groups'[g].position # groups[g].position)
                  => Compact(InColumn(u, c)', PositionsOf(groups'))
<1>1. TypeOK /\ [Next]_vars => [A]_vars
  <2> SUFFICES ASSUME TypeOK, Next, NEW u \in Users, NEW c \in 1 .. MaxColumns,
                      NEW g \in OwnedBy(u) \cap DOMAIN groups',
                      c \in {groups[g].column, groups'[g].column},
                      \/ groups'[g].column # groups[g].column
                      \/ groups'[g].position # groups[g].position
               PROVE  Compact(ColumnIn(groups', u, c), PositionsOf(groups'))
    <3>1. \A u, c : InColumn(u, c)' = ColumnIn(groups', u, c)
      BY DEF InColumn, OwnedBy, ColumnIn
    <3> QED
      BY <3>1
  <2>0. g \in DOMAIN groups /\ groups[g].user = u /\ g \in DOMAIN groups'
    BY DEF OwnedBy
  <2>1. ~(groups'[g].column = groups[g].column /\ groups'[g].position = groups[g].position)
    OBVIOUS
  <2>2. groups' # groups
    BY <2>1
  <2>3. PICK v \in Users : GroupStep(v) \/ PageStep(v)
    <3>1. ~CreateUser
      BY <2>2 DEF CreateUser
    <3>2. \A v \in Users : ~ItemStep(v)
      BY <2>2 DEF ItemStep, CreateItem, UpdateItem, MoveItem, MoveItemToGroup, DeleteItem,
                  IncrementVisitCount
    <3> QED
      BY <3>1, <3>2 DEF Next
  <2>4. ~PageStep(v)
    BY <2>0, <2>1, PageStepKeeps DEF Kept
  <2>5. ASSUME NEW name, NEW d, CreateGroup(v, name, d)
        PROVE  FALSE
    <3>1. lastGroup + 1 \notin DOMAIN groups
      BY ConstantsAssumption DEF TypeOK
    <3>2. groups'[g] = groups[g]
      BY <2>0, <2>5, <3>1 DEF CreateGroup, WithRow
    <3> QED
      BY <2>1, <3>2
  <2>6. ASSUME NEW h, NEW name, UpdateGroup(v, h, name)
        PROVE  FALSE
    <3>1. groups'[g].column = groups[g].column /\ groups'[g].position = groups[g].position
      BY <2>0, <2>6 DEF UpdateGroup, TypeOK, GroupType
    <3> QED
      BY <2>1, <3>1
  <2>7. ASSUME NEW h \in DOMAIN groups, NEW d \in 0 .. MaxColumns + 1, NEW p \in AskedPositions,
               MoveGroup(v, h, d, p)
        PROVE  Compact(ColumnIn(groups', u, c), PositionsOf(groups'))
    <3>1. d \in Int /\ p \in Int
      BY ConstantsAssumption
    <3>2. /\ groups[h].user = v
          /\ Compact(ColumnIn(groups', v, d), PositionsOf(groups'))
          /\ Compact(ColumnIn(groups', v, groups[h].column), PositionsOf(groups'))
          /\ \A w, k : <<w, k>> # <<v, d>> /\ <<w, k>> # <<v, groups[h].column>> =>
               SameColumn(groups, groups', w, k)
          /\ \A r \in DOMAIN groups \ {h} : groups'[r].column = groups[r].column
          /\ groups'[h].column = d
      BY <2>7, <3>1, MoveGroupColumns
    <3>3. CASE g = h
      BY <2>0, <3>2, <3>3
    <3>4. CASE g # h
      <4>1. c = groups[g].column /\ g \in ColumnIn(groups, u, c)
        BY <2>0, <3>2, <3>4 DEF ColumnIn
      <4>2. ~SameColumn(groups, groups', u, c)
        BY <2>0, <2>1, <3>2, <3>4, <4>1 DEF SameColumn, PositionsOf
      <4>3. <<u, c>> = <<v, d>> \/ <<u, c>> = <<v, groups[h].column>>
        BY <3>2, <4>2
      <4> QED
        BY <3>2, <4>3
    <3> QED
      BY <3>3, <3>4
  <2>8. ASSUME NEW h \in DOMAIN groups, DeleteGroup(v, h)
        PROVE  Compact(ColumnIn(groups', u, c), PositionsOf(groups'))
    <3>1. /\ Compact(ColumnIn(groups', v, groups[h].column), PositionsOf(groups'))
          /\ \A w, k : <<w, k>> # <<v, groups[h].column>> => SameColumn(groups, groups', w, k)
          /\ groups'[g].column = groups[g].column
      BY <2>0, <2>8, DeleteGroupColumns
    <3>2. c = groups[g].column /\ g \in ColumnIn(groups, u, c)
      BY <2>0, <3>1 DEF ColumnIn
    <3>3. ~SameColumn(groups, groups', u, c)
      BY <2>0, <2>1, <3>1, <3>2 DEF SameColumn, PositionsOf
    <3>4. <<u, c>> = <<v, groups[h].column>>
      BY <3>1, <3>3
    <3> QED
      BY <3>1, <3>4
  <2> QED
    BY <2>3, <2>4, <2>5, <2>6, <2>7, <2>8 DEF GroupStep
<1> QED
  BY <1>1, TypeCorrect, PTL DEF Spec, TouchedColumnsAreNumbered

-----------------------------------------------------------------------------
(* StartPage implements PageLists: what a call does to a list of rows, and *)
(* what the list that is drawn of it becomes.                              *)

\* What PageLists does to a list, in the words of Positions.
LEMMA ListOperators ==
  ASSUME NEW list, NEW x
  PROVE  /\ Lists!ToSet(list) = ToSet(list)
         /\ Lists!Drop(list, x) = RemoveFirst(list, x)
         /\ \A index \in Int : Len(RemoveFirst(list, x)) \in Nat =>
              Lists!PutAt(list, x, index) =
                InsertAt(RemoveFirst(list, x), Clamp(index, 0, Len(RemoveFirst(list, x))) + 1, x)
<1>1. Lists!ToSet(list) = ToSet(list)
  BY DEF Lists!ToSet, ToSet
<1>2. Lists!Drop(list, x) = RemoveFirst(list, x)
  BY DEF Lists!Drop, Lists!RemoveFirst, Lists!RemoveAt, Lists!SelectInSeq, Lists!Min,
         RemoveFirst, RemoveAt, SelectInSeq, Min
<1>3. \A index \in Int, length \in Nat : Lists!Within(index, length) = Clamp(index, 0, length)
  BY DEF Lists!Within, Clamp
<1>4. \A s, i : Lists!InsertAt(s, i, x) = InsertAt(s, i, x)
  BY DEF Lists!InsertAt, InsertAt
<1>5. ASSUME NEW index \in Int, Len(RemoveFirst(list, x)) \in Nat
      PROVE  Lists!PutAt(list, x, index) =
               InsertAt(RemoveFirst(list, x), Clamp(index, 0, Len(RemoveFirst(list, x))) + 1, x)
  BY <1>2, <1>3, <1>4, <1>5 DEF Lists!PutAt
<1> QED
  BY <1>1, <1>2, <1>5

\* What is drawn of a column and of a group, in any table.
DrawnColumn(rows, u, c) == Drawn(ColumnIn(rows, u, c), PositionsOf(rows))
DrawnGroup(rows, g) == Drawn(GroupIn(rows, g), PositionsOf(rows))

\* The grid of lists, before a step and after it.
LEMMA PageDrawn ==
  /\ Grid = [u \in DOMAIN columns |-> [c \in 1 .. MaxColumns |-> DrawnColumn(groups, u, c)]]
  /\ TilesOfGroups = [g \in DOMAIN groups |-> DrawnGroup(items, g)]
  /\ Grid' = [u \in DOMAIN columns' |-> [c \in 1 .. MaxColumns |-> DrawnColumn(groups', u, c)]]
  /\ TilesOfGroups' = [g \in DOMAIN groups' |-> DrawnGroup(items', g)]
<1>1. /\ \A u, c : InColumn(u, c) = ColumnIn(groups, u, c)
      /\ \A g : InGroup(g) = GroupIn(items, g)
      /\ \A u, c : InColumn(u, c)' = ColumnIn(groups', u, c)
      /\ \A g : InGroup(g)' = GroupIn(items', g)
  BY DEF InColumn, OwnedBy, ColumnIn, InGroup, GroupIn
<1> QED
  BY <1>1 DEF Grid, TilesOfGroups, DrawnColumn, DrawnGroup, Users, PositionsOf

\* The lists of a table can be drawn, in one way only, whatever their positions.
LEMMA ColumnsListed ==
  ASSUME NEW rows, IsFiniteSet(DOMAIN rows), rows \in [DOMAIN rows -> GroupType],
         \A r \in DOMAIN rows : r \in Int, NEW u, NEW c
  PROVE  Listed(ColumnIn(rows, u, c), PositionsOf(rows))
<1>1. ColumnIn(rows, u, c) \subseteq DOMAIN rows
  BY DEF ColumnIn
<1>2. \A r \in DOMAIN rows : rows[r].position \in Nat
  BY DEF GroupType
<1> QED
  BY <1>1, <1>2, TableLists DEF Listed

\* The same for the tiles of a group.
LEMMA GroupsListed ==
  ASSUME NEW rows, IsFiniteSet(DOMAIN rows), rows \in [DOMAIN rows -> ItemType],
         \A r \in DOMAIN rows : r \in Int, NEW g
  PROVE  Listed(GroupIn(rows, g), PositionsOf(rows))
<1>1. GroupIn(rows, g) \subseteq DOMAIN rows
  BY DEF GroupIn
<1>2. \A r \in DOMAIN rows : rows[r].position \in Nat
  BY DEF ItemType
<1> QED
  BY <1>1, <1>2, TableLists DEF Listed

\* Rows whose positions are the same are drawn the same.
LEMMA DrawnAgree ==
  ASSUME NEW list, NEW pos, NEW new, \A x \in list : new[x] = pos[x]
  PROVE  Drawn(list, new) = Drawn(list, pos)
<1>1. \A x, y \in list : Before(new, x, y) <=> Before(pos, x, y)
  BY BeforeAgrees
<1> QED
  BY <1>1, DrawnSame

\* Renumbering a column changes no list that is drawn.
LEMMA ReorderColumnDrawn ==
  ASSUME NEW rows, IsFiniteSet(DOMAIN rows), rows \in [DOMAIN rows -> GroupType],
         \A r \in DOMAIN rows : r \in Int, NEW u, NEW c, NEW v, NEW k
  PROVE  DrawnColumn(ReorderColumn(rows, u, c), v, k) = DrawnColumn(rows, v, k)
<1> DEFINE next == ReorderColumn(rows, u, c)
           list == ColumnIn(rows, v, k)
<1>1. SameGroups(rows, next)
  BY ReorderColumnFields
<1>2. ColumnIn(next, v, k) = list
  BY <1>1 DEF SameGroups, ColumnIn
<1>3. \A x, y \in list : Before(PositionsOf(next), x, y) <=> Before(PositionsOf(rows), x, y)
  BY ReorderColumnOrder DEF ColumnIn
<1> HIDE DEF next, list
<1>4. Drawn(list, PositionsOf(next)) = Drawn(list, PositionsOf(rows))
  BY <1>3, DrawnSame
<1> QED
  BY <1>2, <1>4 DEF DrawnColumn, next, list

\* Nor does renumbering a group of tiles.
LEMMA ReorderGroupDrawn ==
  ASSUME NEW rows, IsFiniteSet(DOMAIN rows), rows \in [DOMAIN rows -> ItemType],
         \A r \in DOMAIN rows : r \in Int, NEW g, NEW h
  PROVE  DrawnGroup(ReorderGroup(rows, g), h) = DrawnGroup(rows, h)
<1> DEFINE next == ReorderGroup(rows, g)
           list == GroupIn(rows, h)
<1>1. SameItems(rows, next)
  BY ReorderGroupFields
<1>2. GroupIn(next, h) = list
  BY <1>1 DEF SameItems, GroupIn
<1>3. \A x, y \in list : Before(PositionsOf(next), x, y) <=> Before(PositionsOf(rows), x, y)
  BY ReorderGroupOrder DEF GroupIn
<1> HIDE DEF next, list
<1>4. Drawn(list, PositionsOf(next)) = Drawn(list, PositionsOf(rows))
  BY <1>3, DrawnSame
<1> QED
  BY <1>2, <1>4 DEF DrawnGroup, next, list

\* A table that is to be drawn.
Page == TypeOK /\ Sound /\ CompactItems(items)

\* Its parts, in the terms the lemmas about lists ask for.
LEMMA PageFacts ==
  ASSUME Page
  PROVE  /\ IsFiniteSet(DOMAIN groups) /\ IsFiniteSet(DOMAIN items)
         /\ groups \in [DOMAIN groups -> GroupType] /\ items \in [DOMAIN items -> ItemType]
         /\ (\A g \in DOMAIN groups : g \in Int) /\ (\A i \in DOMAIN items : i \in Int)
         /\ \A u, c : Listed(ColumnIn(groups, u, c), PositionsOf(groups))
         /\ \A g : Listed(GroupIn(items, g), PositionsOf(items))
<1>1. IsFiniteSet(DOMAIN groups) /\ IsFiniteSet(DOMAIN items)
  BY FiniteTables DEF Page
<1>2. /\ groups \in [DOMAIN groups -> GroupType] /\ items \in [DOMAIN items -> ItemType]
      /\ (\A g \in DOMAIN groups : g \in Int) /\ (\A i \in DOMAIN items : i \in Int)
  BY DEF Page, TypeOK
<1> QED
  BY <1>1, <1>2, ColumnsListed, GroupsListed

\* What PageLists calls the groups of a user and the tiles of a group are the
\* rows that name them.
LEMMA PageHolds ==
  ASSUME Page
  PROVE  /\ \A u \in Users : Lists!GroupsOf(u) = OwnedBy(u)
         /\ \A g \in DOMAIN groups : Lists!ToSet(TilesOfGroups[g]) = GroupIn(items, g)
<1>1. \A u, c : ToSet(DrawnColumn(groups, u, c)) = ColumnIn(groups, u, c)
  BY PageFacts, DrawnHolds DEF DrawnColumn
<1>2. \A g : ToSet(DrawnGroup(items, g)) = GroupIn(items, g)
  BY PageFacts, DrawnHolds DEF DrawnGroup
<1>3. \A u \in Users : \A c \in 1 .. MaxColumns : Lists!ToSet(Grid[u][c]) = ColumnIn(groups, u, c)
  BY <1>1, PageDrawn, ListOperators DEF Users
<1>4. ASSUME NEW u \in Users
      PROVE  Lists!GroupsOf(u) = OwnedBy(u)
  <2>1. Lists!GroupsOf(u) = UNION {ColumnIn(groups, u, c) : c \in 1 .. MaxColumns}
    BY <1>3 DEF Lists!GroupsOf
  <2>2. \A g \in OwnedBy(u) : groups[g].column \in 1 .. MaxColumns
    BY ConstantsAssumption DEF OwnedBy, Page, Sound, NoGroupStranded, TypeOK
  <2> QED
    BY <2>1, <2>2 DEF OwnedBy, ColumnIn
<1> QED
  BY <1>2, <1>4, PageDrawn, ListOperators

-----------------------------------------------------------------------------
(* Groups.                                                                 *)

\* Every column but one looks as it did.
OtherColumnsKept(u, c) ==
  \A v, k : <<v, k>> # <<u, c>> => DrawnColumn(groups', v, k) = DrawnColumn(groups, v, k)

\* A created group is drawn last in its column.
LEMMA CreateGroupDrawn ==
  ASSUME Page, NEW u \in Users, NEW name \in Names, NEW c \in Int, CreateGroup(u, name, c)
  PROVE  /\ lastGroup + 1 \notin DOMAIN groups
         /\ DOMAIN groups' = DOMAIN groups \cup {lastGroup + 1}
         /\ DrawnColumn(groups', u, c) = Append(DrawnColumn(groups, u, c), lastGroup + 1)
         /\ OtherColumnsKept(u, c)
<1> DEFINE new == lastGroup + 1
           list == InColumn(u, c)
           pos == PositionsOf(groups)
           row == [user |-> u, column |-> c, name |-> name, position |-> NextPosition(list, pos)]
<1>1. new \notin DOMAIN groups /\ new \in Int
  BY ConstantsAssumption DEF Page, TypeOK
<1>2. groups' = WithRow(groups, new, row)
  BY DEF CreateGroup
<1>3. row.user = u /\ row.column = c /\ row.position = NextPosition(list, pos)
  OBVIOUS
<1>4. /\ list \in SUBSET DOMAIN groups /\ list = ColumnIn(groups, u, c)
      /\ IsFiniteSet(list) /\ \A y \in list : pos[y] \in Nat
  BY FiniteTables DEF InColumn, OwnedBy, ColumnIn, Page
<1>5. Listed(list, pos)
  BY <1>4, PageFacts
<1> HIDE DEF new, row, list
<1>6. /\ DOMAIN groups' = DOMAIN groups \cup {new} /\ groups'[new] = row
      /\ \A g \in DOMAIN groups : groups'[g] = groups[g]
  BY <1>1, <1>2 DEF WithRow
<1>7. /\ \A g \in DOMAIN groups : PositionsOf(groups')[g] = pos[g]
      /\ PositionsOf(groups')[new] = NextPosition(list, pos)
  BY <1>3, <1>6 DEF PositionsOf
<1>8. \A v, k : ColumnIn(groups', v, k) =
                  IF <<v, k>> = <<u, c>> THEN list \cup {new} ELSE ColumnIn(groups, v, k)
  BY <1>1, <1>3, <1>4, <1>6 DEF ColumnIn
<1>9. Drawn(list \cup {new}, PositionsOf(groups')) = Append(Drawn(list, pos), new)
  <2> HIDE DEF pos
  <2>1. \A y \in list : PositionsOf(groups')[y] = pos[y] /\ pos[y] < PositionsOf(groups')[new]
    BY <1>4, <1>7, NextPositionBound
  <2>2. PositionsOf(groups')[new] \in Int
    BY <1>4, <1>7, NextPositionBound
  <2>3. new \notin list
    BY <1>1, <1>4
  <2>4. PICK rows, before, after, g :
          rows = list /\ before = pos /\ after = PositionsOf(groups') /\ g = new
    OBVIOUS
  <2>5. /\ Listed(rows, before) /\ g \in Int /\ g \notin rows /\ after[g] \in Int
        /\ \A y \in rows : after[y] = before[y]
        /\ \A y \in rows : before[y] < after[g]
    BY <1>1, <1>5, <2>1, <2>2, <2>3, <2>4
  <2>6. PICK longer : longer = Append(Drawn(rows, before), g)
    OBVIOUS
  <2>7. Drawn(rows \cup {g}, after) = longer
    BY <2>5, <2>6, DrawnAppended
  <2> QED
    BY <2>4, <2>6, <2>7
<1>10. DrawnColumn(groups', u, c) = Append(DrawnColumn(groups, u, c), new)
  BY <1>4, <1>8, <1>9 DEF DrawnColumn
<1>11. ASSUME NEW v, NEW k, <<v, k>> # <<u, c>>
       PROVE  DrawnColumn(groups', v, k) = DrawnColumn(groups, v, k)
  <2>1. ColumnIn(groups', v, k) = ColumnIn(groups, v, k)
    BY <1>8, <1>11
  <2>2. \A g \in ColumnIn(groups, v, k) : PositionsOf(groups')[g] = pos[g]
    BY <1>7 DEF ColumnIn
  <2> QED
    BY <2>1, <2>2, DrawnAgree DEF DrawnColumn
<1> QED
  BY <1>1, <1>6, <1>10, <1>11 DEF new, OtherColumnsKept

\* A moved group is taken out of the column it is drawn in, and put in at the
\* index asked for; MoveGroup writes that in two steps.
LEMMA MoveGroupLanded ==
  ASSUME TypeOK, NEW u \in Users, NEW g \in DOMAIN groups, NEW c \in Int, NEW p \in Int,
         MoveGroup(u, g, c, p),
         NEW neighbours, neighbours = ColumnIn(groups, u, c) \ {g},
         NEW pos, pos = InsertedAt(neighbours, PositionsOf(groups), g,
                                   Clamp(p, 0, Cardinality(neighbours)))
  PROVE  \E landed :
           /\ DOMAIN landed = DOMAIN groups /\ landed \in [DOMAIN landed -> GroupType]
           /\ \A v, k : ColumnIn(landed, v, k) =
                IF <<v, k>> = <<u, c>> THEN neighbours \cup {g} ELSE ColumnIn(groups, v, k) \ {g}
           /\ \A r \in DOMAIN groups : PositionsOf(landed)[r] =
                IF r \in neighbours \cup {g} THEN pos[r] ELSE PositionsOf(groups)[r]
           /\ \/ groups' = landed
              \/ groups' = ReorderColumn(landed, u, groups[g].column)
<1> DEFINE moved == [groups EXCEPT ![g].column = c]
           landed == Repositioned(moved, pos)
<1>1. groups[g].user = u
  BY DEF MoveGroup, OwnedBy
<1>2. neighbours \in SUBSET DOMAIN groups /\ neighbours = InColumn(u, c) \ {g}
  BY DEF InColumn, OwnedBy, ColumnIn
<1>3. IsFiniteSet(neighbours) /\ \A y \in neighbours : PositionsOf(groups)[y] \in Int
  BY <1>2, FiniteTables
<1>4. Clamp(p, 0, Cardinality(neighbours)) \in Nat
  BY <1>3, ClampedIndex
<1>5. DOMAIN pos = neighbours \cup {g} /\ \A y \in DOMAIN pos : pos[y] \in Nat
  <2>1. PICK index \in Nat : index = Clamp(p, 0, Cardinality(neighbours))
    BY <1>4
  <2>2. \A y \in DOMAIN InsertedAt(neighbours, PositionsOf(groups), g, index) :
          InsertedAt(neighbours, PositionsOf(groups), g, index)[y] \in Nat
    BY <1>3, InsertedNat
  <2> QED
    BY <2>1, <2>2 DEF InsertedAt
<1>6. /\ DOMAIN moved = DOMAIN groups /\ moved \in [DOMAIN groups -> GroupType]
      /\ \A h \in DOMAIN groups : /\ moved[h].user = groups[h].user
                                  /\ moved[h].column = IF h = g THEN c ELSE groups[h].column
                                  /\ moved[h].position = groups[h].position
  BY DEF TypeOK, GroupType
<1>7. groups' = landed \/ groups' = ReorderColumn(landed, u, groups[g].column)
  BY <1>2 DEF MoveGroup
<1> HIDE DEF moved
<1>8. /\ SameGroups(moved, landed) /\ landed \in [DOMAIN landed -> GroupType]
      /\ \A r \in DOMAIN groups : PositionsOf(landed)[r] =
           IF r \in neighbours \cup {g} THEN pos[r] ELSE groups[r].position
  <2>1. moved \in [DOMAIN moved -> GroupType]
    BY <1>6
  <2>2. /\ SameGroups(moved, landed)
        /\ \A r \in DOMAIN moved : PositionsOf(landed)[r] =
             IF r \in DOMAIN pos THEN pos[r] ELSE moved[r].position
    BY <2>1, RepositionedGroupRows
  <2>3. DOMAIN landed = DOMAIN moved /\ landed \in [DOMAIN moved -> GroupType]
    BY <1>5, <2>1, RepositionedGroups
  <2> HIDE DEF landed
  <2> QED
    BY <1>5, <1>6, <2>2, <2>3
<1> HIDE DEF landed
<1>9. DOMAIN landed = DOMAIN groups
  BY <1>6, <1>8 DEF SameGroups
<1>10. \A v, k : ColumnIn(landed, v, k) =
                   IF <<v, k>> = <<u, c>> THEN neighbours \cup {g} ELSE ColumnIn(groups, v, k) \ {g}
  BY <1>1, <1>6, <1>8 DEF SameGroups, ColumnIn
<1>11. \A r \in DOMAIN groups : PositionsOf(groups)[r] = groups[r].position
  BY DEF PositionsOf
<1> QED
  BY <1>7, <1>8, <1>9, <1>10, <1>11

\* So it is drawn there, and every other column as it was without it.
LEMMA MoveGroupDrawn ==
  ASSUME Page, NEW u \in Users, NEW g \in DOMAIN groups, NEW c \in Int, NEW p \in Int,
         MoveGroup(u, g, c, p)
  PROVE  /\ DOMAIN groups' = DOMAIN groups
         /\ \A v, k : v # u => DrawnColumn(groups', v, k) = DrawnColumn(groups, v, k)
         /\ \A k : k # c => DrawnColumn(groups', u, k) = RemoveFirst(DrawnColumn(groups, u, k), g)
         /\ Len(RemoveFirst(DrawnColumn(groups, u, c), g)) \in Nat
         /\ DrawnColumn(groups', u, c) =
              InsertAt(RemoveFirst(DrawnColumn(groups, u, c), g),
                       Clamp(p, 0, Len(RemoveFirst(DrawnColumn(groups, u, c), g))) + 1, g)
<1> DEFINE before == PositionsOf(groups)
<1>0. PICK neighbours, index, pos : /\ neighbours = ColumnIn(groups, u, c) \ {g}
                                    /\ index = Clamp(p, 0, Cardinality(neighbours))
                                    /\ pos = InsertedAt(neighbours, before, g, index)
  OBVIOUS
<1>1. TypeOK /\ groups[g].user = u
  BY DEF MoveGroup, OwnedBy, Page
<1>2. PICK landed :
        /\ DOMAIN landed = DOMAIN groups /\ landed \in [DOMAIN landed -> GroupType]
        /\ \A v, k : ColumnIn(landed, v, k) =
             IF <<v, k>> = <<u, c>> THEN neighbours \cup {g} ELSE ColumnIn(groups, v, k) \ {g}
        /\ \A r \in DOMAIN groups : PositionsOf(landed)[r] =
             IF r \in neighbours \cup {g} THEN pos[r] ELSE before[r]
        /\ \/ groups' = landed
           \/ groups' = ReorderColumn(landed, u, groups[g].column)
  BY <1>0, <1>1, MoveGroupLanded
<1>3. IsFiniteSet(DOMAIN landed) /\ (\A r \in DOMAIN landed : r \in Int) /\ g \in Int
  BY <1>2, PageFacts
<1>4. \A v, k : DrawnColumn(groups', v, k) = DrawnColumn(landed, v, k)
  BY <1>2, <1>3, ReorderColumnDrawn
<1>5. DOMAIN groups' = DOMAIN groups
  BY <1>2, ReorderColumnFields DEF SameGroups
<1>6. \A v, k : Listed(ColumnIn(groups, v, k), before)
  BY PageFacts
<1>7. Listed(neighbours, before) /\ neighbours \subseteq DOMAIN groups /\ g \notin neighbours
  <2>1. neighbours \subseteq ColumnIn(groups, u, c)
    BY <1>0
  <2>2. Listed(neighbours, before)
    BY <1>6, <2>1, ListedPart
  <2> QED
    BY <1>0, <2>1, <2>2 DEF ColumnIn
<1>8. Drawn(neighbours, before) = RemoveFirst(DrawnColumn(groups, u, c), g)
  BY <1>0, <1>6, DrawnWithout DEF DrawnColumn
<1>9. index \in 0 .. Cardinality(neighbours)
  BY <1>0, <1>7, ClampedIndex DEF Listed
<1>10. /\ Len(Drawn(neighbours, before)) = Cardinality(neighbours)
       /\ Cardinality(neighbours) \in Nat
  BY <1>7, DrawnFacts
<1>11. ColumnIn(landed, u, c) = neighbours \cup {g}
  BY <1>2
<1>12. Drawn(neighbours \cup {g}, pos) = InsertAt(Drawn(neighbours, before), index + 1, g)
  <2> HIDE DEF before
  <2> QED
    BY <1>0, <1>3, <1>7, <1>9, DrawnInserted
<1>13. DrawnColumn(landed, u, c) = InsertAt(Drawn(neighbours, before), index + 1, g)
  <2>1. \A r \in neighbours \cup {g} : PositionsOf(landed)[r] = pos[r]
    BY <1>2, <1>7
  <2>2. Drawn(neighbours \cup {g}, PositionsOf(landed)) = Drawn(neighbours \cup {g}, pos)
    BY <2>1, DrawnAgree
  <2> QED
    BY <1>11, <1>12, <2>2 DEF DrawnColumn
<1>14. ASSUME NEW v, NEW k, <<v, k>> # <<u, c>>
       PROVE  DrawnColumn(landed, v, k) = RemoveFirst(DrawnColumn(groups, v, k), g)
  <2>1. ColumnIn(landed, v, k) = ColumnIn(groups, v, k) \ {g}
    BY <1>2, <1>14
  <2>2. \A r \in ColumnIn(groups, v, k) \ {g} : r \in DOMAIN groups /\ r \notin neighbours \cup {g}
    BY <1>0, <1>14 DEF ColumnIn
  <2>3. \A r \in ColumnIn(groups, v, k) \ {g} : PositionsOf(landed)[r] = before[r]
    BY <1>2, <2>2
  <2>4. DrawnColumn(landed, v, k) = Drawn(ColumnIn(groups, v, k) \ {g}, before)
    BY <2>1, <2>3, DrawnAgree DEF DrawnColumn
  <2> QED
    BY <1>6, <2>4, DrawnWithout DEF DrawnColumn
<1>15. ASSUME NEW v, NEW k, v # u
       PROVE  DrawnColumn(landed, v, k) = DrawnColumn(groups, v, k)
  <2>1. ColumnIn(landed, v, k) = ColumnIn(groups, v, k) \ {g}
    BY <1>2, <1>15
  <2>2. g \notin ColumnIn(groups, v, k)
    BY <1>1, <1>15 DEF ColumnIn
  <2>3. \A r \in ColumnIn(groups, v, k) : r \in DOMAIN groups /\ r \notin neighbours \cup {g}
    BY <1>0, <1>15, <2>2 DEF ColumnIn
  <2>4. ColumnIn(landed, v, k) = ColumnIn(groups, v, k)
    BY <2>1, <2>2
  <2>5. \A r \in ColumnIn(groups, v, k) : PositionsOf(landed)[r] = before[r]
    BY <1>2, <2>3
  <2> QED
    BY <2>4, <2>5, DrawnAgree DEF DrawnColumn
<1> QED
  BY <1>0, <1>4, <1>5, <1>8, <1>10, <1>13, <1>14, <1>15

\* A deleted group is taken out of its column, and no other list changes.
LEMMA DeleteGroupDrawn ==
  ASSUME Page, NEW u \in Users, NEW g \in DOMAIN groups, DeleteGroup(u, g)
  PROVE  /\ DOMAIN groups' = DOMAIN groups \ {g}
         /\ \A v, k : v # u => DrawnColumn(groups', v, k) = DrawnColumn(groups, v, k)
         /\ \A k : DrawnColumn(groups', u, k) = RemoveFirst(DrawnColumn(groups, u, k), g)
         /\ \A h \in DOMAIN groups' : DrawnGroup(items', h) = DrawnGroup(items, h)
<1> DEFINE left == WithoutRows(groups, {g})
<1>1. groups[g].user = u
  BY DEF DeleteGroup, OwnedBy
<1>2. /\ DOMAIN left = DOMAIN groups \ {g} /\ IsFiniteSet(DOMAIN left)
      /\ left \in [DOMAIN left -> GroupType] /\ \A h \in DOMAIN left : h \in Int
      /\ \A h \in DOMAIN left : left[h] = groups[h]
  BY FiniteTables DEF WithoutRows, TypeOK, Page
<1>3. groups' = ReorderColumn(left, u, groups[g].column)
  BY DEF DeleteGroup
<1> HIDE DEF left
<1>4. \A v, k : ColumnIn(left, v, k) = ColumnIn(groups, v, k) \ {g}
  BY <1>2 DEF ColumnIn
<1>5. \A r \in DOMAIN left : PositionsOf(left)[r] = PositionsOf(groups)[r]
  BY <1>2 DEF PositionsOf
<1>6. \A v, k : DrawnColumn(groups', v, k) = DrawnColumn(left, v, k)
  BY <1>2, <1>3, ReorderColumnDrawn
<1>7. DOMAIN groups' = DOMAIN groups \ {g}
  BY <1>2, <1>3, ReorderColumnFields DEF SameGroups
<1>8. ASSUME NEW v, NEW k
      PROVE  DrawnColumn(left, v, k) = Drawn(ColumnIn(groups, v, k) \ {g}, PositionsOf(groups))
  <2>1. \A r \in ColumnIn(groups, v, k) \ {g} : PositionsOf(left)[r] = PositionsOf(groups)[r]
    BY <1>2, <1>5 DEF ColumnIn
  <2> QED
    BY <1>4, <2>1, DrawnAgree DEF DrawnColumn
<1>9. ASSUME NEW v, NEW k, v # u
      PROVE  DrawnColumn(left, v, k) = DrawnColumn(groups, v, k)
  <2>1. ColumnIn(groups, v, k) \ {g} = ColumnIn(groups, v, k)
    BY <1>1, <1>9 DEF ColumnIn
  <2> QED
    BY <1>8, <2>1 DEF DrawnColumn
<1>10. ASSUME NEW k
       PROVE  DrawnColumn(left, u, k) = RemoveFirst(DrawnColumn(groups, u, k), g)
  <2>1. Listed(ColumnIn(groups, u, k), PositionsOf(groups))
    BY PageFacts
  <2>2. Drawn(ColumnIn(groups, u, k) \ {g}, PositionsOf(groups))
          = RemoveFirst(Drawn(ColumnIn(groups, u, k), PositionsOf(groups)), g)
    BY <2>1, DrawnWithout
  <2> QED
    BY <1>8, <2>2 DEF DrawnColumn
<1>11. /\ DOMAIN items' = DOMAIN items \ InGroup(g)
       /\ \A i \in DOMAIN items' : items'[i] = items[i]
  BY DEF DeleteGroup, WithoutRows
<1>12. ASSUME NEW h, h # g
       PROVE  DrawnGroup(items', h) = DrawnGroup(items, h)
  <2>1. GroupIn(items', h) = GroupIn(items, h)
    BY <1>11, <1>12 DEF GroupIn, InGroup
  <2>2. \A r \in GroupIn(items, h) : PositionsOf(items')[r] = PositionsOf(items)[r]
    BY <1>11, <1>12 DEF GroupIn, InGroup, PositionsOf
  <2> QED
    BY <2>1, <2>2, DrawnAgree DEF DrawnGroup
<1> QED
  BY <1>6, <1>7, <1>9, <1>10, <1>12

-----------------------------------------------------------------------------
(* Tiles.                                                                  *)

\* A created tile is drawn last in its group.
LEMMA CreateItemDrawn ==
  ASSUME Page, NEW u \in Users, NEW g \in DOMAIN groups, NEW url \in Urls, CreateItem(u, g, url)
  PROVE  /\ lastItem + 1 \notin DOMAIN items
         /\ DrawnGroup(items', g) = Append(DrawnGroup(items, g), lastItem + 1)
         /\ \A h : h # g => DrawnGroup(items', h) = DrawnGroup(items, h)
<1> DEFINE row == [group |-> g, url |-> url, visits |-> 0,
                   position |-> NextPosition(InGroup(g), PositionsOf(items))]
<1>1. PICK new, list, pos, after :
        new = lastItem + 1 /\ list = InGroup(g) /\ pos = PositionsOf(items) /\ after = PositionsOf(items')
  OBVIOUS
<1>2. new \notin DOMAIN items /\ new \in Int
  BY <1>1, ConstantsAssumption DEF Page, TypeOK
<1>3. items' = WithRow(items, new, row)
  BY <1>1 DEF CreateItem
<1>4. row.group = g /\ row.position = NextPosition(list, pos)
  BY <1>1
<1>5. /\ list \in SUBSET DOMAIN items /\ list = GroupIn(items, g)
      /\ IsFiniteSet(list) /\ \A y \in list : pos[y] \in Nat
  BY <1>1, FiniteTables DEF InGroup, GroupIn, Page
<1>6. Listed(list, pos)
  BY <1>1, <1>5, PageFacts
<1> HIDE DEF row
<1>7. /\ DOMAIN items' = DOMAIN items \cup {new} /\ items'[new] = row
      /\ \A i \in DOMAIN items : items'[i] = items[i]
  BY <1>2, <1>3 DEF WithRow
<1>8. /\ \A i \in DOMAIN items : after[i] = pos[i]
      /\ after[new] = NextPosition(list, pos)
  BY <1>1, <1>4, <1>7 DEF PositionsOf
<1>9. \A h : GroupIn(items', h) = IF h = g THEN list \cup {new} ELSE GroupIn(items, h)
  BY <1>2, <1>4, <1>5, <1>7 DEF GroupIn
<1>10. PICK longer : longer = Append(Drawn(list, pos), new)
  OBVIOUS
<1>11. Drawn(list \cup {new}, after) = longer
  <2>1. \A y \in list : after[y] = pos[y]
    BY <1>5, <1>8
  <2>2. (\A y \in list : pos[y] < after[new]) /\ after[new] \in Int
    BY <1>5, <1>8, NextPositionBound
  <2> QED
    BY <1>2, <1>5, <1>6, <1>10, <2>1, <2>2, DrawnAppended
<1>12. DrawnGroup(items', g) = longer /\ Drawn(list, pos) = DrawnGroup(items, g)
  BY <1>1, <1>5, <1>9, <1>11 DEF DrawnGroup
<1>13. ASSUME NEW h, h # g
       PROVE  DrawnGroup(items', h) = DrawnGroup(items, h)
  <2>1. GroupIn(items', h) = GroupIn(items, h)
    BY <1>9, <1>13
  <2>2. \A i \in GroupIn(items, h) : after[i] = pos[i]
    BY <1>8 DEF GroupIn
  <2> QED
    BY <1>1, <2>1, <2>2, DrawnAgree DEF DrawnGroup
<1> QED
  BY <1>1, <1>2, <1>10, <1>12, <1>13

\* A tile put in at an index of a group, out of the one it was in: what both
\* moves come to, once the group it leaves is renumbered or need not be.
CarriedTo(i, g, p) ==
  /\ \A h : h # g => DrawnGroup(items', h) = RemoveFirst(DrawnGroup(items, h), i)
  /\ Len(RemoveFirst(DrawnGroup(items, g), i)) \in Nat
  /\ DrawnGroup(items', g) =
       InsertAt(RemoveFirst(DrawnGroup(items, g), i),
                Clamp(p, 0, Len(RemoveFirst(DrawnGroup(items, g), i))) + 1, i)

\* A table in which the tile has landed among its new neighbours is drawn so.
LEMMA LandedDrawn ==
  ASSUME Page, NEW i \in DOMAIN items, NEW g, NEW p \in Int,
         NEW neighbours, neighbours = GroupIn(items, g) \ {i},
         NEW pos, pos = InsertedAt(neighbours, PositionsOf(items), i,
                                   Clamp(p, 0, Cardinality(neighbours))),
         NEW landed,
         \A h : GroupIn(landed, h) = IF h = g THEN neighbours \cup {i} ELSE GroupIn(items, h) \ {i},
         \A r \in DOMAIN items : PositionsOf(landed)[r] =
           IF r \in neighbours \cup {i} THEN pos[r] ELSE PositionsOf(items)[r],
         \A h : DrawnGroup(items', h) = DrawnGroup(landed, h)
  PROVE  CarriedTo(i, g, p)
<1>1. PICK before, index : /\ before = PositionsOf(items)
                           /\ index = Clamp(p, 0, Cardinality(neighbours))
  OBVIOUS
<1>2. \A h : Listed(GroupIn(items, h), before)
  BY <1>1, PageFacts
<1>3. Listed(neighbours, before) /\ neighbours \subseteq DOMAIN items /\ i \notin neighbours
  <2>1. neighbours \subseteq GroupIn(items, g)
    OBVIOUS
  <2>2. Listed(neighbours, before)
    BY <1>2, <2>1, ListedPart
  <2> QED
    BY <2>1, <2>2 DEF GroupIn
<1>4. Drawn(neighbours, before) = RemoveFirst(DrawnGroup(items, g), i)
  BY <1>1, <1>2, DrawnWithout DEF DrawnGroup
<1>5. index \in 0 .. Cardinality(neighbours)
  BY <1>1, <1>3, ClampedIndex DEF Listed
<1>6. Len(Drawn(neighbours, before)) = Cardinality(neighbours) /\ Cardinality(neighbours) \in Nat
  BY <1>3, DrawnFacts
<1>7. Drawn(neighbours \cup {i}, pos) = InsertAt(Drawn(neighbours, before), index + 1, i)
  <2>1. i \in Int
    BY PageFacts
  <2> QED
    BY <1>1, <1>3, <1>5, <2>1, DrawnInserted
<1>8. DrawnGroup(landed, g) = InsertAt(Drawn(neighbours, before), index + 1, i)
  <2>1. \A r \in neighbours \cup {i} : PositionsOf(landed)[r] = pos[r]
    BY <1>3
  <2>2. Drawn(neighbours \cup {i}, PositionsOf(landed)) = Drawn(neighbours \cup {i}, pos)
    BY <2>1, DrawnAgree
  <2> QED
    BY <1>7, <2>2 DEF DrawnGroup
<1>9. ASSUME NEW h, h # g
      PROVE  DrawnGroup(landed, h) = RemoveFirst(DrawnGroup(items, h), i)
  <2>1. GroupIn(landed, h) = GroupIn(items, h) \ {i}
    BY <1>9
  <2>2. \A r \in GroupIn(items, h) \ {i} : r \in DOMAIN items /\ r \notin neighbours \cup {i}
    BY <1>9 DEF GroupIn
  <2>3. \A r \in GroupIn(items, h) \ {i} : PositionsOf(landed)[r] = before[r]
    BY <1>1, <2>2
  <2>4. DrawnGroup(landed, h) = Drawn(GroupIn(items, h) \ {i}, before)
    BY <2>1, <2>3, DrawnAgree DEF DrawnGroup
  <2> QED
    BY <1>1, <1>2, <2>4, DrawnWithout DEF DrawnGroup
<1> QED
  BY <1>1, <1>4, <1>6, <1>8, <1>9 DEF CarriedTo

\* Writing positions over tiles of any table, once more: what it looks like.
LEMMA LandedItems ==
  ASSUME NEW moved, moved \in [DOMAIN moved -> ItemType], NEW pos, \A y \in DOMAIN pos : pos[y] \in Nat
  PROVE  /\ DOMAIN Repositioned(moved, pos) = DOMAIN moved
         /\ Repositioned(moved, pos) \in [DOMAIN moved -> ItemType]
         /\ \A h : GroupIn(Repositioned(moved, pos), h) = GroupIn(moved, h)
         /\ \A r \in DOMAIN moved : PositionsOf(Repositioned(moved, pos))[r] =
              IF r \in DOMAIN pos THEN pos[r] ELSE moved[r].position
<1>1. /\ SameItems(moved, Repositioned(moved, pos))
      /\ \A r \in DOMAIN moved : PositionsOf(Repositioned(moved, pos))[r] =
           IF r \in DOMAIN pos THEN pos[r] ELSE moved[r].position
  BY RepositionedItemRows
<1>2. /\ DOMAIN Repositioned(moved, pos) = DOMAIN moved
      /\ Repositioned(moved, pos) \in [DOMAIN moved -> ItemType]
  BY RepositionedItems
<1> QED
  BY <1>1, <1>2 DEF SameItems, GroupIn

\* A tile moved to a group is carried there.
LEMMA MoveItemToGroupDrawn ==
  ASSUME Page, NEW u \in Users, NEW i \in DOMAIN items, NEW g \in DOMAIN groups, NEW p \in Int,
         MoveItemToGroup(u, i, g, p)
  PROVE  CarriedTo(i, g, p)
<1> DEFINE moved == [items EXCEPT ![i].group = g]
<1>1. PICK neighbours, index, pos :
        /\ neighbours = GroupIn(items, g) \ {i}
        /\ index = Clamp(p, 0, Cardinality(neighbours))
        /\ pos = InsertedAt(neighbours, PositionsOf(items), i, index)
  OBVIOUS
<1>2. neighbours \in SUBSET DOMAIN items /\ neighbours = InGroup(g) \ {i}
  BY <1>1 DEF InGroup, GroupIn
<1>3. IsFiniteSet(neighbours) /\ \A y \in neighbours : PositionsOf(items)[y] \in Int
  BY <1>2, FiniteTables DEF Page
<1>4. DOMAIN pos = neighbours \cup {i} /\ \A y \in DOMAIN pos : pos[y] \in Nat
  <2>1. index \in Nat
    BY <1>1, <1>3, ClampedIndex
  <2> QED
    BY <1>1, <1>3, <2>1, InsertedNat DEF InsertedAt
<1>5. /\ DOMAIN moved = DOMAIN items /\ moved \in [DOMAIN moved -> ItemType]
      /\ \A k \in DOMAIN items : /\ moved[k].group = IF k = i THEN g ELSE items[k].group
                                 /\ moved[k].position = items[k].position
  <2>1. g \in 1 .. MaxGroups
    BY ConstantsAssumption DEF TypeOK, Page
  <2> QED
    BY <2>1 DEF TypeOK, ItemType, Page
<1>6. \/ items' = Repositioned(moved, pos)
      \/ items' = ReorderGroup(Repositioned(moved, pos), items[i].group)
  BY <1>1, <1>2 DEF MoveItemToGroup, MoveItemToGroupIndex
<1> HIDE DEF moved
<1>7. PICK landed :
        /\ landed = Repositioned(moved, pos)
        /\ DOMAIN landed = DOMAIN items /\ landed \in [DOMAIN landed -> ItemType]
        /\ \A h : GroupIn(landed, h) = GroupIn(moved, h)
        /\ \A r \in DOMAIN items : PositionsOf(landed)[r] =
             IF r \in neighbours \cup {i} THEN pos[r] ELSE moved[r].position
  BY <1>4, <1>5, LandedItems
<1>8. \A h : DrawnGroup(items', h) = DrawnGroup(landed, h)
  <2>1. IsFiniteSet(DOMAIN landed) /\ \A r \in DOMAIN landed : r \in Int
    BY <1>7, PageFacts
  <2> QED
    BY <1>6, <1>7, <2>1, ReorderGroupDrawn
<1>9. ASSUME NEW h
      PROVE  GroupIn(landed, h) = IF h = g THEN neighbours \cup {i} ELSE GroupIn(items, h) \ {i}
  <2>1. GroupIn(moved, h) = {k \in DOMAIN items : (IF k = i THEN g ELSE items[k].group) = h}
    BY <1>5 DEF GroupIn
  <2>2. GroupIn(items, h) = {k \in DOMAIN items : items[k].group = h}
    BY DEF GroupIn
  <2>3. CASE h = g
    <3>1. neighbours \cup {i} = GroupIn(items, h) \cup {i}
      BY <1>1, <2>3
    <3> QED
      BY <1>7, <2>1, <2>2, <2>3, <3>1
  <2>4. CASE h # g
    BY <1>7, <2>1, <2>2, <2>4
  <2> QED
    BY <2>3, <2>4
<1>10. \A r \in DOMAIN items : PositionsOf(landed)[r] =
         IF r \in neighbours \cup {i} THEN pos[r] ELSE PositionsOf(items)[r]
  BY <1>5, <1>7 DEF PositionsOf
<1> QED
  BY <1>1, <1>8, <1>9, <1>10, LandedDrawn

\* A tile moved inside its group is carried to it, at the same index: of a
\* compact list the row at a position is the one with that index.
LEMMA MoveItemDrawn ==
  ASSUME Page, NEW u \in Users, NEW i \in DOMAIN items, NEW p \in Int, MoveItem(u, i, p)
  PROVE  CarriedTo(i, items[i].group, p)
<1>1. PICK g, list, neighbours, index, pos :
        /\ g = items[i].group /\ list = GroupIn(items, g) /\ neighbours = list \ {i}
        /\ index = Clamp(p, 0, Cardinality(neighbours))
        /\ pos = InsertedAt(neighbours, PositionsOf(items), i, index)
  OBVIOUS
<1>2. list \in SUBSET DOMAIN items /\ list = InGroup(g) /\ i \in list
  BY <1>1 DEF InGroup, GroupIn
<1>3. IsFiniteSet(list) /\ IsFiniteSet(neighbours) /\ \A y \in list : PositionsOf(items)[y] \in Int
  BY <1>1, <1>2, FiniteTables DEF Page
<1>4. MoveItemIndex(list, PositionsOf(items), p) = index
  <2>1. Compact(list, PositionsOf(items))
    BY <1>1 DEF Page, CompactItems
  <2>2. FirstAtLeast(list, PositionsOf(items), p) = Clamp(p, 0, Cardinality(list))
    BY <1>3, <2>1, CompactIndex
  <2>3. /\ Cardinality(list) \in Nat /\ Cardinality(list) # 0
        /\ Cardinality(neighbours) = Cardinality(list) - 1
    BY <1>1, <1>2, <1>3, FS_CardinalityType, FS_EmptySet, FS_RemoveElement
  <2> QED
    BY <1>1, <2>2, <2>3 DEF MoveItemIndex, Clamp
<1>5. DOMAIN pos = neighbours \cup {i} /\ \A y \in DOMAIN pos : pos[y] \in Nat
  <2>1. index \in Nat
    BY <1>1, <1>3, ClampedIndex
  <2>2. \A y \in neighbours : PositionsOf(items)[y] \in Int
    BY <1>1, <1>3
  <2>3. \A y \in DOMAIN InsertedAt(neighbours, PositionsOf(items), i, index) :
          InsertedAt(neighbours, PositionsOf(items), i, index)[y] \in Nat
    BY <1>3, <2>1, <2>2, InsertedNat
  <2>4. DOMAIN InsertedAt(neighbours, PositionsOf(items), i, index) = neighbours \cup {i}
    BY DEF InsertedAt
  <2> QED
    BY <1>1, <2>3, <2>4
<1>6. items' = Repositioned(items, pos)
  BY <1>1, <1>2, <1>4 DEF MoveItem
<1>7. /\ \A h : GroupIn(items', h) = GroupIn(items, h)
      /\ \A r \in DOMAIN items : PositionsOf(items')[r] =
           IF r \in neighbours \cup {i} THEN pos[r] ELSE items[r].position
  BY <1>5, <1>6, PageFacts, LandedItems
<1>8. \A h : GroupIn(items', h) = IF h = g THEN neighbours \cup {i} ELSE GroupIn(items, h) \ {i}
  <2>1. neighbours \cup {i} = list
    BY <1>1, <1>2
  <2>2. \A h : h # g => i \notin GroupIn(items, h)
    BY <1>1 DEF GroupIn
  <2>3. \A h : h # g => GroupIn(items, h) \ {i} = GroupIn(items, h)
    BY <2>2
  <2> QED
    BY <1>1, <1>7, <2>1, <2>3
<1>9. \A r \in DOMAIN items : PositionsOf(items')[r] =
        IF r \in neighbours \cup {i} THEN pos[r] ELSE PositionsOf(items)[r]
  BY <1>7 DEF PositionsOf
<1>10. PICK landed : landed = items'
  OBVIOUS
<1>11. CarriedTo(i, g, p)
  BY <1>1, <1>8, <1>9, <1>10, LandedDrawn
<1> QED
  BY <1>1, <1>11

\* A deleted tile is taken out of its group.
LEMMA DeleteItemDrawn ==
  ASSUME Page, NEW u \in Users, NEW i \in DOMAIN items, DeleteItem(u, i)
  PROVE  \A h : DrawnGroup(items', h) = RemoveFirst(DrawnGroup(items, h), i)
<1>1. PICK left : left = WithoutRows(items, {i})
  OBVIOUS
<1>2. /\ DOMAIN left = DOMAIN items \ {i} /\ IsFiniteSet(DOMAIN left)
      /\ left \in [DOMAIN left -> ItemType] /\ \A k \in DOMAIN left : k \in Int
      /\ \A k \in DOMAIN left : left[k] = items[k]
  BY <1>1, FiniteTables DEF WithoutRows, TypeOK, Page
<1>3. items' = ReorderGroup(left, items[i].group)
  BY <1>1 DEF DeleteItem
<1>4. \A h : GroupIn(left, h) = GroupIn(items, h) \ {i}
  BY <1>2 DEF GroupIn
<1>5. \A r \in DOMAIN left : PositionsOf(left)[r] = PositionsOf(items)[r]
  BY <1>2 DEF PositionsOf
<1>6. ASSUME NEW h
      PROVE  DrawnGroup(left, h) = RemoveFirst(DrawnGroup(items, h), i)
  <2>1. \A r \in GroupIn(items, h) \ {i} : PositionsOf(left)[r] = PositionsOf(items)[r]
    BY <1>2, <1>5 DEF GroupIn
  <2>2. DrawnGroup(left, h) = Drawn(GroupIn(items, h) \ {i}, PositionsOf(items))
    BY <1>4, <2>1, DrawnAgree DEF DrawnGroup
  <2>3. Listed(GroupIn(items, h), PositionsOf(items))
    BY PageFacts
  <2> QED
    BY <2>2, <2>3, DrawnWithout DEF DrawnGroup
<1> QED
  BY <1>2, <1>3, <1>6, ReorderGroupDrawn

-----------------------------------------------------------------------------
(* The page as a whole.                                                    *)

\* What a file describes, in lists that can be drawn.
LEMMA FileListed ==
  ASSUME NEW file \in Layouts
  PROVE  /\ \A c : IsFiniteSet(ColumnOfFile(file, c)) =>
              Listed(ColumnOfFile(file, c), PositionsOf(file.groups))
         /\ \A k : IsFiniteSet(GroupOfFile(file, k)) =>
              Listed(GroupOfFile(file, k), PositionsOf(file.items))
<1>1. /\ file.groups \in Seq([column: Int, position: Nat, name: Names])
      /\ file.items \in Seq([group: Nat, position: Nat, url: Urls])
  BY LayoutsAssumption DEF LayoutType
<1>2. \A k \in DOMAIN file.groups : k \in Int /\ PositionsOf(file.groups)[k] \in Int
  <2>1. /\ DOMAIN file.groups = 1 .. Len(file.groups) /\ Len(file.groups) \in Nat
        /\ \A k \in DOMAIN file.groups : file.groups[k] \in [column: Int, position: Nat, name: Names]
    BY <1>1, SequenceFacts
  <2> QED
    BY <2>1 DEF PositionsOf
<1>3. \A j \in DOMAIN file.items : j \in Int /\ PositionsOf(file.items)[j] \in Int
  <2>1. /\ DOMAIN file.items = 1 .. Len(file.items) /\ Len(file.items) \in Nat
        /\ \A j \in DOMAIN file.items : file.items[j] \in [group: Nat, position: Nat, url: Urls]
    BY <1>1, SequenceFacts
  <2> QED
    BY <2>1 DEF PositionsOf
<1> QED
  BY <1>2, <1>3 DEF Listed, ColumnOfFile, GroupOfFile

\* A replaced page is the one of the file; nothing else is redrawn.
LEMMA ReplacedDrawn ==
  ASSUME Page, NEW u \in Users, NEW file \in Layouts, ReplaceStartPage(u, file)
  PROVE  /\ \A v, c : v # u => DrawnColumn(groups', v, c) = DrawnColumn(groups, v, c)
         /\ \A g \in DOMAIN groups \ OwnedBy(u) : DrawnGroup(items', g) = DrawnGroup(items, g)
         /\ \A c \in 1 .. MaxColumns :
              /\ ToSet(DrawnColumn(groups', u, c)) \subseteq lastGroup + 1 .. lastGroup'
              /\ [k \in DOMAIN DrawnColumn(groups', u, c) |->
                    Len(DrawnGroup(items', DrawnColumn(groups', u, c)[k]))] = GridOf(file)[c]
<1>0. TypeOK /\ Sound
  BY DEF Page
<1>1. ASSUME NEW v, NEW c, v # u
      PROVE  DrawnColumn(groups', v, c) = DrawnColumn(groups, v, c)
  <2>1. /\ ColumnIn(groups', v, c) = ColumnIn(groups, v, c)
        /\ SameList(ColumnIn(groups, v, c), groups, groups')
    BY <1>0, <1>1, ReplacedLists
  <2>2. \A r \in ColumnIn(groups, v, c) : PositionsOf(groups')[r] = PositionsOf(groups)[r]
    BY <2>1 DEF SameList
  <2> QED
    BY <2>1, <2>2, DrawnAgree DEF DrawnColumn
<1>2. ASSUME NEW g \in DOMAIN groups \ OwnedBy(u)
      PROVE  DrawnGroup(items', g) = DrawnGroup(items, g)
  <2>1. g \notin lastGroup + 1 .. lastGroup'
    BY <1>0 DEF TypeOK
  <2>2. /\ GroupIn(items', g) = GroupIn(items, g)
        /\ SameList(GroupIn(items, g), items, items')
    BY <1>0, <2>1, ReplacedLists
  <2>3. \A r \in GroupIn(items, g) : PositionsOf(items')[r] = PositionsOf(items)[r]
    BY <2>2 DEF SameList
  <2> QED
    BY <2>2, <2>3, DrawnAgree DEF DrawnGroup
<1>3. /\ Len(file.groups) \in Nat /\ DOMAIN file.groups = 1 .. Len(file.groups)
      /\ lastGroup \in Nat /\ lastItem \in Nat /\ lastGroup' = lastGroup + Len(file.groups)
  BY <1>0, ReplacedLists
<1>4. ASSUME NEW m \in DOMAIN file.groups
      PROVE  Len(DrawnGroup(items', lastGroup + m)) = Cardinality(GroupOfFile(file, m))
  <2>1. /\ GroupIn(items', lastGroup + m) = Shifted(GroupOfFile(file, m), lastItem)
        /\ ShiftedList(GroupOfFile(file, m), PositionsOf(file.items), PositionsOf(items'), lastItem)
        /\ GroupOfFile(file, m) \subseteq Nat /\ IsFiniteSet(GroupOfFile(file, m))
    BY <1>0, ReplacedLists
  <2>2. PICK list, shifted, pos, new, n :
          /\ list = GroupOfFile(file, m) /\ shifted = Shifted(list, lastItem)
          /\ pos = PositionsOf(file.items) /\ new = PositionsOf(items') /\ n = lastItem
    OBVIOUS
  <2>3. /\ (\A x \in list : x \in Nat) /\ Listed(list, pos) /\ n \in Nat
        /\ shifted = Shifted(list, n) /\ ShiftedList(list, pos, new, n)
    BY <1>3, <2>1, <2>2, FileListed
  <2>4. Listed(shifted, new) /\ Cardinality(shifted) = Cardinality(list)
    BY <2>3, DrawnShifted
  <2>5. Len(Drawn(shifted, new)) = Cardinality(list)
    <3>1. PICK rows : rows = shifted
      OBVIOUS
    <3>2. Listed(rows, new)
      BY <2>4, <3>1
    <3>3. Len(Drawn(rows, new)) = Cardinality(rows)
      BY <3>2, DrawnFacts
    <3> QED
      BY <2>4, <3>1, <3>3
  <2> QED
    BY <2>1, <2>2, <2>5 DEF DrawnGroup
<1>5. ASSUME NEW c \in 1 .. MaxColumns
      PROVE  /\ ToSet(DrawnColumn(groups', u, c)) \subseteq lastGroup + 1 .. lastGroup'
             /\ [k \in DOMAIN DrawnColumn(groups', u, c) |->
                   Len(DrawnGroup(items', DrawnColumn(groups', u, c)[k]))] = GridOf(file)[c]
  <2>1. /\ ColumnIn(groups', u, c) = Shifted(ColumnOfFile(file, c), lastGroup)
        /\ ShiftedList(ColumnOfFile(file, c), PositionsOf(file.groups), PositionsOf(groups'), lastGroup)
        /\ ColumnOfFile(file, c) \subseteq Nat /\ IsFiniteSet(ColumnOfFile(file, c))
    BY <1>0, ReplacedLists
  <2>2. PICK list, shifted, pos, new, n :
          /\ list = ColumnOfFile(file, c) /\ shifted = Shifted(list, lastGroup)
          /\ pos = PositionsOf(file.groups) /\ new = PositionsOf(groups') /\ n = lastGroup
    OBVIOUS
  <2>3. /\ (\A x \in list : x \in Nat) /\ Listed(list, pos) /\ n \in Nat
        /\ shifted = Shifted(list, n) /\ ShiftedList(list, pos, new, n)
    BY <1>3, <2>1, <2>2, FileListed
  <2>4. PICK drawn, inColumn, size : /\ drawn = Drawn(shifted, new)
                                     /\ inColumn = Drawn(list, pos) /\ size = Cardinality(list)
    OBVIOUS
  <2>5. Cardinality(shifted) = size /\ \A k \in 1 .. size : drawn[k] = n + inColumn[k]
    <3>1. /\ Cardinality(Shifted(list, n)) = Cardinality(list)
          /\ Drawn(Shifted(list, n), new) = Raised(Drawn(list, pos), n)
      BY <2>3, DrawnShifted
    <3>2. DOMAIN inColumn = 1 .. size
      BY <2>4 DEF Drawn
    <3> QED
      BY <2>3, <2>4, <3>1, <3>2 DEF Raised
  <2>6. DOMAIN drawn = 1 .. size /\ DOMAIN inColumn = 1 .. size
    BY <2>4, <2>5 DEF Drawn
  <2>7. \A k \in 1 .. size : inColumn[k] \in list
    BY <2>3, <2>4, DrawnFacts
  <2>8. list \subseteq DOMAIN file.groups
    BY <2>2 DEF ColumnOfFile
  <2>9. \A k \in 1 .. size : Len(DrawnGroup(items', drawn[k])) = Cardinality(GroupOfFile(file, inColumn[k]))
    BY <1>4, <2>2, <2>5, <2>7, <2>8
  <2>10. [k \in DOMAIN drawn |-> Len(DrawnGroup(items', drawn[k]))] = GridOf(file)[c]
    <3>1. GridOf(file)[c] = [k \in DOMAIN inColumn |-> Cardinality(GroupOfFile(file, inColumn[k]))]
      BY <2>2, <2>4 DEF GridOf, ColumnOfFile, GroupOfFile
    <3> QED
      BY <2>6, <2>9, <3>1
  <2>11. \A k \in DOMAIN drawn : drawn[k] \in lastGroup + 1 .. lastGroup'
    BY <1>3, <2>2, <2>5, <2>6, <2>7, <2>8
  <2>12. drawn = DrawnColumn(groups', u, c)
    BY <2>1, <2>2, <2>4 DEF DrawnColumn
  <2> QED
    BY <2>10, <2>11, <2>12 DEF ToSet
<1> QED
  BY <1>1, <1>2, <1>5

\* An account that goes takes its lists with it.
LEMMA DeleteUserDrawn ==
  ASSUME NEW u \in Users, DeleteUser(u)
  PROVE  /\ DOMAIN groups' = DOMAIN groups \ OwnedBy(u)
         /\ \A v, c : v # u => DrawnColumn(groups', v, c) = DrawnColumn(groups, v, c)
         /\ \A g \in DOMAIN groups' : DrawnGroup(items', g) = DrawnGroup(items, g)
<1>1. /\ DOMAIN groups' = DOMAIN groups \ OwnedBy(u) /\ DOMAIN items' = DOMAIN items \ TilesOf(u)
      /\ \A g \in DOMAIN groups' : groups'[g] = groups[g]
      /\ \A i \in DOMAIN items' : items'[i] = items[i]
  BY DEF DeleteUser, WithoutRows
<1>2. ASSUME NEW v, NEW c, v # u
      PROVE  DrawnColumn(groups', v, c) = DrawnColumn(groups, v, c)
  <2>1. ColumnIn(groups', v, c) = ColumnIn(groups, v, c)
    BY <1>1, <1>2 DEF ColumnIn, OwnedBy
  <2>2. \A r \in ColumnIn(groups, v, c) : PositionsOf(groups')[r] = PositionsOf(groups)[r]
    BY <1>1, <1>2 DEF ColumnIn, OwnedBy, PositionsOf
  <2> QED
    BY <2>1, <2>2, DrawnAgree DEF DrawnColumn
<1>3. ASSUME NEW g \in DOMAIN groups'
      PROVE  DrawnGroup(items', g) = DrawnGroup(items, g)
  <2>1. GroupIn(items', g) = GroupIn(items, g)
    BY <1>1 DEF GroupIn, TilesOf
  <2>2. \A r \in GroupIn(items, g) : PositionsOf(items')[r] = PositionsOf(items)[r]
    BY <1>1 DEF GroupIn, TilesOf, PositionsOf
  <2> QED
    BY <2>1, <2>2, DrawnAgree DEF DrawnGroup
<1> QED
  BY <1>1, <1>2, <1>3

\* An edit that leaves every row where it is redraws nothing.
LEMMA EditsDrawn ==
  /\ (/\ DOMAIN groups' = DOMAIN groups
      /\ \A h \in DOMAIN groups : /\ groups'[h].user = groups[h].user
                                  /\ groups'[h].column = groups[h].column
                                  /\ groups'[h].position = groups[h].position)
     => \A v, c : DrawnColumn(groups', v, c) = DrawnColumn(groups, v, c)
  /\ (/\ DOMAIN items' = DOMAIN items
      /\ \A k \in DOMAIN items : /\ items'[k].group = items[k].group
                                 /\ items'[k].position = items[k].position)
     => \A g : DrawnGroup(items', g) = DrawnGroup(items, g)
<1>1. ASSUME DOMAIN groups' = DOMAIN groups,
             \A h \in DOMAIN groups : /\ groups'[h].user = groups[h].user
                                      /\ groups'[h].column = groups[h].column
                                      /\ groups'[h].position = groups[h].position,
             NEW v, NEW c
      PROVE  DrawnColumn(groups', v, c) = DrawnColumn(groups, v, c)
  <2>1. ColumnIn(groups', v, c) = ColumnIn(groups, v, c)
    BY <1>1 DEF ColumnIn
  <2>2. \A r \in ColumnIn(groups, v, c) : PositionsOf(groups')[r] = PositionsOf(groups)[r]
    BY <1>1 DEF ColumnIn, PositionsOf
  <2> QED
    BY <2>1, <2>2, DrawnAgree DEF DrawnColumn
<1>2. ASSUME DOMAIN items' = DOMAIN items,
             \A k \in DOMAIN items : /\ items'[k].group = items[k].group
                                     /\ items'[k].position = items[k].position,
             NEW g
      PROVE  DrawnGroup(items', g) = DrawnGroup(items, g)
  <2>1. GroupIn(items', g) = GroupIn(items, g)
    BY <1>2 DEF GroupIn
  <2>2. \A r \in GroupIn(items, g) : PositionsOf(items')[r] = PositionsOf(items)[r]
    BY <1>2 DEF GroupIn, PositionsOf
  <2> QED
    BY <2>1, <2>2, DrawnAgree DEF DrawnGroup
<1> QED
  BY <1>1, <1>2

-----------------------------------------------------------------------------
(* So every store call is a step of the grid of lists, or none.            *)

\* One account's columns are redrawn.
LEMMA ColumnsRedrawn ==
  ASSUME NEW u \in Users, NEW next, columns' = columns,
         \A v, k : v # u => DrawnColumn(groups', v, k) = DrawnColumn(groups, v, k),
         next = [k \in 1 .. MaxColumns |-> DrawnColumn(groups', u, k)]
  PROVE  Grid' = [Grid EXCEPT ![u] = next]
<1>1. Grid' = [v \in DOMAIN columns |-> IF v = u THEN next ELSE Grid[v]]
  <2>1. ASSUME NEW v \in DOMAIN columns
        PROVE  [k \in 1 .. MaxColumns |-> DrawnColumn(groups', v, k)] = IF v = u THEN next ELSE Grid[v]
    <3>1. CASE v = u
      BY <3>1
    <3>2. CASE v # u
      BY <3>2, PageDrawn
    <3> QED
      BY <3>1, <3>2
  <2> QED
    BY <2>1, PageDrawn
<1>2. DOMAIN Grid = DOMAIN columns
  BY PageDrawn
<1> QED
  BY <1>1, <1>2

\* What a user's columns and a group's tiles are on the page.
LEMMA PageAt ==
  ASSUME Page
  PROVE  /\ \A u \in Users : /\ columns[u] \in 1 .. MaxColumns
                             /\ DOMAIN Grid[u] = 1 .. MaxColumns
                             /\ \A k \in 1 .. MaxColumns : Grid[u][k] = DrawnColumn(groups, u, k)
         /\ DOMAIN TilesOfGroups = DOMAIN groups
         /\ \A g \in DOMAIN groups : TilesOfGroups[g] = DrawnGroup(items, g)
         /\ \A u \in Users, n \in Int : 1 <= n /\ n <= columns[u] => n \in 1 .. MaxColumns
<1>1. \A u \in Users : columns[u] \in 1 .. MaxColumns
  BY DEF Page, TypeOK
<1>2. MaxColumns \in Nat
  BY ConstantsAssumption
<1>3. \A u \in Users, n \in Int : 1 <= n /\ n <= columns[u] => n \in 1 .. MaxColumns
  BY <1>1, <1>2
<1> QED
  BY <1>1, <1>3, PageDrawn DEF Users

\* Creating a group adds it at the end of its column.
LEMMA CreateGroupSimulated ==
  ASSUME Page, NEW u \in Users, NEW name \in Names, NEW c \in Int, CreateGroup(u, name, c)
  PROVE  Lists!UserStep(u)
<1>1. PICK new : new = lastGroup + 1
  OBVIOUS
<1>2. c \in 1 .. columns[u] /\ c \in 1 .. MaxColumns /\ columns' = columns /\ items' = items
  <2>1. 1 <= c /\ c <= columns[u] /\ columns' = columns /\ items' = items
    BY DEF CreateGroup, GroupAccepted
  <2> QED
    BY <2>1, PageAt
<1>3. new \in 1 .. MaxGroups
  BY <1>1, ConstantsAssumption DEF Page, TypeOK, CreateGroup
<1>4. /\ new \notin DOMAIN groups /\ DOMAIN groups' = DOMAIN groups \cup {new}
      /\ DrawnColumn(groups', u, c) = Append(DrawnColumn(groups, u, c), new)
      /\ \A v, k : <<v, k>> # <<u, c>> => DrawnColumn(groups', v, k) = DrawnColumn(groups, v, k)
  BY <1>1, CreateGroupDrawn DEF OtherColumnsKept
<1>5. PICK longer : longer = Append(DrawnColumn(groups, u, c), new)
  OBVIOUS
<1>6. Grid' = [Grid EXCEPT ![u][c] = longer]
  <2>1. [Grid[u] EXCEPT ![c] = longer] = [k \in 1 .. MaxColumns |-> DrawnColumn(groups', u, k)]
    <3>1. \A k : k # c => DrawnColumn(groups', u, k) = DrawnColumn(groups, u, k)
      BY <1>4
    <3>2. \A k \in 1 .. MaxColumns :
            DrawnColumn(groups', u, k) = IF k = c THEN longer ELSE Grid[u][k]
      BY <1>4, <1>5, <3>1, PageAt
    <3>3. [Grid[u] EXCEPT ![c] = longer] = [k \in 1 .. MaxColumns |-> IF k = c THEN longer ELSE Grid[u][k]]
      BY PageAt
    <3> QED
      BY <3>2, <3>3
  <2>2. PICK next : next = [Grid[u] EXCEPT ![c] = longer]
    OBVIOUS
  <2>3. Grid' = [Grid EXCEPT ![u] = next]
    BY <1>2, <1>4, <2>1, <2>2, ColumnsRedrawn
  <2> QED
    BY <2>2, <2>3
<1>7. longer = Append(Grid[u][c], new)
  BY <1>2, <1>5, PageAt
<1>8. TilesOfGroups' = [h \in DOMAIN TilesOfGroups \cup {new} |->
                          IF h = new THEN <<>> ELSE TilesOfGroups[h]]
  <2>1. GroupIn(items, new) = {}
    BY <1>4 DEF GroupIn, Page, Sound, NoOrphanTiles
  <2>2. DrawnGroup(items, new) = <<>>
    BY <2>1, DrawnEmpty DEF DrawnGroup
  <2>3. TilesOfGroups' = [h \in DOMAIN groups \cup {new} |-> DrawnGroup(items, h)]
    BY <1>2, <1>4, PageDrawn
  <2>4. \A h \in DOMAIN groups \cup {new} :
          DrawnGroup(items, h) = IF h = new THEN <<>> ELSE TilesOfGroups[h]
    BY <1>4, <2>2, PageAt
  <2> QED
    BY <2>3, <2>4, PageAt
<1>9. Lists!AddGroup(u, new, c)
  BY <1>2, <1>4, <1>6, <1>7, <1>8, PageAt DEF Lists!AddGroup
<1> QED
  BY <1>2, <1>3, <1>9 DEF Lists!UserStep

\* Moving a group carries it to the index asked for.
LEMMA MoveGroupSimulated ==
  ASSUME Page, NEW u \in Users, NEW g \in DOMAIN groups, NEW c \in Int, NEW p \in AskedPositions,
         MoveGroup(u, g, c, p)
  PROVE  Lists!UserStep(u)
<1>1. /\ g \in OwnedBy(u) /\ c \in 1 .. columns[u] /\ c \in 1 .. MaxColumns /\ p \in Int
      /\ columns' = columns /\ items' = items
  <2>1. g \in OwnedBy(u) /\ 1 <= c /\ c <= columns[u] /\ columns' = columns /\ items' = items
    BY DEF MoveGroup
  <2> QED
    BY <2>1, PageAt, ConstantsAssumption
<1>2. PICK rest, before, after : /\ rest = RemoveFirst(DrawnColumn(groups, u, c), g)
                                 /\ before = DrawnColumn(groups, u, c)
                                 /\ after = DrawnColumn(groups', u, c)
  OBVIOUS
<1>3. /\ \A v, k : v # u => DrawnColumn(groups', v, k) = DrawnColumn(groups, v, k)
      /\ \A k : k # c => DrawnColumn(groups', u, k) = RemoveFirst(DrawnColumn(groups, u, k), g)
      /\ Len(rest) \in Nat /\ after = InsertAt(rest, Clamp(p, 0, Len(rest)) + 1, g)
      /\ DOMAIN groups' = DOMAIN groups
  BY <1>1, <1>2, MoveGroupDrawn
<1>4. Lists!PutAt(before, g, p) = after
  BY <1>1, <1>2, <1>3, ListOperators
<1>5. \A k \in 1 .. MaxColumns :
        DrawnColumn(groups', u, k) = IF k = c THEN Lists!PutAt(Grid[u][c], g, p)
                                     ELSE Lists!Drop(Grid[u][k], g)
  <2>1. Lists!PutAt(Grid[u][c], g, p) = after
    BY <1>1, <1>2, <1>4, PageAt
  <2>2. \A k \in 1 .. MaxColumns : Lists!Drop(Grid[u][k], g) = RemoveFirst(DrawnColumn(groups, u, k), g)
    BY PageAt, ListOperators
  <2> QED
    BY <1>2, <1>3, <2>1, <2>2
<1>6. PICK next : next = [k \in 1 .. MaxColumns |-> IF k = c THEN Lists!PutAt(Grid[u][c], g, p)
                                                   ELSE Lists!Drop(Grid[u][k], g)]
  OBVIOUS
<1>7. next = [k \in 1 .. MaxColumns |-> DrawnColumn(groups', u, k)]
  BY <1>5, <1>6
<1>8. Grid' = [Grid EXCEPT ![u] = next]
  BY <1>1, <1>3, <1>7, ColumnsRedrawn
<1>9. TilesOfGroups' = TilesOfGroups
  BY <1>1, <1>3, PageDrawn
<1>10. Lists!CarryGroup(u, g, c, p)
  BY <1>1, <1>6, <1>8, <1>9 DEF Lists!CarryGroup
<1>11. g \in Lists!GroupsOf(u)
  BY <1>1, PageHolds
<1> QED
  BY <1>1, <1>10, <1>11 DEF Lists!UserStep

\* Deleting a group drops it, with its tiles.
LEMMA DeleteGroupSimulated ==
  ASSUME Page, NEW u \in Users, NEW g \in DOMAIN groups, DeleteGroup(u, g)
  PROVE  Lists!UserStep(u)
<1>1. g \in OwnedBy(u) /\ columns' = columns
  BY DEF DeleteGroup
<1>2. /\ DOMAIN groups' = DOMAIN groups \ {g}
      /\ \A v, k : v # u => DrawnColumn(groups', v, k) = DrawnColumn(groups, v, k)
      /\ \A k : DrawnColumn(groups', u, k) = RemoveFirst(DrawnColumn(groups, u, k), g)
      /\ \A h \in DOMAIN groups' : DrawnGroup(items', h) = DrawnGroup(items, h)
  BY DeleteGroupDrawn
<1>3. PICK next : next = [k \in 1 .. MaxColumns |-> Lists!Drop(Grid[u][k], g)]
  OBVIOUS
<1>4. next = [k \in 1 .. MaxColumns |-> DrawnColumn(groups', u, k)]
  <2>1. \A k \in 1 .. MaxColumns : Lists!Drop(Grid[u][k], g) = RemoveFirst(DrawnColumn(groups, u, k), g)
    BY PageAt, ListOperators
  <2> QED
    BY <1>2, <1>3, <2>1
<1>5. Grid' = [Grid EXCEPT ![u] = next]
  BY <1>1, <1>2, <1>4, ColumnsRedrawn
<1>6. TilesOfGroups' = [h \in DOMAIN TilesOfGroups \ {g} |-> TilesOfGroups[h]]
  BY <1>2, PageAt, PageDrawn
<1>7. Lists!DropGroup(u, g)
  BY <1>1, <1>3, <1>5, <1>6 DEF Lists!DropGroup
<1>8. g \in Lists!GroupsOf(u)
  BY <1>1, PageHolds
<1> QED
  BY <1>7, <1>8 DEF Lists!UserStep

\* A step of the tiles alone redraws no column.
LEMMA TilesRedrawn ==
  ASSUME groups' = groups, columns' = columns
  PROVE  /\ Grid' = Grid
         /\ TilesOfGroups' = [h \in DOMAIN groups |-> DrawnGroup(items', h)]
<1>1. DOMAIN groups' = DOMAIN groups
  OBVIOUS
<1>2. \A v, k : DrawnColumn(groups', v, k) = DrawnColumn(groups, v, k)
  OBVIOUS
<1> QED
  BY <1>1, <1>2, PageDrawn

\* Creating a tile adds it at the end of its group.
LEMMA CreateItemSimulated ==
  ASSUME Page, NEW u \in Users, NEW g \in DOMAIN groups, NEW url \in Urls, CreateItem(u, g, url)
  PROVE  Lists!UserStep(u)
<1>1. g \in OwnedBy(u) /\ groups' = groups /\ columns' = columns
  BY DEF CreateItem
<1>2. PICK new, longer : new = lastItem + 1 /\ longer = Append(DrawnGroup(items, g), new)
  OBVIOUS
<1>3. new \in 1 .. MaxItems
  BY <1>2, ConstantsAssumption DEF Page, TypeOK, CreateItem
<1>4. /\ new \notin DOMAIN items /\ DrawnGroup(items', g) = longer
      /\ \A h : h # g => DrawnGroup(items', h) = DrawnGroup(items, h)
  BY <1>2, CreateItemDrawn
<1>5. \A h \in DOMAIN TilesOfGroups : new \notin Lists!ToSet(TilesOfGroups[h])
  BY <1>4, PageHolds, PageAt DEF GroupIn
<1>6. longer = Append(TilesOfGroups[g], new)
  BY <1>2, PageAt
<1>7. TilesOfGroups' = [TilesOfGroups EXCEPT ![g] = longer]
  BY <1>1, <1>4, PageAt, TilesRedrawn
<1>8. Lists!AddTile(g, new)
  BY <1>1, <1>5, <1>6, <1>7, TilesRedrawn DEF Lists!AddTile
<1>9. g \in Lists!GroupsOf(u)
  BY <1>1, PageHolds
<1> QED
  BY <1>3, <1>8, <1>9 DEF Lists!UserStep

\* Both moves of a tile carry it to the index asked for.
LEMMA CarriedSimulated ==
  ASSUME Page, NEW u \in Users, NEW i \in TilesOf(u), NEW g \in OwnedBy(u), NEW p \in AskedPositions,
         groups' = groups, columns' = columns, CarriedTo(i, g, p)
  PROVE  Lists!UserStep(u)
<1>1. PICK h \in OwnedBy(u) : i \in GroupIn(items, h)
  BY DEF TilesOf, GroupIn
<1>2. p \in Int /\ g \in DOMAIN groups /\ h \in DOMAIN groups
  BY ConstantsAssumption DEF OwnedBy
<1>3. PICK rest, before, after : /\ rest = RemoveFirst(DrawnGroup(items, g), i)
                                 /\ before = DrawnGroup(items, g)
                                 /\ after = DrawnGroup(items', g)
  OBVIOUS
<1>4. /\ \A k : k # g => DrawnGroup(items', k) = RemoveFirst(DrawnGroup(items, k), i)
      /\ Len(rest) \in Nat /\ after = InsertAt(rest, Clamp(p, 0, Len(rest)) + 1, i)
  BY <1>3 DEF CarriedTo
<1>5. Lists!PutAt(before, i, p) = after
  BY <1>2, <1>3, <1>4, ListOperators
<1>6. Lists!PutAt(TilesOfGroups[g], i, p) = after
  BY <1>2, <1>3, <1>5, PageAt
<1>7. \A k \in DOMAIN groups : Lists!Drop(TilesOfGroups[k], i) = RemoveFirst(DrawnGroup(items, k), i)
  BY PageAt, ListOperators
<1>8. \A k \in DOMAIN groups :
        DrawnGroup(items', k) = IF k = g THEN Lists!PutAt(TilesOfGroups[g], i, p)
                                ELSE Lists!Drop(TilesOfGroups[k], i)
  BY <1>3, <1>4, <1>6, <1>7
<1>9. TilesOfGroups' = [k \in DOMAIN TilesOfGroups |->
         IF k = g THEN Lists!PutAt(TilesOfGroups[g], i, p) ELSE Lists!Drop(TilesOfGroups[k], i)]
  BY <1>8, PageAt, TilesRedrawn
<1>10. Lists!CarryTile(i, g, p)
  BY <1>9, TilesRedrawn DEF Lists!CarryTile
<1>11. g \in Lists!GroupsOf(u) /\ h \in Lists!GroupsOf(u) /\ i \in Lists!ToSet(TilesOfGroups[h])
  BY <1>1, <1>2, PageHolds
<1> QED
  BY <1>10, <1>11 DEF Lists!UserStep

\* Deleting a tile drops it.
LEMMA DeleteItemSimulated ==
  ASSUME Page, NEW u \in Users, NEW i \in DOMAIN items, DeleteItem(u, i)
  PROVE  Lists!UserStep(u)
<1>1. i \in TilesOf(u) /\ groups' = groups /\ columns' = columns
  BY DEF DeleteItem
<1>2. PICK h \in OwnedBy(u) : i \in GroupIn(items, h)
  BY <1>1 DEF TilesOf, GroupIn
<1>3. h \in DOMAIN groups
  BY DEF OwnedBy
<1>4. \A k \in DOMAIN groups : DrawnGroup(items', k) = Lists!Drop(TilesOfGroups[k], i)
  <2>1. \A k : DrawnGroup(items', k) = RemoveFirst(DrawnGroup(items, k), i)
    BY DeleteItemDrawn
  <2>2. \A k \in DOMAIN groups : Lists!Drop(TilesOfGroups[k], i) = RemoveFirst(DrawnGroup(items, k), i)
    BY PageAt, ListOperators
  <2> QED
    BY <2>1, <2>2
<1>5. TilesOfGroups' = [k \in DOMAIN TilesOfGroups |-> Lists!Drop(TilesOfGroups[k], i)]
  BY <1>1, <1>4, PageAt, TilesRedrawn
<1>6. Lists!DropTile(i)
  BY <1>1, <1>5, TilesRedrawn DEF Lists!DropTile
<1>7. h \in Lists!GroupsOf(u) /\ i \in Lists!ToSet(TilesOfGroups[h])
  BY <1>2, <1>3, PageHolds
<1> QED
  BY <1>6, <1>7 DEF Lists!UserStep

\* A change of width is one that leaves no group outside.
LEMMA UpdateColumnsSimulated ==
  ASSUME Page, NEW u \in Users, NEW width \in Int, UpdateColumns(u, width)
  PROVE  Lists!UserStep(u)
<1>1. /\ width \in 1 .. MaxColumns /\ groups' = groups /\ items' = items
      /\ columns' = [columns EXCEPT ![u] = width]
      /\ columns[u] # width => \A g \in OwnedBy(u) : groups[g].column <= width
  BY ConstantsAssumption DEF UpdateColumns
<1>2. Grid' = Grid /\ TilesOfGroups' = TilesOfGroups
  <2>1. DOMAIN columns' = DOMAIN columns /\ DOMAIN groups' = DOMAIN groups
    BY <1>1
  <2>2. /\ \A v, k : DrawnColumn(groups', v, k) = DrawnColumn(groups, v, k)
        /\ \A g : DrawnGroup(items', g) = DrawnGroup(items, g)
    BY <1>1
  <2> QED
    BY <2>1, <2>2, PageDrawn
<1>3. ASSUME NEW c \in width + 1 .. MaxColumns
      PROVE  Grid[u][c] = <<>>
  <2>1. c \in 1 .. MaxColumns /\ c > width
    BY <1>1, ConstantsAssumption
  <2>2. \A g \in OwnedBy(u) : groups[g].column <= width
    BY <1>1 DEF OwnedBy, Page, Sound, NoGroupStranded
  <2>3. ColumnIn(groups, u, c) = {}
    BY <1>1, <2>1, <2>2 DEF ColumnIn, OwnedBy
  <2> QED
    BY <2>1, <2>3, PageAt, DrawnEmpty DEF DrawnColumn
<1>4. Lists!Resize(u, width)
  BY <1>1, <1>2, <1>3 DEF Lists!Resize
<1> QED
  BY <1>1, <1>4 DEF Lists!UserStep

\* An import rebuilds the page from the lists of its file.
LEMMA ReplaceStartPageSimulated ==
  ASSUME Page, NEW u \in Users, NEW file \in Layouts, ReplaceStartPage(u, file)
  PROVE  Lists!UserStep(u)
<1> DEFINE new == lastGroup + 1 .. lastGroup'
           lists == [width |-> file.width, grid |-> GridOf(file)]
<1>0. TypeOK /\ Sound /\ OwnedBy(u) \subseteq DOMAIN groups /\ u \in DOMAIN columns
  BY DEF Page, OwnedBy, Users
<1>1. columns' = [columns EXCEPT ![u] = file.width]
  BY DEF ReplaceStartPage
<1>2. /\ DOMAIN groups' = (DOMAIN groups \ OwnedBy(u)) \cup new
      /\ DOMAIN groups \cap new = {}
  <2>1. DOMAIN groups' = (DOMAIN groups \ OwnedBy(u)) \cup new /\ lastGroup \in Nat
    BY <1>0, ReplacedLists
  <2>2. DOMAIN groups \subseteq 1 .. lastGroup
    BY <1>0 DEF TypeOK
  <2> QED
    BY <2>1, <2>2
<1> HIDE DEF new
<1>3. /\ \A v, c : v # u => DrawnColumn(groups', v, c) = DrawnColumn(groups, v, c)
      /\ \A g \in DOMAIN groups \ OwnedBy(u) : DrawnGroup(items', g) = DrawnGroup(items, g)
  BY ReplacedDrawn
<1>4. \A v \in DOMAIN Grid \ {u} : Grid'[v] = Grid[v]
  BY <1>1, <1>3, PageDrawn
<1>5. DOMAIN Grid' = DOMAIN Grid /\ DOMAIN TilesOfGroups' = DOMAIN groups' /\ DOMAIN TilesOfGroups = DOMAIN groups
  BY <1>1, PageDrawn
<1>6. /\ DOMAIN TilesOfGroups' \ DOMAIN TilesOfGroups = new
      /\ DOMAIN TilesOfGroups \ Lists!GroupsOf(u) = DOMAIN groups \ OwnedBy(u)
  BY <1>2, <1>5, PageHolds
<1>7. \A g \in DOMAIN groups \ OwnedBy(u) : TilesOfGroups'[g] = TilesOfGroups[g]
  BY <1>2, <1>3, PageDrawn
<1>8. ASSUME NEW c \in 1 .. MaxColumns
      PROVE  /\ Lists!ToSet(Grid'[u][c]) \subseteq new
             /\ [k \in DOMAIN Grid'[u][c] |-> Len(TilesOfGroups'[Grid'[u][c][k]])] = lists.grid[c]
  <2>1. PICK drawn : drawn = DrawnColumn(groups', u, c)
    OBVIOUS
  <2>2. Grid'[u][c] = drawn
    BY <1>0, <1>1, <2>1, PageDrawn
  <2>3. ToSet(drawn) \subseteq new
    BY <2>1, ReplacedDrawn DEF new
  <2>4. [k \in DOMAIN drawn |-> Len(DrawnGroup(items', drawn[k]))] = GridOf(file)[c]
    BY <2>1, ReplacedDrawn
  <2>5. \A k \in DOMAIN drawn : TilesOfGroups'[drawn[k]] = DrawnGroup(items', drawn[k])
    <3>1. \A k \in DOMAIN drawn : drawn[k] \in DOMAIN groups'
      BY <1>2, <2>3 DEF ToSet
    <3> QED
      BY <3>1, PageDrawn
  <2>6. [k \in DOMAIN drawn |-> Len(TilesOfGroups'[drawn[k]])] = GridOf(file)[c]
    BY <2>4, <2>5
  <2> QED
    BY <2>2, <2>3, <2>6, ListOperators
<1>9. Lists!Rebuild(u, lists)
  <2>1. PICK kept, built : /\ kept = DOMAIN TilesOfGroups \ Lists!GroupsOf(u)
                           /\ built = DOMAIN TilesOfGroups' \ DOMAIN TilesOfGroups
    OBVIOUS
  <2>2. kept = DOMAIN groups \ OwnedBy(u) /\ built = new
    BY <1>6, <2>1
  <2>3. /\ kept \subseteq DOMAIN TilesOfGroups' /\ DOMAIN TilesOfGroups' = kept \cup built
        /\ \A g \in kept : TilesOfGroups'[g] = TilesOfGroups[g]
    BY <1>2, <1>5, <1>7, <2>2
  <2>4. columns' = [columns EXCEPT ![u] = lists.width]
    BY <1>1
  <2>5. \A c \in 1 .. MaxColumns :
          /\ Lists!ToSet(Grid'[u][c]) \subseteq built
          /\ [k \in DOMAIN Grid'[u][c] |-> Len(TilesOfGroups'[Grid'[u][c][k]])] = lists.grid[c]
    BY <1>8, <2>2
  <2> HIDE DEF lists
  <2> QED
    BY <1>4, <1>5, <2>1, <2>3, <2>4, <2>5 DEF Lists!Rebuild
<1> QED
  BY <1>9 DEF Lists!UserStep

\* A deleted account drops its page.
LEMMA DeleteUserSimulated ==
  ASSUME Page, NEW u \in Users, DeleteUser(u)
  PROVE  Lists!UserStep(u)
<1>1. columns' = [v \in DOMAIN columns \ {u} |-> columns[v]]
  BY DEF DeleteUser, WithoutRows
<1>2. /\ DOMAIN groups' = DOMAIN groups \ OwnedBy(u)
      /\ \A v, c : v # u => DrawnColumn(groups', v, c) = DrawnColumn(groups, v, c)
      /\ \A g \in DOMAIN groups' : DrawnGroup(items', g) = DrawnGroup(items, g)
  BY DeleteUserDrawn
<1>3. Grid' = [v \in DOMAIN Grid \ {u} |-> Grid[v]]
  <2>1. DOMAIN columns' = DOMAIN columns \ {u}
    BY <1>1
  <2>2. \A v \in DOMAIN columns \ {u} :
          [c \in 1 .. MaxColumns |-> DrawnColumn(groups', v, c)] = Grid[v]
    BY <1>2, PageDrawn
  <2> QED
    BY <2>1, <2>2, PageDrawn
<1>4. TilesOfGroups' = [g \in DOMAIN TilesOfGroups \ Lists!GroupsOf(u) |-> TilesOfGroups[g]]
  <2>1. DOMAIN TilesOfGroups \ Lists!GroupsOf(u) = DOMAIN groups'
    BY <1>2, PageHolds, PageAt
  <2>2. \A g \in DOMAIN groups' : DrawnGroup(items', g) = TilesOfGroups[g]
    BY <1>2, PageAt
  <2> QED
    BY <2>1, <2>2, PageDrawn
<1>5. Lists!DropUser(u)
  BY <1>1, <1>3, <1>4 DEF Lists!DropUser
<1> QED
  BY <1>5 DEF Lists!UserStep

\* A new account starts with empty lists.
LEMMA CreateUserSimulated ==
  ASSUME Page, CreateUser
  PROVE  Lists!Next
<1>1. PICK u : u = lastUser + 1
  OBVIOUS
<1>2. /\ u \in 1 .. MaxUsers /\ u \notin DOMAIN columns
      /\ groups' = groups /\ items' = items
      /\ columns' = [v \in DOMAIN columns \cup {u} |-> IF v = u THEN 1 ELSE columns[v]]
  BY <1>1, ConstantsAssumption DEF CreateUser, WithRow, Page, TypeOK, Users
<1>3. /\ \A v, c : DrawnColumn(groups', v, c) = DrawnColumn(groups, v, c)
      /\ \A g : DrawnGroup(items', g) = DrawnGroup(items, g)
      /\ DOMAIN groups' = DOMAIN groups
  BY <1>2
<1>4. \A c : DrawnColumn(groups, u, c) = <<>>
  <2>1. \A c : ColumnIn(groups, u, c) = {}
    BY <1>2 DEF ColumnIn, Page, Sound, NoGroupStranded, Users
  <2> QED
    BY <2>1, DrawnEmpty DEF DrawnColumn
<1>5. Grid' = [v \in DOMAIN Grid \cup {u} |-> IF v = u THEN Lists!NoGroups ELSE Grid[v]]
  <2>1. DOMAIN columns' = DOMAIN columns \cup {u} /\ DOMAIN Grid = DOMAIN columns
    BY <1>2, PageDrawn
  <2>2. ASSUME NEW v \in DOMAIN columns \cup {u}
        PROVE  [c \in 1 .. MaxColumns |-> DrawnColumn(groups', v, c)] =
                 IF v = u THEN Lists!NoGroups ELSE Grid[v]
    <3>1. CASE v = u
      BY <1>3, <1>4, <3>1 DEF Lists!NoGroups
    <3>2. CASE v # u
      BY <1>3, <3>2, PageDrawn
    <3> QED
      BY <3>1, <3>2
  <2> QED
    BY <2>1, <2>2, PageDrawn
<1>6. TilesOfGroups' = TilesOfGroups
  BY <1>3, PageDrawn
<1>7. Lists!AddUser(u)
  BY <1>2, <1>5, <1>6 DEF Lists!AddUser
<1> QED
  BY <1>2, <1>7 DEF Lists!Next

\* A rename, another url and a counted visit change nothing that PageLists sees.
LEMMA EditsSimulated ==
  ASSUME Page, NEW u \in Users
  PROVE  /\ \A g \in DOMAIN groups, name \in Names : UpdateGroup(u, g, name) => UNCHANGED Lists!vars
         /\ \A i \in DOMAIN items, url \in Urls : UpdateItem(u, i, url) => UNCHANGED Lists!vars
         /\ \A i \in DOMAIN items : IncrementVisitCount(u, i) => UNCHANGED Lists!vars
<1>0. TypeOK
  BY DEF Page
<1>1. ASSUME NEW g \in DOMAIN groups, NEW name \in Names, UpdateGroup(u, g, name)
      PROVE  UNCHANGED Lists!vars
  <2>1. /\ DOMAIN groups' = DOMAIN groups /\ items' = items /\ columns' = columns
        /\ \A h \in DOMAIN groups : /\ groups'[h].user = groups[h].user
                                    /\ groups'[h].column = groups[h].column
                                    /\ groups'[h].position = groups[h].position
    BY <1>0, <1>1 DEF UpdateGroup, TypeOK, GroupType
  <2>2. \A v, c : DrawnColumn(groups', v, c) = DrawnColumn(groups, v, c)
    BY <2>1, EditsDrawn
  <2>3. Grid' = Grid /\ TilesOfGroups' = TilesOfGroups
    BY <2>1, <2>2, PageDrawn
  <2> QED
    BY <2>1, <2>3 DEF Lists!vars
<1>2. ASSUME groups' = groups, columns' = columns, DOMAIN items' = DOMAIN items,
             \A k \in DOMAIN items : /\ items'[k].group = items[k].group
                                     /\ items'[k].position = items[k].position
      PROVE  UNCHANGED Lists!vars
  <2>1. \A g : DrawnGroup(items', g) = DrawnGroup(items, g)
    BY <1>2, EditsDrawn
  <2>2. Grid' = Grid /\ TilesOfGroups' = TilesOfGroups
    BY <1>2, <2>1, TilesRedrawn, PageDrawn
  <2> QED
    BY <1>2, <2>2 DEF Lists!vars
<1>3. ASSUME NEW i \in DOMAIN items, NEW url \in Urls, UpdateItem(u, i, url)
      PROVE  UNCHANGED Lists!vars
  <2>1. /\ groups' = groups /\ columns' = columns /\ DOMAIN items' = DOMAIN items
        /\ \A k \in DOMAIN items : /\ items'[k].group = items[k].group
                                   /\ items'[k].position = items[k].position
    BY <1>0, <1>3 DEF UpdateItem, TypeOK, ItemType
  <2> QED
    BY <1>2, <2>1
<1>4. ASSUME NEW i \in DOMAIN items, IncrementVisitCount(u, i)
      PROVE  UNCHANGED Lists!vars
  <2>1. /\ groups' = groups /\ columns' = columns /\ DOMAIN items' = DOMAIN items
        /\ \A k \in DOMAIN items : /\ items'[k].group = items[k].group
                                   /\ items'[k].position = items[k].position
    BY <1>0, <1>4 DEF IncrementVisitCount, TypeOK, ItemType
  <2> QED
    BY <1>2, <2>1
<1> QED
  BY <1>1, <1>3, <1>4

\* Every step is one of theirs, or none.
LEMMA NextSimulated ==
  ASSUME Page, [Next]_vars
  PROVE  [Lists!Next]_(Lists!vars)
<1>1. ASSUME NEW u \in Users, Lists!UserStep(u)
      PROVE  Lists!Next
  BY <1>1 DEF Lists!Next, Users
<1>2. CASE UNCHANGED vars
  BY <1>2, PageDrawn DEF vars, Lists!vars
<1>3. CASE CreateUser
  BY <1>3, CreateUserSimulated
<1>4. ASSUME NEW u \in Users, GroupStep(u)
      PROVE  [Lists!Next]_(Lists!vars)
  <2>1. ASSUME NEW name \in Names, NEW c \in 0 .. MaxColumns + 1, CreateGroup(u, name, c)
        PROVE  Lists!UserStep(u)
    BY <2>1, CreateGroupSimulated
  <2>2. ASSUME NEW g \in DOMAIN groups, NEW c \in 0 .. MaxColumns + 1, NEW p \in AskedPositions,
               MoveGroup(u, g, c, p)
        PROVE  Lists!UserStep(u)
    BY <2>2, MoveGroupSimulated
  <2>3. ASSUME NEW g \in DOMAIN groups, DeleteGroup(u, g)
        PROVE  Lists!UserStep(u)
    BY <2>3, DeleteGroupSimulated
  <2>4. ASSUME NEW g \in DOMAIN groups, NEW name \in Names, UpdateGroup(u, g, name)
        PROVE  UNCHANGED Lists!vars
    BY <2>4, EditsSimulated
  <2> QED
    BY <1>1, <1>4, <2>1, <2>2, <2>3, <2>4 DEF GroupStep
<1>5. ASSUME NEW u \in Users, ItemStep(u)
      PROVE  [Lists!Next]_(Lists!vars)
  <2>1. ASSUME NEW g \in DOMAIN groups, NEW url \in Urls, CreateItem(u, g, url)
        PROVE  Lists!UserStep(u)
    BY <2>1, CreateItemSimulated
  <2>2. ASSUME NEW i \in DOMAIN items, NEW p \in AskedPositions, MoveItem(u, i, p)
        PROVE  Lists!UserStep(u)
    <3>1. i \in TilesOf(u) /\ groups' = groups /\ columns' = columns /\ p \in Int
      BY <2>2, ConstantsAssumption DEF MoveItem
    <3>2. PICK g \in OwnedBy(u) : g = items[i].group
      BY <3>1 DEF TilesOf
    <3>3. CarriedTo(i, g, p)
      BY <2>2, <3>1, <3>2, MoveItemDrawn
    <3> QED
      BY <3>1, <3>3, CarriedSimulated
  <2>3. ASSUME NEW i \in DOMAIN items, NEW g \in DOMAIN groups, NEW p \in AskedPositions,
               MoveItemToGroup(u, i, g, p)
        PROVE  Lists!UserStep(u)
    <3>1. i \in TilesOf(u) /\ g \in OwnedBy(u) /\ groups' = groups /\ columns' = columns /\ p \in Int
      BY <2>3, ConstantsAssumption DEF MoveItemToGroup
    <3>2. CarriedTo(i, g, p)
      BY <2>3, <3>1, MoveItemToGroupDrawn
    <3> QED
      BY <3>1, <3>2, CarriedSimulated
  <2>4. ASSUME NEW i \in DOMAIN items, DeleteItem(u, i)
        PROVE  Lists!UserStep(u)
    BY <2>4, DeleteItemSimulated
  <2>5. ASSUME \/ \E i \in DOMAIN items, url \in Urls : UpdateItem(u, i, url)
               \/ \E i \in DOMAIN items : IncrementVisitCount(u, i)
        PROVE  UNCHANGED Lists!vars
    BY <2>5, EditsSimulated
  <2> QED
    BY <1>1, <1>5, <2>1, <2>2, <2>3, <2>4, <2>5 DEF ItemStep
<1>6. ASSUME NEW u \in Users, PageStep(u)
      PROVE  Lists!UserStep(u)
  <2>1. ASSUME NEW width \in 0 .. MaxColumns + 1, UpdateColumns(u, width)
        PROVE  Lists!UserStep(u)
    BY <2>1, UpdateColumnsSimulated
  <2>2. ASSUME NEW file \in Layouts, ReplaceStartPage(u, file)
        PROVE  Lists!UserStep(u)
    BY <2>2, ReplaceStartPageSimulated
  <2> QED
    BY <1>6, <2>1, <2>2, DeleteUserSimulated DEF PageStep
<1> QED
  BY <1>1, <1>2, <1>3, <1>4, <1>5, <1>6 DEF Next

\* An empty database is an empty grid.
LEMMA InitSimulated == Init => Lists!Init
<1> SUFFICES ASSUME Init PROVE Lists!Init
  OBVIOUS
<1>1. DOMAIN columns = {} /\ DOMAIN groups = {} /\ columns = [u \in {} |-> 0]
  BY DEF Init
<1>2. Grid = [u \in {} |-> 0] /\ TilesOfGroups = [g \in {} |-> 0]
  BY <1>1, PageDrawn
<1> QED
  BY <1>1, <1>2 DEF Lists!Init

\* The tables are a grid of lists: read every list ORDER BY position, and a call
\* of the store adds at the end, takes out, puts back at the clamped index or
\* rebuilds, and keeps the order of everything else.  True for tables of any
\* size, and also where a file brings in groups that share a position.
THEOREM PageIsAGridOfLists == Spec => ImplementsLists
<1>1. Init => Lists!Init
  BY InitSimulated
<1>2. Page /\ [Next]_vars => [Lists!Next]_(Lists!vars)
  BY NextSimulated
<1>3. Spec => []Page
  <2>1. Spec => [](TypeOK /\ Sound) /\ []CompactItems(items)
    BY AlwaysSound, TilesAlwaysIndexed
  <2>2. TypeOK /\ Sound /\ CompactItems(items) => Page
    BY DEF Page
  <2> QED
    BY <2>1, <2>2, PTL
<1> QED
  BY <1>1, <1>2, <1>3, PTL DEF Spec, ImplementsLists, Lists!Spec
=============================================================================
