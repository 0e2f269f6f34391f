------------------------------ MODULE Positions ------------------------------
(***************************************************************************)
(* The list arithmetic shared by internal/store/groups.go and items.go.    *)
(*                                                                         *)
(* The database keeps a list as a set of rows, each with a `position`      *)
(* column, and reads it back with ORDER BY position.  Here a list is a     *)
(* finite set of row ids and pos maps every id to its position.  The       *)
(* queries are answered from the indexes of schema.sql that start with a   *)
(* list's key and its positions and end, as every index of SQLite does,    *)
(* with the row's id: rows that share a position come back in the order of *)
(* their ids.  What is written back are the indexes of that slice, so a    *)
(* renumbering tells rows that were tied apart.                            *)
(***************************************************************************)
EXTENDS Integers, FiniteSets

\* clamp: min(max(value, low), high).
Clamp(value, low, high) ==
  LET raised == IF value < low THEN low ELSE value
  IN  IF raised > high THEN high ELSE raised

\* The rows whose position is smaller than p, and how many they are: the index
\* of the first row with Position >= p in the ordered slice, or its length.
Below(list, pos, p) == {y \in list : pos[y] < p}
FirstAtLeast(list, pos, p) == Cardinality(Below(list, pos, p))

\* Row x comes before row y in the slice ORDER BY position produces.
Before(pos, x, y) == pos[x] < pos[y] \/ (pos[x] = pos[y] /\ x < y)

\* The index of row x in that slice.
Index(list, pos, x) == Cardinality({y \in list : Before(pos, y, x)})

\* SELECT ... ORDER BY position: the rows of a list in the order they are drawn.
Drawn(list, pos) ==
  [k \in 1 .. Cardinality(list) |-> CHOOSE x \in list : Index(list, pos, x) = k - 1]

\* A faulty insert that trades places with the row already at that index.
InsertedBySwap(list, pos, x, index) ==
  [y \in list \cup {x} |->
     IF y = x THEN index ELSE IF pos[y] = index THEN pos[x] ELSE pos[y]]

\* The positions written for insertAt(list, x, index): every row's new position
\* is its index in the slice that results.
InsertedAt(list, pos, x, index) ==
  [y \in list \cup {x} |->
     IF y = x THEN index
     ELSE IF Index(list, pos, y) < index THEN Index(list, pos, y)
     ELSE Index(list, pos, y) + 1]

\* A faulty numbering: rows that share a position keep sharing one.
RenumberedWithTies(list, pos) == [y \in list |-> FirstAtLeast(list, pos, pos[y])]

\* The positions written when a list is numbered 0, 1, 2, ... in its own order.
Renumbered(list, pos) == [y \in list |-> Index(list, pos, y)]

\* MAX(position) + 1, or 0 for an empty list.
NextPosition(list, pos) ==
  IF list = {} THEN 0
  ELSE (CHOOSE p \in {pos[x] : x \in list} : \A x \in list : pos[x] <= p) + 1

\* "Position is 0-based and always compacted, so a position is an index": no
\* two rows share a position and none is past the end.
Compact(list, pos) ==
  /\ \A x \in list : pos[x] \in 0 .. Cardinality(list) - 1
  /\ \A x, y \in list : x # y => pos[x] # pos[y]

\* Rows of a table with the positions in pos written over their own.
Repositioned(rows, pos) ==
  [r \in DOMAIN rows |->
     IF r \in DOMAIN pos THEN [rows[r] EXCEPT !.position = pos[r]] ELSE rows[r]]

\* INSERT: a table with one more row.
WithRow(rows, id, row) ==
  [r \in DOMAIN rows \cup {id} |-> IF r = id THEN row ELSE rows[r]]

\* DELETE: a table without some of its rows.
WithoutRows(rows, ids) == [r \in DOMAIN rows \ ids |-> rows[r]]

\* The position column of a table.
PositionsOf(rows) == [r \in DOMAIN rows |-> rows[r].position]
=============================================================================
