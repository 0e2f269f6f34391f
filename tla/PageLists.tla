------------------------------ MODULE PageLists ------------------------------
(***************************************************************************)
(* What a start page promises, with no positions in it: a grid of lists.   *)
(* A user has a number of columns; a column is a sequence of groups; a     *)
(* group is a sequence of tiles.  Things are added at the end of a list,   *)
(* taken out of it, or taken out and put back at an index, and everything  *)
(* else keeps its order.  StartPage implements this with position columns. *)
(***************************************************************************)
EXTENDS Integers, Sequences, SequencesExt

CONSTANTS MaxColumns, Files

VARIABLES
  width,   (* user -> how many columns the grid has                         *)
  grid,    (* user -> column -> sequence of groups                          *)
  tiles    (* group -> sequence of tiles                                    *)

vars == <<width, grid, tiles>>

\* The index a list of this length can take something in at.
Within(index, length) == IF index < 0 THEN 0 ELSE IF index > length THEN length ELSE index

\* A list without x.  Nothing is in a list twice.
Drop(list, x) == RemoveFirst(list, x)

\* A list with x put in at a 0-based index, taken out first if it was there.
PutAt(list, x, index) ==
  LET rest == Drop(list, x)
  IN  InsertAt(rest, Within(index, Len(rest)) + 1, x)

NoGroups == [c \in 1 .. MaxColumns |-> <<>>]
GroupsOf(u) == UNION {ToSet(grid[u][c]) : c \in 1 .. MaxColumns}
ColumnOf(u, g) == CHOOSE c \in 1 .. MaxColumns : g \in ToSet(grid[u][c])

-----------------------------------------------------------------------------
AddGroup(u, g, c) ==
  /\ g \notin DOMAIN tiles
  /\ grid' = [grid EXCEPT ![u][c] = Append(@, g)]
  /\ tiles' = [h \in DOMAIN tiles \cup {g} |-> IF h = g THEN <<>> ELSE tiles[h]]
  /\ UNCHANGED width

CarryGroup(u, g, c, index) ==
  /\ grid' = [grid EXCEPT ![u] = [k \in 1 .. MaxColumns |->
       IF k = c THEN PutAt(@[c], g, index) ELSE Drop(@[k], g)]]
  /\ UNCHANGED <<width, tiles>>

DropGroup(u, g) ==
  /\ grid' = [grid EXCEPT ![u] = [k \in 1 .. MaxColumns |-> Drop(@[k], g)]]
  /\ tiles' = [h \in DOMAIN tiles \ {g} |-> tiles[h]]
  /\ UNCHANGED width

AddTile(g, i) ==
  /\ \A h \in DOMAIN tiles : i \notin ToSet(tiles[h])
  /\ tiles' = [tiles EXCEPT ![g] = Append(@, i)]
  /\ UNCHANGED <<width, grid>>

CarryTile(i, g, index) ==
  /\ tiles' = [h \in DOMAIN tiles |->
       IF h = g THEN PutAt(tiles[g], i, index) ELSE Drop(tiles[h], i)]
  /\ UNCHANGED <<width, grid>>

DropTile(i) ==
  /\ tiles' = [h \in DOMAIN tiles |-> Drop(tiles[h], i)]
  /\ UNCHANGED <<width, grid>>

\* The grid is only ever narrowed to columns that hold everything.
Resize(u, n) ==
  /\ \A c \in n + 1 .. MaxColumns : grid[u][c] = <<>>
  /\ width' = [width EXCEPT ![u] = n]
  /\ UNCHANGED <<grid, tiles>>

\* The page becomes the one a file describes: file.grid[c] lists the sizes of
\* column c's groups, every one of them new, with new tiles in it.
Rebuild(u, file) ==
  LET kept == DOMAIN tiles \ GroupsOf(u)
      built == DOMAIN tiles' \ DOMAIN tiles
  IN  /\ width' = [width EXCEPT ![u] = file.width]
      /\ \A v \in DOMAIN grid \ {u} : grid'[v] = grid[v]
      /\ DOMAIN grid' = DOMAIN grid
      /\ kept \subseteq DOMAIN tiles'
      /\ DOMAIN tiles' = kept \cup built
      /\ \A g \in kept : tiles'[g] = tiles[g]
      /\ \A c \in 1 .. MaxColumns :
           /\ ToSet(grid'[u][c]) \subseteq built
           /\ [k \in DOMAIN grid'[u][c] |-> Len(tiles'[grid'[u][c][k]])] = file.grid[c]

AddUser(u) ==
  /\ u \notin DOMAIN width
  /\ width' = [v \in DOMAIN width \cup {u} |-> IF v = u THEN 1 ELSE width[v]]
  /\ grid' = [v \in DOMAIN grid \cup {u} |-> IF v = u THEN NoGroups ELSE grid[v]]
  /\ UNCHANGED tiles

DropUser(u) ==
  /\ width' = [v \in DOMAIN width \ {u} |-> width[v]]
  /\ grid' = [v \in DOMAIN grid \ {u} |-> grid[v]]
  /\ tiles' = [g \in DOMAIN tiles \ GroupsOf(u) |-> tiles[g]]

-----------------------------------------------------------------------------
Init ==
  /\ width = [u \in {} |-> 0]
  /\ grid = [u \in {} |-> 0]
  /\ tiles = [g \in {} |-> 0]

CONSTANTS UserIds, GroupIds, ItemIds, Indexes

UserStep(u) ==
  \/ \E g \in GroupIds, c \in 1 .. width[u] : AddGroup(u, g, c)
  \/ \E g \in GroupsOf(u) :
       \/ \E c \in 1 .. width[u], k \in Indexes : CarryGroup(u, g, c, k)
       \/ DropGroup(u, g)
       \/ \E i \in ItemIds : AddTile(g, i)
       \/ \E h \in GroupsOf(u), k \in Indexes :
            \E i \in ToSet(tiles[h]) : CarryTile(i, g, k)
       \/ \E i \in ToSet(tiles[g]) : DropTile(i)
  \/ \E n \in 1 .. MaxColumns : Resize(u, n)
  \/ \E file \in Files : Rebuild(u, file)
  \/ DropUser(u)

Next ==
  \/ \E u \in UserIds : AddUser(u)
  \/ \E u \in DOMAIN width : UserStep(u)

Spec == Init /\ [][Next]_vars
=============================================================================
