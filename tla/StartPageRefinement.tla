------------------------- MODULE StartPageRefinement -------------------------
(***************************************************************************)
(* StartPage implements PageLists: read every list ORDER BY position, and  *)
(* each store call is one step of the grid of lists, or none.              *)
(***************************************************************************)
EXTENDS StartPage, SequencesExt

\* What a file describes, column by column: how many tiles each group holds.
GridOf(file) ==
  [c \in 1 .. MaxColumns |->
     LET inColumn == Drawn({k \in DOMAIN file.groups : file.groups[k].column = c},
                           PositionsOf(file.groups))
     IN  [k \in DOMAIN inColumn |->
            Cardinality({j \in DOMAIN file.items : file.items[j].group = inColumn[k]})]]

\* The tables as lists.
Grid ==
  [u \in Users |-> [c \in 1 .. MaxColumns |-> Drawn(InColumn(u, c), PositionsOf(groups))]]
TilesOfGroups == [g \in DOMAIN groups |-> Drawn(InGroup(g), PositionsOf(items))]

Lists == INSTANCE PageLists WITH
  Files <- {[width |-> file.width, grid |-> GridOf(file)] : file \in Layouts},
  UserIds <- 1 .. MaxUsers, GroupIds <- 1 .. MaxGroups, ItemIds <- 1 .. MaxItems,
  Indexes <- AskedPositions,
  width <- columns, grid <- Grid, tiles <- TilesOfGroups

\* Every store call moves the grid of lists by one step PageLists allows: it
\* adds at the end, takes out, puts back at a clamped index or rebuilds, and
\* keeps the order of everything else.
ImplementsLists == Lists!Spec
=============================================================================
