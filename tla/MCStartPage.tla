----------------------------- MODULE MCStartPage -----------------------------
(* StartPage on small grids: two columns at most, a few rows of each kind.  *)
(* The files of TileLayouts are CompactFiles, the third of GridLayouts and   *)
(* the fourth are not.                                                       *)
EXTENDS StartPageRefinement

LOCAL File(width, itsGroups, itsItems) ==
  [width |-> width,
   groups |-> [k \in DOMAIN itsGroups |->
     [column |-> itsGroups[k][1], position |-> itsGroups[k][2], name |-> itsGroups[k][3]]],
   items |-> [k \in DOMAIN itsItems |->
     [group |-> itsItems[k][1], position |-> itsItems[k][2], url |-> itsItems[k][3]]]]

\* Two pages an import takes, in two columns and in one; two that come of keys
\* like 1 and 01, with the first groups of both columns at 0; and three it
\* refuses: a repeated name, a column past the width, a url that is not http(s).
GridLayouts ==
  {File(2, <<<<1, 0, "b">>, <<2, 0, "a">>>>, <<<<2, 0, "x">>>>),
   File(1, <<<<1, 0, "b">>, <<1, 1, "a">>>>, <<>>),
   File(2, <<<<1, 0, "b">>, <<1, 0, "a">>, <<1, 1, "c">>>>, <<<<2, 0, "x">>>>),
   File(2, <<<<1, 0, "b">>, <<1, 0, "a">>>>, <<>>),
   File(1, <<<<1, 0, "a">>, <<1, 1, "a">>>>, <<>>),
   File(1, <<<<2, 0, "a">>>>, <<>>),
   File(1, <<<<1, 0, "a">>>>, <<<<1, 0, "ftp">>>>)}

\* Pages with tiles: two in one group, one in each of two groups, and one an
\* import refuses because a group repeats a url.
TileLayouts ==
  {File(1, <<<<1, 0, "a">>>>, <<<<1, 0, "y">>, <<1, 1, "x">>>>),
   File(1, <<<<1, 0, "a">>, <<1, 1, "b">>>>, <<<<1, 0, "x">>, <<2, 0, "x">>>>),
   File(1, <<<<1, 0, "a">>>>, <<<<1, 0, "x">>, <<1, 1, "x">>>>)}

MCPositions == -1 .. 2
=============================================================================
