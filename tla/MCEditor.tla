------------------------------ MODULE MCEditor ------------------------------
(* The groups of a column: twin, in the second, has the link of one in the  *)
(* first, as has the tile that is yet to come; the third is empty.          *)
EXTENDS Editor, TLC

CONSTANTS g1, g2, g3, a, b, twin, late
SlotsAlike == Permutations(Slots)
TwoOne == g1 :> <<a, b>> @@ g2 :> <<twin>>
OneEach == g1 :> <<a>> @@ g2 :> <<twin>> @@ g3 :> <<>>
Links == a :> 1 @@ b :> 2 @@ twin :> 1 @@ late :> 2
LinksOfTwo == a :> 1 @@ twin :> 1
=============================================================================
