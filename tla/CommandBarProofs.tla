--------------------------- MODULE CommandBarProofs ---------------------------
(***************************************************************************)
(* Theorems about CommandBar, for any page, any queries and any number of  *)
(* searches under way.  What is on screen is always a beginning of the     *)
(* results: the tiles, the row for what was typed, and perhaps the links   *)
(* of an answer to the query that the bar holds.                           *)
(***************************************************************************)
EXTENDS CommandBar, FiniteSetTheorems, SequenceTheorems, TLAPS

-----------------------------------------------------------------------------
(* Lists.                                                                  *)

Elements(s) == {s[k] : k \in DOMAIN s}
IsList(s) == s \in Seq(Elements(s))

LEMMA Lists ==
  ASSUME NEW n \in Nat, NEW s, s = [k \in 1 .. n |-> s[k]]
  PROVE  IsList(s) /\ Len(s) = n
<1> DEFINE S == Elements(s)
<1>1. s \in [1 .. n -> S]
  BY DEF Elements
<1> HIDE DEF S
<1>2. s \in Seq(S) /\ Len(s) = n
  BY <1>1
<1> QED
  BY <1>2 DEF IsList, S

LEMMA ListFacts ==
  ASSUME NEW s, IsList(s)
  PROVE  Len(s) \in Nat /\ DOMAIN s = 1 .. Len(s) /\ (s = <<>> <=> Len(s) = 0)
<1> DEFINE S == Elements(s)
<1>1. s \in Seq(S)
  BY DEF IsList
<1> HIDE DEF S
<1> QED
  BY <1>1

LEMMA NoList == \A s : s = <<>> => IsList(s) /\ Len(s) = 0 /\ DOMAIN s = {}
<1> SUFFICES ASSUME NEW s, s = <<>> PROVE IsList(s) /\ Len(s) = 0 /\ DOMAIN s = {}
  OBVIOUS
<1> QED
  BY DEF IsList

\* In a set that is listed in order, every number has its element.
LEMMA Ranks ==
  ASSUME NEW S, IsFiniteSet(S), NEW before,
         \A x, y \in S : x # y => <<x, y>> \in before \/ <<y, x>> \in before,
         \A x \in S : <<x, x>> \notin before,
         \A x, y, z \in S : <<x, y>> \in before /\ <<y, z>> \in before => <<x, z>> \in before
  PROVE  Cardinality(S) \in Nat /\ \A n \in 1 .. Cardinality(S) : InOrder(S, before)[n] \in S
<1> DEFINE Earlier(x) == {y \in S : <<y, x>> \in before}
           place == [x \in S |-> Cardinality(Earlier(x)) + 1]
<1>1. Cardinality(S) \in Nat
  BY FS_CardinalityType
<1>2. ASSUME NEW x \in S
      PROVE  IsFiniteSet(Earlier(x)) /\ Cardinality(Earlier(x)) \in Nat
  <2>1. Earlier(x) \in SUBSET S
    OBVIOUS
  <2>2. IsFiniteSet(Earlier(x))
    BY <2>1, FS_Subset
  <2> QED
    BY <2>2, FS_CardinalityType
<1>3. ASSUME NEW x \in S, NEW T \in SUBSET S, Earlier(x) \cup {x} \subseteq T
      PROVE  place[x] <= Cardinality(T)
  <2>1. IsFiniteSet(T) /\ Cardinality(T) \in Nat
    BY FS_Subset, FS_CardinalityType
  <2>2. Cardinality(Earlier(x) \cup {x}) = Cardinality(Earlier(x)) + 1
    BY <1>2, FS_AddElement
  <2>3. Earlier(x) \cup {x} \in SUBSET T
    BY <1>3
  <2>4. Cardinality(Earlier(x) \cup {x}) <= Cardinality(T)
    BY <2>1, <2>3, FS_Subset
  <2> QED
    BY <2>2, <2>4
<1>4. place \in [S -> 1 .. Cardinality(S)] /\ \A x \in S : place[x] \in Int
  <2>1. ASSUME NEW x \in S PROVE place[x] \in 1 .. Cardinality(S)
    <3>1. place[x] <= Cardinality(S)
      BY <1>3
    <3> QED
      BY <1>1, <1>2, <3>1
  <2>2. place = [x \in S |-> place[x]]
    OBVIOUS
  <2> HIDE DEF place
  <2> QED
    BY <1>1, <2>1, <2>2
<1>5. ASSUME NEW x \in S, NEW y \in S, <<x, y>> \in before
      PROVE  place[x] < place[y]
  <2>1. Earlier(x) \cup {x} \subseteq Earlier(y)
    BY <1>5
  <2>2. place[x] <= Cardinality(Earlier(y))
    BY <1>3, <2>1
  <2>3. place[y] = Cardinality(Earlier(y)) + 1
    OBVIOUS
  <2>4. Cardinality(Earlier(y)) \in Nat
    BY <1>2
  <2> HIDE DEF place, Earlier
  <2> QED
    BY <1>4, <2>2, <2>3, <2>4
<1>6. place \in Injection(S, 1 .. Cardinality(S))
  <2>1. \A x, y \in S : place[x] = place[y] => x = y
    <3> SUFFICES ASSUME NEW x \in S, NEW y \in S, x # y PROVE place[x] # place[y]
      OBVIOUS
    <3>1. place[x] < place[y] \/ place[y] < place[x]
      BY <1>5
    <3> HIDE DEF place
    <3> QED
      BY <1>4, <3>1
  <2> HIDE DEF place
  <2> QED
    BY <1>4, <2>1 DEF Injection, IsInjective
<1>7. IsFiniteSet(1 .. Cardinality(S)) /\ Cardinality(1 .. Cardinality(S)) = Cardinality(S)
  BY <1>1, FS_Interval
<1>8. place \in Surjection(S, 1 .. Cardinality(S))
  BY <1>6, <1>7, FS_Injection
<1>9. ASSUME NEW n \in 1 .. Cardinality(S)
      PROVE  InOrder(S, before)[n] \in S
  <2>1. PICK x \in S : place[x] = n
    BY <1>8 DEF Surjection
  <2>2. Cardinality(Earlier(x)) = n - 1
    BY <1>2, <2>1
  <2> QED
    BY <2>2 DEF InOrder
<1> QED
  BY <1>1, <1>9

-----------------------------------------------------------------------------
(* Rows.                                                                   *)

LEMMA LocalRows ==
  ASSUME NEW query
  PROVE  /\ IsList(FilterLocalLinks(query))
         /\ \A k \in DOMAIN FilterLocalLinks(query) :
              /\ FilterLocalLinks(query)[k].section = "startPage"
              /\ FilterLocalLinks(query)[k].query = query
<1> DEFINE S == {t \in Tiles : query \in t.matches}
           rows == FilterLocalLinks(query)
<1>1. S \in SUBSET Tiles
  OBVIOUS
<1>2. Cardinality(S) \in Nat
  BY <1>1, CommandBarAssumption, FS_Subset, FS_CardinalityType
<1>3. /\ rows = [k \in 1 .. Cardinality(S) |-> rows[k]]
      /\ \A k \in 1 .. Cardinality(S) : rows[k].section = "startPage" /\ rows[k].query = query
  BY DEF FilterLocalLinks, InOrder, Row
<1> HIDE DEF S, rows
<1>4. IsList(rows) /\ DOMAIN rows = 1 .. Cardinality(S)
  BY <1>2, <1>3, Lists
<1> QED
  BY <1>3, <1>4 DEF rows

LEMMA LinkRows ==
  ASSUME NEW query, NEW urls \in Replies
  PROVE  /\ IsList(NewLinks(query, urls))
         /\ \A k \in DOMAIN NewLinks(query, urls) :
              /\ NewLinks(query, urls)[k].section = "allLinks"
              /\ NewLinks(query, urls)[k].query = query
              /\ \A j \in DOMAIN startPageLinks :
                   startPageLinks[j].to # NewLinks(query, urls)[k].to
<1> DEFINE S == {j \in DOMAIN urls : \A k \in DOMAIN startPageLinks : startPageLinks[k].to # urls[j]}
           before == {pair \in S \X S : pair[1] < pair[2]}
           kept == InOrder(S, before)
           rows == NewLinks(query, urls)
<1>1. S \in SUBSET (1 .. Len(urls)) /\ Len(urls) \in Nat
  BY CommandBarAssumption
<1>2. IsFiniteSet(S)
  BY <1>1, FS_Interval, FS_Subset
<1>3. S \subseteq Int
  BY <1>1
<1>4. /\ \A x, y \in S : x # y => <<x, y>> \in before \/ <<y, x>> \in before
      /\ \A x \in S : <<x, x>> \notin before
      /\ \A x, y, z \in S : <<x, y>> \in before /\ <<y, z>> \in before => <<x, z>> \in before
  <2> HIDE DEF S
  <2> QED
    BY <1>3
<1>5. Cardinality(S) \in Nat /\ \A n \in 1 .. Cardinality(S) : kept[n] \in S
  <2> HIDE DEF S, before
  <2> QED
    BY <1>2, <1>4, Ranks
<1>6. DOMAIN kept = 1 .. Cardinality(S)
  BY DEF InOrder
<1>7. rows = [k \in DOMAIN kept |-> Row("allLinks", urls[kept[k]], query)]
  BY DEF NewLinks
<1>8. \A n \in S : \A j \in DOMAIN startPageLinks : startPageLinks[j].to # urls[n]
  OBVIOUS
<1> HIDE DEF S, kept, rows
<1>9. IsList(rows) /\ DOMAIN rows = 1 .. Cardinality(S)
  BY <1>5, <1>6, <1>7, Lists
<1> QED
  BY <1>5, <1>6, <1>7, <1>8, <1>9 DEF rows, Row

LEMMA ResultRows ==
  ASSUME NEW tiles, IsList(tiles), NEW links, IsList(links), NEW query
  PROVE  /\ IsList(Results(tiles, query, links))
         /\ Len(Results(tiles, query, links)) = Len(tiles) + 1 + Len(links)
         /\ \A k \in 1 .. Len(tiles) : Results(tiles, query, links)[k] = tiles[k]
         /\ Results(tiles, query, links)[Len(tiles) + 1] = TypedRow(query)
         /\ \A k \in 1 .. Len(links) : Results(tiles, query, links)[Len(tiles) + 1 + k] = links[k]
<1> DEFINE S == Elements(tiles) \cup Elements(links) \cup {TypedRow(query)}
           row == TypedRow(query)
           results == Results(tiles, query, links)
<1>1. Len(tiles) \in Nat /\ Len(links) \in Nat
      /\ DOMAIN tiles = 1 .. Len(tiles) /\ DOMAIN links = 1 .. Len(links)
  BY ListFacts
<1>2. tiles \in Seq(S) /\ links \in Seq(S) /\ row \in S
  <2>1. tiles \in [1 .. Len(tiles) -> S] /\ links \in [1 .. Len(links) -> S]
    <3>1. tiles \in Seq(Elements(tiles)) /\ links \in Seq(Elements(links))
      BY DEF IsList
    <3>2. tiles \in [1 .. Len(tiles) -> Elements(tiles)] /\ links \in [1 .. Len(links) -> Elements(links)]
      BY <3>1, LenProperties
    <3> QED
      BY <3>2
  <2> HIDE DEF S
  <2>2. tiles \in Seq(S) /\ links \in Seq(S)
    BY <1>1, <2>1
  <2> QED
    BY <2>2 DEF S
<1>3. results = tiles \o <<row>> \o links
  BY DEF Results
<1> HIDE DEF S, row, results
<1>4. /\ results \in Seq(S) /\ Len(results) = Len(tiles) + 1 + Len(links)
      /\ \A k \in 1 .. Len(tiles) : results[k] = tiles[k]
      /\ results[Len(tiles) + 1] = row
      /\ \A k \in 1 .. Len(links) : results[Len(tiles) + 1 + k] = links[k]
  BY <1>1, <1>2, <1>3
<1>5. IsList(results)
  <2>1. results \in [1 .. Len(results) -> S] /\ Len(results) \in Nat
    BY <1>4, LenProperties
  <2> QED
    BY <2>1, Lists
<1> QED
  BY <1>4, <1>5 DEF results, row

-----------------------------------------------------------------------------
(* The invariant.                                                          *)

\* What a render of these tiles for this query leaves on screen: as much of the
\* results as is drawn, the tiles and the row for what was typed at the least.
Screen(tiles, query, results, screen) ==
  /\ Len(tiles) < Len(screen.rows) /\ Len(screen.rows) <= Len(results)
  /\ \A k \in 1 .. Len(screen.rows) :
       /\ screen.rows[k] = results[k] /\ results[k].query = query
       /\ k <= Len(tiles) => results[k] = tiles[k]
       /\ k = Len(tiles) + 1 => results[k] = TypedRow(query)
       /\ k > Len(tiles) + 1 =>
            /\ results[k].section = "allLinks"
            /\ \A j \in DOMAIN tiles : tiles[j].to # results[k].to

\* Rows, the highlight, and whether it says that it is searching.
IsScreen(screen) ==
  screen = [rows |-> screen.rows, lit |-> screen.lit, searching |-> screen.searching]

ResultType ==
  /\ IsList(startPageLinks) /\ IsList(serverLinks) /\ IsList(allResults) /\ IsList(shown.rows)
  /\ selectedIndex \in Int /\ -1 <= selectedIndex /\ selectedIndex < Len(allResults)
  /\ IsScreen(shown)
OfTheQuery ==
  /\ \A k \in DOMAIN startPageLinks :
       startPageLinks[k].section = "startPage" /\ startPageLinks[k].query = currentQuery
  /\ input # "" => input = currentQuery /\ startPageLinks = FilterLocalLinks(input)
Known ==
  /\ \A k \in DOMAIN serverLinks : serverLinks[k].section = "allLinks"
  /\ \A k \in DOMAIN allResults :
       allResults[k].section = "typed" => allResults[k] = TypedRow(currentQuery)
\* Without an active connection nothing is asked, so nothing is answered.
Quiet ==
  federation # "active" =>
    /\ serverLinks = <<>> /\ isSearching = FALSE /\ searchTimeout = ""
    /\ \A q \in Queries : fetches[q] = 0
Visible ==
  /\ shown.rows # <<>> => Screen(startPageLinks, currentQuery, allResults, shown)
  /\ shown.lit = Lit(shown.rows, selectedIndex)

IInv == ResultType /\ OfTheQuery /\ Known /\ Quiet /\ Visible

\* A render shows what it is given, and clamps the selection to it.
LEMMA RenderInv ==
  ASSUME NEW tiles, IsList(tiles), NEW links, IsList(links), NEW query, NEW searching \in BOOLEAN,
         \A k \in DOMAIN tiles : tiles[k].section = "startPage" /\ tiles[k].query = query,
         \A k \in DOMAIN links : links[k].section = "allLinks",
         ~searching => \A k \in DOMAIN links :
           links[k].query = query /\ \A j \in DOMAIN tiles : tiles[j].to # links[k].to,
         selectedIndex \in Int,
         Render(tiles, query, links, searching)
  PROVE  /\ IsList(allResults') /\ IsList(shown'.rows)
         /\ IsScreen(shown')
         /\ selectedIndex' \in Int /\ -1 <= selectedIndex' /\ selectedIndex' < Len(allResults')
         /\ \A k \in DOMAIN allResults' :
              allResults'[k].section = "typed" => allResults'[k] = TypedRow(query)
         /\ shown'.rows # <<>>
         /\ Screen(tiles, query, allResults', shown')
         /\ shown'.lit = Lit(shown'.rows, selectedIndex')
         /\ (~searching /\ 0 <= selectedIndex /\ selectedIndex <= Len(tiles)) =>
              selectedIndex' = selectedIndex /\ shown'.lit = selectedIndex
<1> DEFINE results == Results(tiles, query, links)
           rows == Drawn(results, tiles, searching)
           n == Len(tiles)
           row == TypedRow(query)
<1>1. /\ n \in Nat /\ Len(links) \in Nat
      /\ DOMAIN tiles = 1 .. n /\ DOMAIN links = 1 .. Len(links)
  BY ListFacts
<1>2. /\ IsList(results) /\ Len(results) = n + 1 + Len(links)
      /\ \A k \in 1 .. n : results[k] = tiles[k]
      /\ results[n + 1] = row
      /\ \A k \in 1 .. Len(links) : results[n + 1 + k] = links[k]
  BY ONLY IsList(tiles), IsList(links), ResultRows
<1>3. /\ allResults' = results
      /\ selectedIndex' = Smaller(Larger(selectedIndex, 0), Len(results) - 1)
      /\ shown' = [rows |-> rows, lit |-> Lit(rows, selectedIndex'), searching |-> searching]
  BY DEF Render
<1>4. row.section = "typed" /\ row.query = query
  BY DEF TypedRow, Row
<1>5. rows = IF searching THEN SubSeq(results, 1, n + 1) ELSE results
  BY DEF Drawn
<1> HIDE DEF results, rows, n, row
<1>6. /\ IsList(rows) /\ Len(rows) = IF searching THEN n + 1 ELSE n + 1 + Len(links)
      /\ \A k \in 1 .. Len(rows) : rows[k] = results[k]
  <2>1. CASE searching
    <3> DEFINE S == Elements(results)
    <3>1. results \in Seq(S)
      BY <1>2 DEF IsList
    <3> HIDE DEF S
    <3>2. rows \in Seq(S) /\ Len(rows) = n + 1 /\ \A k \in 1 .. n + 1 : rows[k] = results[k]
      BY <1>1, <1>2, <1>5, <2>1, <3>1
    <3>3. rows \in [1 .. Len(rows) -> S] /\ Len(rows) \in Nat
      BY <3>2, LenProperties
    <3>4. IsList(rows)
      BY <3>3, Lists
    <3> QED
      BY <2>1, <3>2, <3>4
  <2>2. CASE ~searching
    BY <1>2, <1>5, <2>2
  <2> QED
    BY <2>1, <2>2
<1>7. ASSUME NEW k \in 1 .. Len(results)
      PROVE  \/ k \in 1 .. n /\ results[k] = tiles[k]
             \/ k = n + 1 /\ results[k] = row
             \/ /\ k - n - 1 \in 1 .. Len(links) /\ k > n + 1
                /\ results[k] = links[k - n - 1]
  <2>1. CASE k <= n + 1
    BY <1>1, <1>2, <2>1
  <2>2. CASE k > n + 1
    <3>1. k - n - 1 \in 1 .. Len(links) /\ n + 1 + (k - n - 1) = k
      BY <1>1, <1>2, <2>2
    <3>2. results[n + 1 + (k - n - 1)] = links[k - n - 1]
      BY <1>2, <3>1
    <3> QED
      BY <2>2, <3>1, <3>2
  <2> QED
    BY <1>1, <1>2, <2>1, <2>2
<1>8. DOMAIN results = 1 .. Len(results)
  BY <1>2, ListFacts
<1>9. \A k \in DOMAIN results : results[k].section = "typed" => results[k] = row
  BY <1>1, <1>7, <1>8
<1>10. Screen(tiles, query, results, shown')
  <2>1. shown'.rows = rows
    BY <1>3
  <2>2. n < Len(rows) /\ Len(rows) <= Len(results)
    BY <1>1, <1>2, <1>6
  <2>3. ASSUME NEW k \in 1 .. Len(rows)
        PROVE  /\ rows[k] = results[k] /\ results[k].query = query
               /\ k <= n => results[k] = tiles[k]
               /\ k = n + 1 => results[k] = row
               /\ k > n + 1 =>
                    /\ results[k].section = "allLinks"
                    /\ \A j \in DOMAIN tiles : tiles[j].to # results[k].to
    <3>1. k \in 1 .. Len(results)
      BY <1>1, <1>2, <1>6
    <3>2. CASE k <= n + 1
      BY <1>1, <1>4, <1>6, <1>7, <3>1, <3>2
    <3>3. CASE k > n + 1
      <4>1. ~searching
        BY <1>1, <1>6, <3>3
      <4>2. k - n - 1 \in 1 .. Len(links) /\ results[k] = links[k - n - 1]
        BY <1>1, <1>7, <3>1, <3>3
      <4> QED
        BY <1>1, <1>6, <3>3, <4>1, <4>2
    <3> QED
      BY <1>1, <3>2, <3>3
  <2> QED
    BY <2>1, <2>2, <2>3 DEF Screen, n, row
<1>11. /\ selectedIndex' \in Int /\ -1 <= selectedIndex' /\ selectedIndex' < Len(results)
       /\ 0 <= selectedIndex /\ selectedIndex <= n => selectedIndex' = selectedIndex
  BY <1>1, <1>2, <1>3 DEF Smaller, Larger
<1>12. ~searching /\ 0 <= selectedIndex /\ selectedIndex <= n =>
         selectedIndex' = selectedIndex /\ Lit(rows, selectedIndex') = selectedIndex
  BY <1>1, <1>6, <1>11 DEF Lit
<1>13. rows # <<>>
  BY <1>1, <1>6, NoList
<1>14. IsScreen(shown')
  BY <1>3 DEF IsScreen
<1> QED
  BY <1>2, <1>3, <1>6, <1>9, <1>10, <1>11, <1>12, <1>13, <1>14 DEF n, row

\* Clearing shows nothing.
LEMMA ClearInv ==
  ASSUME ClearSearch, input' = "",
         federation' # "active" => \A q \in Queries : fetches'[q] = 0
  PROVE  IInv'
<1>1. ResultType'
  <2>1. /\ startPageLinks' = <<>> /\ serverLinks' = <<>> /\ allResults' = <<>>
        /\ shown'.rows = <<>> /\ selectedIndex' = -1
    BY DEF ClearSearch, Hidden
  <2>2. /\ IsList(startPageLinks') /\ IsList(serverLinks') /\ IsList(allResults')
        /\ IsList(shown'.rows) /\ Len(allResults') = 0
    BY <2>1, NoList
  <2>3. selectedIndex' \in Int /\ -1 <= selectedIndex' /\ selectedIndex' < Len(allResults')
    <3>1. Len(allResults') = 0
      BY <2>2
    <3>2. selectedIndex' = -1
      BY <2>1
    <3> QED
      BY ONLY <3>1, <3>2
  <2>4. IsScreen(shown')
    BY DEF ClearSearch, Hidden, IsScreen
  <2>5. IsList(shown.rows)'
    BY <2>2
  <2> QED
    BY <2>2, <2>3, <2>4, <2>5 DEF ResultType
<1>2. OfTheQuery' /\ Known' /\ Quiet'
  BY NoList DEF ClearSearch, OfTheQuery, Known, Quiet
<1>3. Visible'
  BY NoList DEF ClearSearch, Visible, Hidden, Lit
<1> QED
  BY <1>1, <1>2, <1>3 DEF IInv

LEMMA TypeInv ==
  ASSUME IInv, NEW query \in Queries, Type(query)
  PROVE  IInv'
<1> DEFINE tiles == FilterLocalLinks(query)
<1>1. /\ IsList(tiles)
      /\ \A k \in DOMAIN tiles : tiles[k].section = "startPage" /\ tiles[k].query = query
  BY LocalRows
<1>2. /\ isSearching' = TRUE \/ (isSearching' = FALSE /\ serverLinks = <<>>)
      /\ federation # "active" => UNCHANGED <<isSearching, searchTimeout>>
  BY DEF Type, IInv, Quiet
<1>3. Render(tiles, query, serverLinks, isSearching')
  BY DEF Type
<1>4. startPageLinks' = tiles /\ input' = query /\ currentQuery' = query
  BY DEF Type
<1> HIDE DEF tiles
<1>5. /\ IsList(allResults') /\ IsList(shown'.rows)
      /\ IsScreen(shown')
      /\ selectedIndex' \in Int /\ -1 <= selectedIndex' /\ selectedIndex' < Len(allResults')
      /\ \A k \in DOMAIN allResults' :
           allResults'[k].section = "typed" => allResults'[k] = TypedRow(query)
      /\ shown'.rows # <<>>
      /\ Screen(tiles, query, allResults', shown')
      /\ shown'.lit = Lit(shown'.rows, selectedIndex')
  <2>1. IsList(serverLinks) /\ selectedIndex \in Int
        /\ \A k \in DOMAIN serverLinks : serverLinks[k].section = "allLinks"
    BY DEF IInv, ResultType, Known
  <2>2. isSearching' \in BOOLEAN
    BY <1>2
  <2>3. ~isSearching' => DOMAIN serverLinks = {}
    BY <1>2, NoList
  <2> QED
    BY <1>1, <1>3, <2>1, <2>2, <2>3, RenderInv
<1>6. ResultType'
  BY <1>1, <1>4, <1>5 DEF Type, IInv, ResultType
<1>7. OfTheQuery'
  BY <1>1, <1>4 DEF OfTheQuery, tiles
<1>8. Known' /\ Visible'
  BY <1>4, <1>5 DEF Type, IInv, Known, Visible, Screen
<1>9. Quiet'
  BY <1>2 DEF Type, IInv, Quiet
<1> QED
  BY <1>6, <1>7, <1>8, <1>9 DEF IInv

\* The results of an answer, and what it puts on screen if it is current.
Kept(links) ==
  /\ IsList(links) /\ \A k \in DOMAIN links : links[k].section = "allLinks"
  /\ \A k \in DOMAIN links :
       links[k].query = currentQuery /\ \A j \in DOMAIN startPageLinks : startPageLinks[j].to # links[k].to

LEMMA FinishFacts ==
  ASSUME IInv, NEW query \in Queries, Settle(query)
  PROVE  \E links :
           /\ Finish(query, links)
           /\ IsList(links) /\ \A k \in DOMAIN links : links[k].section = "allLinks"
           /\ IsCurrent(query) => Kept(links)
<1>1. CASE Failed(query)
  BY <1>1, NoList DEF Failed, Kept
<1>2. CASE Answered(query) /\ IsCurrent(query)
  <2>1. PICK urls \in Replies : Finish(query, NewLinks(query, urls))
    BY <1>2 DEF Answered
  <2>2. Kept(NewLinks(query, urls))
    BY <1>2, LinkRows DEF Kept, IsCurrent
  <2> QED
    BY <2>1, <2>2 DEF Kept
<1>3. CASE Answered(query) /\ ~IsCurrent(query)
  <2>1. Finish(query, serverLinks)
    BY <1>3 DEF Answered
  <2> QED
    BY <1>3, <2>1 DEF IInv, ResultType, Known
<1> QED
  BY <1>1, <1>2, <1>3 DEF Settle

LEMMA FinishRender ==
  ASSUME IInv, NEW query, NEW links, IsCurrent(query), Kept(links), Finish(query, links)
  PROVE  /\ IsList(allResults') /\ IsList(shown'.rows)
         /\ IsScreen(shown')
         /\ selectedIndex' \in Int /\ -1 <= selectedIndex' /\ selectedIndex' < Len(allResults')
         /\ \A k \in DOMAIN allResults' :
              allResults'[k].section = "typed" => allResults'[k] = TypedRow(currentQuery)
         /\ shown'.rows # <<>>
         /\ Screen(startPageLinks, currentQuery, allResults', shown')
         /\ shown'.lit = Lit(shown'.rows, selectedIndex')
         /\ 0 <= selectedIndex /\ selectedIndex <= Len(startPageLinks) =>
              selectedIndex' = selectedIndex /\ shown'.lit = selectedIndex
<1>1. PICK searching \in BOOLEAN :
        ~searching /\ Render(startPageLinks, currentQuery, links, searching)
  <2>1. Render(startPageLinks, currentQuery, links, FALSE)
    BY DEF Finish
  <2> QED
    BY <2>1, Zenon
<1>2. /\ IsList(startPageLinks) /\ selectedIndex \in Int
      /\ \A k \in DOMAIN startPageLinks :
           startPageLinks[k].section = "startPage" /\ startPageLinks[k].query = currentQuery
  BY DEF IInv, ResultType, OfTheQuery
<1>3. /\ IsList(links)
      /\ \A k \in DOMAIN links : links[k].section = "allLinks"
      /\ \A k \in DOMAIN links :
           links[k].query = currentQuery /\ \A j \in DOMAIN startPageLinks : startPageLinks[j].to # links[k].to
  BY DEF Kept
<1> HIDE DEF Kept, Finish
<1> QED
  BY <1>1, <1>2, <1>3, RenderInv

LEMMA SettleInv ==
  ASSUME IInv, NEW query \in Queries, Settle(query)
  PROVE  IInv'
<1>1. PICK links :
        /\ Finish(query, links)
        /\ IsList(links) /\ \A k \in DOMAIN links : links[k].section = "allLinks"
        /\ IsCurrent(query) => Kept(links)
  BY FinishFacts
<1>2. Quiet' /\ OfTheQuery'
  <2>1. federation = "active" /\ federation' = federation
    <3>1. fetches[query] > 0 /\ federation' = federation
      BY <1>1 DEF Finish
    <3>2. fetches[query] # 0
      BY <3>1
    <3>3. federation # "active" => \A q \in Queries : fetches[q] = 0
      BY DEF IInv, Quiet
    <3> QED
      BY <3>1, <3>2, <3>3
  <2>2. UNCHANGED <<input, currentQuery, startPageLinks>>
    BY <1>1 DEF Finish
  <2>3. OfTheQuery
    BY DEF IInv
  <2> QED
    BY <2>1, <2>2, <2>3 DEF Quiet, OfTheQuery
<1>3. CASE IsCurrent(query)
  BY <1>1, <1>2, <1>3, FinishRender DEF Finish, IInv, ResultType, Known, Visible, Screen
<1>4. CASE ~IsCurrent(query)
  BY <1>1, <1>2, <1>4 DEF Finish, IInv, ResultType, Known, Visible, Screen
<1> QED
  BY <1>3, <1>4

LEMMA SelectInv ==
  ASSUME IInv, NavigateDown \/ NavigateUp
  PROVE  IInv'
<1>1. PICK index \in Int : Select(index) /\ 0 <= index /\ index < Len(allResults)
  <2>1. allResults # <<>>
    BY DEF NavigateDown, NavigateUp, Select
  <2>2. Len(allResults) \in Nat /\ Len(allResults) # 0 /\ selectedIndex \in Int
        /\ -1 <= selectedIndex /\ selectedIndex < Len(allResults)
    BY <2>1, ListFacts DEF IInv, ResultType
  <2>3. CASE NavigateDown
    <3>1. (selectedIndex + 1) % Len(allResults) \in 0 .. Len(allResults) - 1
      BY <2>2
    <3> QED
      BY <2>2, <2>3, <3>1 DEF NavigateDown
  <2>4. CASE NavigateUp
    BY <2>2, <2>4 DEF NavigateUp
  <2> QED
    BY <2>3, <2>4
<1>2. /\ selectedIndex' = index
      /\ shown' = [shown EXCEPT !.lit = Lit(shown.rows, index)]
      /\ UNCHANGED <<federation, input, currentQuery, startPageLinks, serverLinks, allResults,
                     isSearching, searchTimeout, fetches>>
  BY <1>1 DEF Select
<1>3. /\ shown'.rows = shown.rows /\ shown'.lit = Lit(shown.rows, index)
      /\ IsScreen(shown')
  BY <1>2 DEF IInv, ResultType, IsScreen
<1>4. ResultType'
  BY <1>1, <1>2, <1>3 DEF IInv, ResultType
<1>7. Known'
  BY <1>2 DEF IInv, Known
<1>8. Quiet'
  BY <1>2 DEF IInv, Quiet
<1>5. OfTheQuery'
  BY <1>2 DEF IInv, OfTheQuery
<1>6. Visible'
  BY <1>2, <1>3 DEF IInv, Visible, Screen
<1> QED
  BY <1>4, <1>5, <1>6, <1>7, <1>8 DEF IInv

LEMMA NextInv == IInv /\ [Next]_vars => IInv'
<1> SUFFICES ASSUME IInv, [Next]_vars PROVE IInv'
  OBVIOUS
<1>1. CASE Empty
  BY <1>1, ClearInv DEF Empty, IInv, Quiet
<1>2. CASE Escape
  BY <1>2, ClearInv DEF Escape, IInv, Quiet
<1>3. CASE Leave
  BY <1>3, ClearInv DEF Leave
<1>4. CASE FetchServerResults
  BY <1>4 DEF FetchServerResults, IInv, ResultType, OfTheQuery, Known, Quiet, Visible, Screen
<1>5. CASE UNCHANGED vars
  BY <1>5 DEF vars, IInv, ResultType, OfTheQuery, Known, Quiet, Visible, Screen
<1> QED
  BY <1>1, <1>2, <1>3, <1>4, <1>5, TypeInv, SettleInv, SelectInv DEF Next

LEMMA InitInv == Connect => IInv
<1> SUFFICES ASSUME Connect PROVE IInv
  OBVIOUS
<1>1. ResultType
  <2>1. /\ startPageLinks = <<>> /\ serverLinks = <<>> /\ allResults = <<>>
        /\ shown.rows = <<>> /\ selectedIndex = -1
        /\ IsScreen(shown)
    BY DEF Connect, Hidden, IsScreen
  <2> QED
    BY <2>1, NoList DEF ResultType
<1> QED
  BY <1>1, NoList DEF Connect, IInv, OfTheQuery, Known, Quiet, Visible, Hidden, Lit

LEMMA AlwaysInv == Spec => []IInv
BY InitInv, NextInv, PTL DEF Spec

-----------------------------------------------------------------------------

\* A row opens what it says it opens, and Enter the row that is highlighted,
\* whatever was typed and answered since it was drawn.
THEOREM RowsAlwaysOpenWhatTheySay == Spec => []RowsOpenWhatTheySay
<1>1. IInv => RowsOpenWhatTheySay
  <2> SUFFICES ASSUME IInv PROVE RowsOpenWhatTheySay
    OBVIOUS
  <2>1. /\ Len(shown.rows) \in Nat /\ DOMAIN shown.rows = 1 .. Len(shown.rows)
        /\ Len(allResults) \in Nat /\ DOMAIN allResults = 1 .. Len(allResults)
    BY ListFacts DEF IInv, ResultType
  <2>2. ASSUME NEW i \in Int, i + 1 \in DOMAIN shown.rows
        PROVE  i + 1 \in DOMAIN allResults /\ Destination(i) = shown.rows[i + 1]
    <3>1. shown.rows # <<>>
      BY <2>1, <2>2, NoList
    <3>2. i + 1 \in DOMAIN allResults /\ allResults[i + 1] = shown.rows[i + 1]
      BY <2>1, <2>2, <3>1 DEF IInv, Visible, Screen
    <3> QED
      BY <3>2 DEF Destination, IInv, Known
  <2>3. ASSUME NEW k \in DOMAIN shown.rows
        PROVE  k \in DOMAIN allResults /\ Destination(k - 1) = shown.rows[k]
    <3>1. k - 1 \in Int /\ k - 1 + 1 = k
      BY <2>1
    <3>2. k - 1 + 1 \in DOMAIN allResults /\ Destination(k - 1) = shown.rows[k - 1 + 1]
      BY <2>2, <3>1
    <3> QED
      BY <3>1, <3>2
  <2>4. ASSUME shown.lit # -1
        PROVE  EnterGoesTo = shown.rows[shown.lit + 1]
    <3>1. /\ shown.lit = selectedIndex /\ selectedIndex \in Int /\ 0 <= selectedIndex
          /\ selectedIndex < Len(shown.rows)
      BY <2>4 DEF IInv, Visible, Lit, ResultType
    <3>2. /\ Destination(selectedIndex) = shown.rows[selectedIndex + 1]
          /\ selectedIndex + 1 \in DOMAIN allResults
      BY <2>1, <2>2, <3>1
    <3>3. allResults # <<>>
      BY <3>2, NoList
    <3> QED
      BY <3>1, <3>2, <3>3 DEF EnterGoesTo
  <2> QED
    BY <2>3, <2>4 DEF RowsOpenWhatTheySay
<1> QED
  BY <1>1, AlwaysInv, PTL

\* What is on screen is about the text in the bar, whichever answers came late,
\* and lists no tile's address again.
THEOREM NothingStaleIsEverShown == Spec => []NothingStaleIsShown
<1>1. IInv => NothingStaleIsShown
  <2> SUFFICES ASSUME IInv PROVE NothingStaleIsShown
    OBVIOUS
  <2>1. CASE shown.rows = <<>>
    BY <2>1 DEF NothingStaleIsShown
  <2>2. CASE shown.rows # <<>>
    <3>1. /\ Len(shown.rows) \in Nat /\ DOMAIN shown.rows = 1 .. Len(shown.rows)
          /\ Len(startPageLinks) \in Nat /\ DOMAIN startPageLinks = 1 .. Len(startPageLinks)
      BY ListFacts DEF IInv, ResultType
    <3>2. Screen(startPageLinks, currentQuery, allResults, shown)
      BY <2>2 DEF IInv, Visible
    <3>3. input # "" => \A k \in DOMAIN shown.rows : shown.rows[k].query = input
      BY <3>1, <3>2 DEF Screen, IInv, OfTheQuery
    <3>4. ASSUME NEW j \in DOMAIN shown.rows, NEW k \in DOMAIN shown.rows,
                 shown.rows[j].section = "startPage", shown.rows[k].section = "allLinks"
          PROVE  shown.rows[j].to # shown.rows[k].to
      <4>1. TypedRow(currentQuery).section = "typed"
        BY DEF TypedRow, Row
      <4>2. j \in DOMAIN startPageLinks /\ shown.rows[j] = startPageLinks[j]
        BY <3>1, <3>2, <3>4, <4>1 DEF Screen
      <4>3. k > Len(startPageLinks) + 1
        <5>1. ASSUME k <= Len(startPageLinks)
              PROVE  FALSE
          <6>1. k \in DOMAIN startPageLinks /\ shown.rows[k] = startPageLinks[k]
            BY <3>1, <3>2, <5>1 DEF Screen
          <6>2. startPageLinks[k].section = "startPage"
            BY <6>1 DEF IInv, OfTheQuery
          <6> QED
            BY <3>4, <6>1, <6>2
        <5>2. k # Len(startPageLinks) + 1
          BY <3>1, <3>2, <3>4, <4>1 DEF Screen
        <5> QED
          BY <3>1, <5>1, <5>2
      <4> QED
        BY <3>1, <3>2, <4>2, <4>3 DEF Screen
    <3> QED
      BY <3>3, <3>4 DEF NothingStaleIsShown
  <2> QED
    BY <2>1, <2>2
<1> QED
  BY <1>1, AlwaysInv, PTL

\* Two screens of the same tiles and the same query begin alike.
LEMMA ScreensBeginAlike ==
  ASSUME NEW tiles, IsList(tiles), NEW query,
         NEW results, NEW screen, IsList(screen.rows), Screen(tiles, query, results, screen),
         NEW others, NEW other, IsList(other.rows), Screen(tiles, query, others, other),
         NEW k \in DOMAIN screen.rows, screen.rows[k].section # "allLinks"
  PROVE  /\ k \in DOMAIN other.rows /\ other.rows[k] = screen.rows[k]
         /\ k \in Int /\ 0 <= k - 1 /\ k - 1 <= Len(tiles)
<1>1. /\ Len(tiles) \in Nat /\ Len(screen.rows) \in Nat /\ Len(other.rows) \in Nat
      /\ DOMAIN screen.rows = 1 .. Len(screen.rows) /\ DOMAIN other.rows = 1 .. Len(other.rows)
  BY ListFacts
<1>2. k \in 1 .. Len(screen.rows)
  BY <1>1
<1>3. k <= Len(tiles) + 1
  BY <1>1, <1>2 DEF Screen
<1>4. k \in 1 .. Len(other.rows)
  BY <1>1, <1>2, <1>3 DEF Screen
<1>5. CASE k <= Len(tiles)
  BY <1>1, <1>2, <1>4, <1>5 DEF Screen
<1>6. CASE k = Len(tiles) + 1
  BY <1>1, <1>2, <1>4, <1>6 DEF Screen
<1> QED
  BY <1>1, <1>2, <1>3, <1>5, <1>6

\* The tiles and the row for what was typed are the same after any step that
\* leaves the text alone, and an answer leaves the highlight on them.
THEOREM TilesStayWhereTheyAre == Spec => AnswersPushNothingDown
<1> DEFINE A == IsShown /\ IsShown' /\ input' = input /\ currentQuery' = currentQuery =>
                  \A k \in DOMAIN shown.rows : shown.rows[k].section # "allLinks" =>
                    /\ k \in DOMAIN shown'.rows /\ shown'.rows[k] = shown.rows[k]
                    /\ selectedIndex = k - 1 /\ fetches' # fetches => shown'.lit = k - 1
<1>1. IInv /\ IInv' /\ [Next]_vars => [A]_vars
  <2> SUFFICES ASSUME IInv, IInv', Next, IsShown, IsShown', input' = input,
                      currentQuery' = currentQuery,
                      NEW k \in DOMAIN shown.rows, shown.rows[k].section # "allLinks"
               PROVE  /\ k \in DOMAIN shown'.rows /\ shown'.rows[k] = shown.rows[k]
                      /\ selectedIndex = k - 1 /\ fetches' # fetches => shown'.lit = k - 1
    OBVIOUS
  <2>1. /\ IsList(startPageLinks) /\ IsList(shown.rows) /\ IsList(shown'.rows)
        /\ Screen(startPageLinks, currentQuery, allResults, shown)
        /\ Screen(startPageLinks', currentQuery, allResults', shown')
    BY DEF IInv, ResultType, Visible, IsShown
  <2>2. ASSUME shown'.rows = shown.rows, shown' = shown \/ fetches' = fetches
        PROVE  /\ k \in DOMAIN shown'.rows /\ shown'.rows[k] = shown.rows[k]
               /\ selectedIndex = k - 1 /\ fetches' # fetches => shown'.lit = k - 1
    <3>1. Len(shown.rows) \in Nat /\ k \in 1 .. Len(shown.rows)
      BY <2>1, ListFacts
    <3>2. selectedIndex = k - 1 => shown.lit = k - 1
      BY <3>1 DEF IInv, Visible, Lit
    <3> QED
      BY <2>2, <3>2
  <2>3. ASSUME startPageLinks' = startPageLinks
        PROVE  /\ k \in DOMAIN shown'.rows /\ shown'.rows[k] = shown.rows[k]
               /\ k \in Int /\ 0 <= k - 1 /\ k - 1 <= Len(startPageLinks)
    <3>1. Screen(startPageLinks, currentQuery, allResults', shown')
      BY <2>1, <2>3
    <3> QED
      BY <2>1, <3>1, ScreensBeginAlike
  <2>4. ASSUME NEW query \in Queries, Type(query)
        PROVE  startPageLinks' = startPageLinks /\ fetches' = fetches
    <3>1. input = query /\ query # "" /\ startPageLinks' = FilterLocalLinks(query)
          /\ fetches' = fetches
      BY <2>4, CommandBarAssumption DEF Type
    <3> QED
      BY <3>1 DEF IInv, OfTheQuery
  <2>5. ASSUME NEW query \in Queries, Settle(query)
        PROVE  /\ startPageLinks' = startPageLinks
               /\ \/ shown' = shown
                  \/ 0 <= selectedIndex /\ selectedIndex <= Len(startPageLinks) =>
                       shown'.lit = selectedIndex
    <3>1. PICK links :
            /\ Finish(query, links)
            /\ IsCurrent(query) => Kept(links)
      BY <2>5, FinishFacts
    <3>2. startPageLinks' = startPageLinks
      BY <3>1 DEF Finish
    <3>3. CASE IsCurrent(query)
      BY <3>1, <3>2, <3>3, FinishRender
    <3>4. CASE ~IsCurrent(query)
      BY <3>1, <3>2, <3>4 DEF Finish
    <3> QED
      BY <3>3, <3>4
  <2>6. CASE \E query \in Queries : Type(query)
    BY <2>3, <2>4, <2>6
  <2>7. CASE \E query \in Queries : Settle(query)
    <3>1. /\ startPageLinks' = startPageLinks
          /\ \/ shown' = shown
             \/ 0 <= selectedIndex /\ selectedIndex <= Len(startPageLinks) =>
                  shown'.lit = selectedIndex
      BY <2>5, <2>7
    <3>2. CASE shown' = shown
      BY <2>2, <3>2
    <3>3. CASE shown' # shown
      BY <2>3, <3>1, <3>3
    <3> QED
      BY <3>2, <3>3
  <2>8. CASE FetchServerResults
    BY <2>2, <2>8 DEF FetchServerResults
  <2>9. CASE NavigateDown \/ NavigateUp
    <3>1. PICK index : Select(index)
      BY <2>9 DEF NavigateDown, NavigateUp
    <3>2. shown'.rows = shown.rows /\ fetches' = fetches
      BY <3>1 DEF Select, IInv, ResultType, IsScreen
    <3> QED
      BY <2>2, <3>2
  <2>10. CASE Empty \/ Escape \/ Leave
    <3>1. shown' = Hidden
      BY <2>10 DEF Empty, Escape, Leave, ClearSearch
    <3> QED
      BY <3>1 DEF IsShown, Hidden
  <2> QED
    BY <2>6, <2>7, <2>8, <2>9, <2>10 DEF Next
<1> QED
  BY <1>1, InitInv, NextInv, PTL DEF Spec, AnswersPushNothingDown, IsShown
=============================================================================
