----------------------------- MODULE CommandBar -----------------------------
(***************************************************************************)
(* The command bar of the start page: what is typed, the tiles that match, *)
(* the connected app's results that arrive later, and the row Enter goes   *)
(* to.                                                                     *)
(*                                                                         *)
(* The controller is single-threaded: every event handler and the part of  *)
(* a fetch after its last await is one action.  What is on screen is       *)
(* `shown`, apart from what the controller knows, because only a render    *)
(* makes them agree.  Rows are numbered from 0 as in the code; index -1 is *)
(* no row.                                                                 *)
(***************************************************************************)
EXTENDS Integers, Sequences, FiniteSets

CONSTANTS
  Queries,      (* what can be typed, trimmed and not empty                  *)
  Tiles,        (* the page's tiles: [url, visits, title: its place in the   *)
                (* alphabet (a stable sort leaves equal titles in the page's *)
                (* order), matches and starts: sets of queries]              *)
  Replies,      (* what the connected app may answer: sequences of urls      *)
  Federations,  (* what the page says of the connection                      *)
  MaxFetches    (* bound: searches under way for one query                   *)

ASSUME CommandBarAssumption ==
  /\ "" \notin Queries
  /\ Federations \subseteq {"off", "reconnect", "active"}
  /\ IsFiniteSet(Tiles)
  /\ \A t, u \in Tiles : t.title = u.title => t = u
  /\ \A urls \in Replies : Len(urls) \in Nat /\ DOMAIN urls = 1 .. Len(urls)
  /\ MaxFetches \in Nat \ {0}

VARIABLES
  federation,      (* federationValue of the page that is open               *)
  input,           (* what the bar holds, trimmed                            *)
  currentQuery, startPageLinks, serverLinks, allResults, selectedIndex,
  isSearching,
  searchTimeout,   (* the query the armed timer will ask for, or ""          *)
  fetches,         (* searches under way, by query                           *)
  shown            (* on screen: the rows that are drawn, the one that is    *)
                   (* highlighted, and whether it says "Searching..."        *)

vars == <<federation, input, currentQuery, startPageLinks, serverLinks, allResults, selectedIndex,
          isSearching, searchTimeout, fetches, shown>>

Hidden == [rows |-> <<>>, lit |-> -1, searching |-> FALSE]
IsShown == shown.rows # <<>>
Larger(a, b) == IF a > b THEN a ELSE b
Smaller(a, b) == IF a < b THEN a ELSE b

-----------------------------------------------------------------------------
(* Rows.  `query` is what a row answers.                                   *)

\* A set as a list: each element where the number of those before it puts it.
InOrder(S, before) ==
  [n \in 1 .. Cardinality(S) |->
     CHOOSE x \in S : Cardinality({y \in S : <<y, x>> \in before}) = n - 1]

Row(section, url, query) == [section |-> section, to |-> url, query |-> query]
TypedRow(query) == Row("typed", query, query)

\* The most visited first, then titles that start with the query, then the
\* alphabet.
GoesBefore(query, a, b) ==
  \/ a.visits > b.visits
  \/ /\ a.visits = b.visits
     /\ \/ query \in a.starts /\ query \notin b.starts
        \/ (query \in a.starts <=> query \in b.starts) /\ a.title < b.title
FilterLocalLinks(query) ==
  LET sorted == InOrder({t \in Tiles : query \in t.matches},
                        {pair \in Tiles \X Tiles : GoesBefore(query, pair[1], pair[2])})
  IN  [k \in DOMAIN sorted |-> Row("startPage", sorted[k].url, query)]

\* The order of the rows, and how many of them come before the results.
ResultsAppFirst(tiles, query, links) == links \o tiles \o <<TypedRow(query)>>
Results(tiles, query, links) == tiles \o <<TypedRow(query)>> \o links
Drawn(results, tiles, searching) ==
  IF searching THEN SubSeq(results, 1, Len(tiles) + 1) ELSE results
\* A row that is not drawn cannot be highlighted.
LitOrFirst(rows, index) == IF index < Len(rows) THEN index ELSE 0
Lit(rows, index) == IF index < Len(rows) THEN index ELSE -1

\* renderSuggestions, for the tiles, query, results and searching it is given.
Render(tiles, query, links, searching) ==
  LET results == Results(tiles, query, links)
      index == Smaller(Larger(selectedIndex, 0), Len(results) - 1)
      rows == Drawn(results, tiles, searching)
  IN  /\ allResults' = results
      /\ selectedIndex' = index
      /\ shown' = [rows |-> rows, lit |-> Lit(rows, index), searching |-> searching]

\* What choosing a row opens.  The row for what was typed reads currentQuery
\* when it is chosen; the others carry their address.
Destination(index) ==
  IF allResults[index + 1].section = "typed" THEN TypedRow(currentQuery) ELSE allResults[index + 1]
\* Enter: the selected row, or the text itself when there is no row.
EnterGoesTo ==
  IF selectedIndex >= 0 /\ allResults # <<>> THEN Destination(selectedIndex) ELSE TypedRow(input)

-----------------------------------------------------------------------------
(* The page.                                                               *)

\* connect(), on a page the server rendered.
Connect ==
  /\ federation \in Federations
  /\ input = "" /\ currentQuery = "" /\ searchTimeout = ""
  /\ startPageLinks = <<>> /\ serverLinks = <<>> /\ allResults = <<>>
  /\ selectedIndex = -1 /\ isSearching = FALSE
  /\ fetches = [q \in Queries |-> 0]
  /\ shown = Hidden

\* clearSearch: the timer, the rows and the highlight.
ClearSearch ==
  /\ searchTimeout' = ""
  /\ startPageLinks' = <<>> /\ serverLinks' = <<>> /\ allResults' = <<>>
  /\ isSearching' = FALSE
  /\ selectedIndex' = -1
  /\ shown' = Hidden

\* search(), when the bar was emptied.
Empty ==
  /\ input' = "" /\ currentQuery' = ""
  /\ ClearSearch
  /\ UNCHANGED <<federation, fetches>>

\* search(), when something was typed.  It renders, and when there is an app to
\* ask it renders again as searching and arms the timer anew.
Type(query) ==
  /\ input' = query /\ currentQuery' = query
  /\ startPageLinks' = FilterLocalLinks(query)
  /\ IF federation = "active"
     THEN isSearching' = TRUE /\ searchTimeout' = query
     ELSE UNCHANGED <<isSearching, searchTimeout>>
  /\ Render(startPageLinks', query, serverLinks, isSearching')
  /\ UNCHANGED <<federation, serverLinks, fetches>>

\* What is done with a query that is not the current one: nothing is asked, and
\* an answer is dropped.
IsCurrentAlways(query) == TRUE
IsCurrent(query) == query = currentQuery

\* The timer fires: fetchServerResults up to its fetch.
FetchServerResults ==
  /\ searchTimeout # ""
  /\ searchTimeout' = ""
  /\ IF IsCurrent(searchTimeout)
     THEN /\ fetches[searchTimeout] < MaxFetches
          /\ fetches' = [fetches EXCEPT ![searchTimeout] = @ + 1]
     ELSE fetches' = fetches
  /\ UNCHANGED <<federation, input, currentQuery, startPageLinks, serverLinks, allResults,
                 selectedIndex, isSearching, shown>>

\* What is left of an answer: the tiles on screen are not listed again.
NewLinks(query, urls) ==
  LET others == {j \in DOMAIN urls : \A k \in DOMAIN startPageLinks : startPageLinks[k].to # urls[j]}
      kept == InOrder(others, {pair \in others \X others : pair[1] < pair[2]})
  IN  [k \in DOMAIN kept |-> Row("allLinks", urls[kept[k]], query)]

\* The end of fetchServerResults, its `finally` included.
Finish(query, links) ==
  /\ fetches[query] > 0
  /\ fetches' = [fetches EXCEPT ![query] = @ - 1]
  /\ serverLinks' = links
  /\ isSearching' = FALSE
  /\ IF IsCurrent(query)
     THEN Render(startPageLinks, currentQuery, links, FALSE)
     ELSE UNCHANGED <<allResults, selectedIndex, shown>>
  /\ UNCHANGED <<federation, input, currentQuery, startPageLinks, searchTimeout>>
Answered(query) ==
  \E urls \in Replies :
    Finish(query, IF IsCurrent(query) THEN NewLinks(query, urls) ELSE serverLinks)
FailedWithoutFinally(query) ==
  /\ fetches[query] > 0
  /\ fetches' = [fetches EXCEPT ![query] = @ - 1]
  /\ serverLinks' = <<>>
  /\ UNCHANGED <<federation, input, currentQuery, startPageLinks, allResults, selectedIndex,
                 isSearching, searchTimeout, shown>>
\* A failure empties the results whatever the query was.
Failed(query) == Finish(query, <<>>)
Settle(query) == Answered(query) \/ Failed(query)

-----------------------------------------------------------------------------
(* Keys and clicks.                                                        *)

\* updateSelection: one row is drawn as selected.
Select(index) ==
  /\ allResults # <<>>
  /\ selectedIndex' = index
  /\ shown' = [shown EXCEPT !.lit = Lit(shown.rows, index)]
  /\ UNCHANGED <<federation, input, currentQuery, startPageLinks, serverLinks, allResults,
                 isSearching, searchTimeout, fetches>>
NavigateDown == Select((selectedIndex + 1) % Len(allResults))
NavigateUp == Select(IF selectedIndex <= 0 THEN Len(allResults) - 1 ELSE selectedIndex - 1)

\* Escape: clearAndHide.
Escape ==
  /\ input' = ""
  /\ ClearSearch
  /\ UNCHANGED <<federation, currentQuery, fetches>>

\* Enter or a click leaves the page for Destination; the next one connects anew.
\* Opening it in a new tab changes nothing here.
Leave ==
  /\ federation' \in Federations
  /\ input' = "" /\ currentQuery' = ""
  /\ fetches' = [q \in Queries |-> 0]
  /\ ClearSearch

Next ==
  \/ Empty
  \/ \E q \in Queries : Type(q) \/ Settle(q)
  \/ FetchServerResults
  \/ NavigateDown \/ NavigateUp
  \/ Escape \/ Leave

\* The timer fires, and every fetch settles: the client behind it gives up
\* connecting after 2 seconds and waiting for an answer after 4.
Fairness == WF_vars(FetchServerResults) /\ \A q \in Queries : WF_vars(Settle(q))
Spec == Connect /\ [][Next]_vars /\ Fairness

-----------------------------------------------------------------------------
(* Properties.                                                             *)

RowType == [section : {"startPage", "typed", "allLinks"},
            to : Queries \cup {t.url : t \in Tiles} \cup UNION {{urls[k] : k \in DOMAIN urls} : urls \in Replies},
            query : Queries]
TypeOK ==
  /\ federation \in Federations
  /\ input \in Queries \cup {""} /\ currentQuery \in Queries \cup {""}
  /\ searchTimeout \in Queries \cup {""}
  /\ \A rows \in {startPageLinks, serverLinks, allResults, shown.rows} :
       \A k \in DOMAIN rows : rows[k] \in RowType
  /\ selectedIndex \in -1 .. Len(allResults) - 1
  /\ isSearching \in BOOLEAN /\ shown.searching \in BOOLEAN
  /\ shown.lit \in -1 .. Len(shown.rows) - 1
  /\ fetches \in [Queries -> 0 .. MaxFetches]

\* A row that is on screen opens what it says, though its number is looked up in
\* results that may have been replaced since it was drawn (renderSuggestions'
\* click handlers), and Enter never opens another row than a highlighted one.
RowsOpenWhatTheySay ==
  /\ \A k \in DOMAIN shown.rows : k \in DOMAIN allResults /\ Destination(k - 1) = shown.rows[k]
  /\ shown.lit # -1 => EnterGoesTo = shown.rows[shown.lit + 1]

\* Answers arrive late and in any order, but what is on screen is about the text
\* in the bar, and lists no address twice.  (An empty bar is left out: Escape
\* keeps the query it cleared, and a late answer shows it again.)
NothingStaleIsShown ==
  /\ input # "" => \A k \in DOMAIN shown.rows : shown.rows[k].query = input
  /\ \A j, k \in DOMAIN shown.rows :
       shown.rows[j].section = "startPage" /\ shown.rows[k].section = "allLinks" =>
         shown.rows[j].to # shown.rows[k].to

\* "It comes before the connected app's results, which arrive later and so
\* cannot push it down": while the text stays, no answer moves the tiles, the
\* row for what was typed, or the highlight on them.
AnswersPushNothingDown ==
  [][IsShown /\ IsShown' /\ input' = input /\ currentQuery' = currentQuery =>
       \A k \in DOMAIN shown.rows : shown.rows[k].section # "allLinks" =>
         /\ k \in DOMAIN shown'.rows /\ shown'.rows[k] = shown.rows[k]
         /\ selectedIndex = k - 1 /\ fetches' # fetches => shown'.lit = k - 1]_vars

\* "Searching..." goes away once nobody types: whatever searches are still out,
\* the one for the current text is sent and answered, or fails.
Typing == \E q \in Queries : Type(q)
SearchingEnds == <>[][~Typing]_vars => (shown.searching ~> ~shown.searching)
=============================================================================
