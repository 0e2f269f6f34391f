------------------------------- MODULE Editor -------------------------------
(***************************************************************************)
(* The start page editor: a page that moves a tile before it asks, the     *)
(* handlers that move it and redraw what changed, and the answers that     *)
(* replace parts of the page, perhaps while another tile is being carried. *)
(*                                                                         *)
(* One person, one page, one column of groups.  A handler is cut at its    *)
(* calls of the store, each of which is atomic and keeps a group as the    *)
(* list PageLists promises; a controller method is one action.  A tile     *)
(* that is picked up is kept out of `page` until it is let go: the other   *)
(* rows and the place it is held at are what the node tree holds.          *)
(***************************************************************************)
EXTENDS Integers, FiniteSets, Sequences, SequencesExt

CONSTANTS
  Groups, Tiles,   (* ids; a tile's id is never used again                   *)
  LinkOf,          (* the link of a tile, unique in a group                  *)
  Stocked,         (* the page at first: a group's tiles                     *)
  Slots,           (* bound: requests under way at the same time             *)
  MaxActs,         (* bound: tiles picked up and forms sent                  *)
  Kinds,           (* what the person may ask for                            *)
  None             (* no tile, or no group                                   *)

ASSUME EditorAssumption ==
  /\ IsFiniteSet(Groups)
  /\ Stocked \in [Groups -> Seq(Tiles)]
  /\ \A g \in Groups : IsInjective(Stocked[g])
  /\ \A g, h \in Groups : g # h => ToSet(Stocked[g]) \cap ToSet(Stocked[h]) = {}
  /\ DOMAIN LinkOf = Tiles
  /\ Kinds \subseteq {"move", "add", "delete", "deleteGroup", "load"}
  /\ MaxActs \in Nat
  /\ None \notin Groups \cup Tiles

VARIABLES
  stored,     (* the groups that exist, each with its tiles in order         *)
  unborn,     (* the ids no tile has had yet                                 *)
  page,       (* the groups on the page, each with its rows                  *)
  shown,      (* whether the editor is shown, or an error page in its place  *)
  carried,    (* the tile that is picked up, and where, or NoCarry           *)
  key,        (* pendingFocusKey: the row that is to have the focus          *)
  requests,   (* what is under way, by slot                                  *)
  acts,       (* how often a tile was picked up or a form was sent           *)
  crossed,    (* history: requests were handled across each other, answered  *)
              (* in another order, or redrew a row that was dragged on       *)
  strayed,    (* history: a tile was put back in the group it was picked up  *)
              (* in, which an answer had meanwhile redrawn without it        *)
  unheard,    (* history: a request got no answer, or one that it failed     *)
  turnedAway  (* history: a move by keys was answered with the sign-in page  *)

server == <<stored, unborn>>
browser == <<page, shown, carried, key>>
history == <<crossed, strayed, unheard, turnedAway>>
vars == <<server, browser, requests, acts, history>>

Nothing == [g \in {} |-> <<>>]
NoCarry == [tile |-> None, keys |-> FALSE, group |-> None, at |-> 0, detached |-> FALSE,
            home |-> None, homeAt |-> 0, homeless |-> FALSE]
Idle == [kind |-> "none", tile |-> None, group |-> None, at |-> 0, keys |-> FALSE, step |-> "idle",
         source |-> None, todo |-> <<>>, patch |-> Nothing, whole |-> FALSE, result |-> "ok",
         away |-> FALSE, behind |-> {}, gone |-> FALSE, calm |-> FALSE]

Rows(lists) == UNION {ToSet(lists[g]) : g \in DOMAIN lists}
GroupOf(t) == CHOOSE g \in DOMAIN stored : t \in ToSet(stored[g])
Without(list, t) == RemoveFirst(list, t)
Emptied(lists, t) == [g \in DOMAIN lists |-> Without(lists[g], t)]
Only(lists, groups) == [g \in groups |-> lists[g]]
\* A list with t at a 0-based index, or at the end when the index is past it.
PutIn(list, t, index) ==
  InsertAt(list, (IF index > Len(list) THEN Len(list) ELSE index) + 1, t)
PutInCountingItself(list, t, index) ==
  InsertAt(list, IF index >= Len(list) THEN Len(list) + 1 ELSE index + 2, t)

Busy == {s \in Slots : requests[s] # Idle}
Free == Slots \ Busy
Answered(r) == r.step = "reading" /\ (r.result = "failed" \/ r.todo = <<>>)
Handled == {s \in Busy : requests[s].step # "sent" /\ ~Answered(requests[s])}

-----------------------------------------------------------------------------
(* The page asks.                                                          *)

\* A request takes a slot.  The ones already there are no longer alone.
Send(others, s, request) ==
  requests' = [u \in Slots |-> IF u = s THEN [request EXCEPT !.step = "sent"]
                               ELSE [others[u] EXCEPT !.calm = FALSE]]
\* Turbo keeps one form or visit: a second cancels the first, and nobody hears
\* its answer.  Moves are fetched past Turbo and go on.
Superseded ==
  [s \in Slots |-> IF requests[s].kind \in {"none", "move"} THEN requests[s]
                   ELSE [requests[s] EXCEPT !.gone = TRUE]]

Ask(request) ==
  /\ request.kind \in Kinds
  /\ carried = NoCarry
  /\ \E s \in Free : Send(Superseded, s, [request EXCEPT !.calm = Busy = {}])
  /\ unheard' = (unheard \/ Superseded # requests)
  /\ acts' = acts + (IF request.kind = "load" THEN 0 ELSE 1) /\ acts' <= MaxActs
  /\ UNCHANGED <<server, browser, crossed, strayed, turnedAway>>

AddTile(g, t) ==
  /\ shown /\ g \in DOMAIN page /\ t \in unborn
  /\ \A s \in Busy : requests[s].kind # "add"   \* so that an id names one tile
  /\ Ask([Idle EXCEPT !.kind = "add", !.tile = t, !.group = g])
DeleteTile(t) == shown /\ t \in Rows(page) /\ Ask([Idle EXCEPT !.kind = "delete", !.tile = t])
DeleteGroup(g) ==
  shown /\ g \in DOMAIN page /\ Ask([Idle EXCEPT !.kind = "deleteGroup", !.group = g])
Load == Ask([Idle EXCEPT !.kind = "load"])

-----------------------------------------------------------------------------
(* A tile is picked up, carried about and let go, with the keyboard or the *)
(* pointer.                                                                *)

Grab(g, k, keys) ==
  /\ "move" \in Kinds /\ shown /\ carried = NoCarry
  /\ acts < MaxActs /\ acts' = acts + 1
  /\ carried' = [NoCarry EXCEPT !.tile = page[g][k], !.keys = keys, !.group = g, !.at = k - 1,
                                !.home = g, !.homeAt = k - 1]
  /\ page' = [page EXCEPT ![g] = RemoveAt(@, k)]
  /\ UNCHANGED <<server, shown, key, requests, history>>

\* Keys reach a row that has the focus, which a node torn off the page has not.
\* The pointer's preview puts such a node back; a finger's has none, and this is
\* done when it lets go (placeAt).
Carry(g, at) ==
  /\ carried # NoCarry /\ ~(carried.keys /\ carried.detached)
  /\ carried.detached \/ <<g, at>> # <<carried.group, carried.at>>
  /\ carried' = [carried EXCEPT !.group = g, !.at = at, !.detached = FALSE]
  /\ crossed' = (crossed \/ carried.detached)
  /\ UNCHANGED <<server, page, shown, key, requests, acts, strayed, unheard, turnedAway>>

\* What becomes of the rows when c is let go where it is held.
Placed(lists, c) ==
  IF c = NoCarry \/ c.detached THEN lists
  ELSE [lists EXCEPT ![c.group] = InsertAt(@, c.at + 1, c.tile)]
\* And when it goes back where it was, on the page or not.
PutBack(lists, c) ==
  IF c = NoCarry \/ c.homeless THEN lists
  ELSE [lists EXCEPT ![c.home] = InsertAt(@, c.homeAt + 1, c.tile)]
\* The index of the node among its siblings; group_id only when it changed.
MoveOf(c) ==
  [Idle EXCEPT !.kind = "move", !.tile = c.tile, !.at = c.at, !.keys = c.keys,
               !.group = IF c.group = c.home THEN None ELSE c.group]
\* Whether it was picked up on a page that is true, and this is all that is going
\* on.
Calm(c) == Busy = {} /\ ~c.detached /\ ~c.homeless /\ PutBack(page, c) = stored
\* Put where nobody is told of: the server hears of a move inside the group the
\* tile was picked up in, but that group came back without it.
Strays(lists, c) ==
  c.group = c.home /\ c.homeless /\ ~c.detached /\ c.tile \notin ToSet(lists[c.home])

\* drop, with the row named for when it comes back (refocus), or not: Tab, a
\* click elsewhere, and every drop of the pointer's.
Drop(refocus) ==
  /\ carried # NoCarry
  /\ refocus => carried.keys /\ ~carried.detached
  /\ carried.detached => carried.keys
  /\ \E s \in Free : Send(requests, s, [MoveOf(carried) EXCEPT !.calm = Calm(carried)])
  /\ page' = Placed(page, carried)
  /\ key' = IF refocus THEN carried.tile ELSE key
  /\ carried' = NoCarry
  /\ strayed' = (strayed \/ Strays(page, carried))
  /\ UNCHANGED <<server, shown, acts, crossed, unheard, turnedAway>>

\* Esc, or a drop on nothing.
Cancel ==
  /\ carried # NoCarry /\ ~(carried.keys /\ carried.detached)
  /\ page' = PutBack(page, carried)
  /\ carried' = NoCarry
  /\ UNCHANGED <<server, shown, key, requests, acts, history>>

-----------------------------------------------------------------------------
(* The handlers.                                                           *)

Step(s, request) ==
  /\ requests' = [requests EXCEPT ![s] = request]
  /\ crossed' = (crossed \/ Handled \ {s} # {})
  /\ UNCHANGED <<browser, acts, strayed, unheard, turnedAway>>
Failed(r) == [r EXCEPT !.step = "reading", !.result = "failed"]

\* GroupByID or ItemByID, before anything is changed; a page reads its groups.
Find(s) ==
  LET r == requests[s]
      found == [r EXCEPT !.step = "found", !.behind = {u \in Busy : Answered(requests[u])}]
      reading == [found EXCEPT !.step = "reading"]
      items == [g \in DOMAIN stored |-> <<"items", g>>]
  IN  /\ r.step = "sent"
      /\ UNCHANGED server
      /\ Step(s, CASE r.kind = "load" ->
                        [reading EXCEPT !.todo = SetToSeq({items[g] : g \in DOMAIN stored}),
                                        !.whole = TRUE]
                   [] r.kind \in {"move", "delete"} /\ r.tile \in Rows(stored) ->
                        [found EXCEPT !.source = GroupOf(r.tile)]
                   [] r.kind \in {"add", "deleteGroup"} /\ r.group \in DOMAIN stored ->
                        [found EXCEPT !.source = r.group]
                   [] OTHER -> Failed(reading))

Redraw(g) == <<<<"group", g>>, <<"items", g>>>>
\* groupStreams: the destination, then the source it had when it was found.
RedrawMoved(r) ==
  IF r.group \in {None, r.source} THEN Redraw(r.source) ELSE Redraw(r.group) \o Redraw(r.source)
\* What is read for the answer: a refused move draws both groups as they are.
ReadsOf(r) ==
  CASE r.kind = "move" -> RedrawMoved(r)
    [] r.kind = "delete" -> Redraw(r.source)
    [] r.kind = "add" -> IF r.result = "refused" THEN <<>> ELSE <<<<"items", r.source>>>>
    [] r.kind = "deleteGroup" -> <<<<"column", r.source>>>>
ReadsOnlyIfAllowed(r) == IF r.result = "refused" THEN <<>> ELSE ReadsOf(r)
Reads(r) == ReadsOf(r)

\* The store's one atomic call: what is stored after it, and how it went.
Moved(lists, r) ==
  LET to == IF r.group = None THEN GroupOf(r.tile) ELSE r.group
  IN  [Emptied(lists, r.tile) EXCEPT ![to] = PutIn(@, r.tile, r.at)]
MovedFromWhereItWas(lists, r) ==
  LET to == IF r.group = None THEN r.source ELSE r.group
      left == IF r.source \in DOMAIN lists
              THEN [lists EXCEPT ![r.source] = Without(@, r.tile)] ELSE lists
  IN  IF to \in DOMAIN lists THEN [left EXCEPT ![to] = PutIn(@, r.tile, r.at)] ELSE lists
MovedOneOff(lists, r) ==
  LET to == IF r.group = None THEN GroupOf(r.tile) ELSE r.group
  IN  [Emptied(lists, r.tile) EXCEPT ![to] = PutInCountingItself(@, r.tile, r.at)]
MoveItem(lists, r) == Moved(lists, r)

Taken(g, t) == \E x \in ToSet(stored[g]) \ {t} : LinkOf[x] = LinkOf[t]
Result(r) ==
  CASE r.kind = "delete" -> IF r.tile \in Rows(stored) THEN "ok" ELSE "failed"
    [] r.kind = "move" ->
         IF r.tile \notin Rows(stored) \/ r.group \notin DOMAIN stored \cup {None} THEN "failed"
         ELSE IF r.group # None /\ Taken(r.group, r.tile) THEN "refused" ELSE "ok"
    [] OTHER ->
         IF r.group \notin DOMAIN stored THEN "failed"
         ELSE IF r.kind = "add" /\ Taken(r.group, r.tile) THEN "refused" ELSE "ok"

Change(s) ==
  LET r == [requests[s] EXCEPT !.result = Result(requests[s])]
  IN  /\ r.step = "found"
      /\ stored' = IF r.result # "ok" THEN stored ELSE
           CASE r.kind = "move" -> MoveItem(stored, r)
             [] r.kind = "add" -> [stored EXCEPT ![r.group] = Append(@, r.tile)]
             [] r.kind = "delete" -> Emptied(stored, r.tile)
             [] r.kind = "deleteGroup" -> Only(stored, DOMAIN stored \ {r.group})
      /\ unborn' = IF r.kind = "add" /\ r.result = "ok" THEN unborn \ {r.tile} ELSE unborn
      /\ Step(s, IF r.result = "failed" THEN Failed(r)
                 ELSE [r EXCEPT !.step = "reading", !.todo = Reads(r), !.whole = r.kind = "deleteGroup"])

\* One read of the answer: a group by its id, its tiles, or a column's groups.
\* A group that has gone fails the request, its tiles are none.
Read(s) ==
  LET r == requests[s]
      next == [r EXCEPT !.todo = Tail(@)]
  IN  /\ r.step = "reading" /\ ~Answered(r)
      /\ UNCHANGED server
      /\ LET what == Head(r.todo)[1]  g == Head(r.todo)[2]
         IN  Step(s, CASE what = "group" -> IF g \in DOMAIN stored THEN next ELSE Failed(r)
                       [] what = "items" ->
                            [next EXCEPT !.patch = [h \in DOMAIN @ \cup {g} |->
                               IF h # g THEN @[h] ELSE IF g \in DOMAIN stored THEN stored[g] ELSE <<>>]]
                       [] what = "column" ->
                            [r EXCEPT !.todo = SetToSeq({<<"items", h>> : h \in DOMAIN stored})])

\* The session is over: requireAuthentication sends the request to sign in, and
\* its handler is never called.
TurnAway(s) ==
  LET r == requests[s]
  IN  /\ r.step = "sent"
      /\ UNCHANGED server
      /\ Step(s, [Failed(r) EXCEPT !.away = TRUE, !.behind = {u \in Busy : Answered(requests[u])}])

-----------------------------------------------------------------------------
(* The answers.                                                            *)

\* The regions an answer replaces, and the page with them replaced.
Regions(r) ==
  IF ~shown \/ r.result = "failed" THEN {}
  ELSE IF r.whole THEN DOMAIN page \cup DOMAIN r.patch ELSE DOMAIN r.patch \cap DOMAIN page
Patched(r) ==
  IF r.whole /\ shown THEN r.patch
  ELSE [g \in DOMAIN page |-> IF g \in Regions(r) THEN r.patch[g] ELSE page[g]]

\* What a move takes for no answer.  A fetch follows a redirect, so the sign-in
\* page is one, which redraws nothing.
Unanswered(r) == r.result = "failed" /\ ~r.away
FailureKeepsKey(r) == key
\* A keyboard move nobody answered redraws nothing, so the key is dropped.
KeyAfterFailure(r) == IF r.kind = "move" /\ r.keys THEN None ELSE key

Ends(s, lists) == [u \in Slots |-> IF u = s THEN Idle ELSE [lists[u] EXCEPT !.behind = @ \ {s}]]
\* A page that is left takes its controller along: a later failure of its
\* moves finds another key.
Leaves == [s \in Slots |-> [requests[s] EXCEPT !.keys = FALSE]]

\* After an answer c is what is carried.  It stays in hand, or, with the
\* keyboard, it may be let go uninvited: the row that was waited for takes the
\* focus (adopt), or its own row went and took the focus with it (leave).
Keeps(s, others, c) == carried' = c /\ requests' = Ends(s, others)
LetsGo(s, others, c) ==
  /\ carried' = NoCarry
  /\ Send(Ends(s, others), s, MoveOf(c))

\* An answer that redraws parts of the page, or nothing.
Redrawn(s) ==
  LET r == requests[s]
      c == [carried EXCEPT !.detached = @ \/ carried.group \in Regions(r),
                           !.homeless = @ \/ carried.home \in Regions(r)]
      fresh == r.result # "failed" /\ key \in Rows(Only(Patched(r), Regions(r) \cap DOMAIN r.patch))
  IN  /\ key' = IF fresh THEN None ELSE IF Unanswered(r) THEN KeyAfterFailure(r) ELSE key
      /\ \/ /\ carried = NoCarry
            /\ Keeps(s, requests, NoCarry) /\ page' = Patched(r)
            /\ UNCHANGED strayed
         \/ /\ carried # NoCarry /\ ~(fresh /\ c.keys)
            /\ Keeps(s, requests, c) /\ page' = Patched(r)
            /\ UNCHANGED strayed
         \/ /\ carried # NoCarry /\ c.keys /\ (fresh \/ c.detached)
            /\ LetsGo(s, requests, c) /\ page' = Placed(Patched(r), c)
            /\ strayed' = (strayed \/ Strays(Patched(r), c))
      /\ turnedAway' = (turnedAway \/ (r.away /\ r.keys))
      /\ UNCHANGED shown

\* An answer that is another page: the editor anew, the sign-in page, or an error
\* page.
Loaded(r) == r.kind = "load" /\ r.result = "ok"
Replaced(s) ==
  LET r == requests[s]
      c == [carried EXCEPT !.detached = TRUE, !.keys = FALSE]
  IN  /\ shown' = Loaded(r)
      /\ page' = IF Loaded(r) THEN r.patch ELSE Nothing
      /\ key' = None
      /\ strayed' = (strayed /\ ~Loaded(r))
      /\ turnedAway' = FALSE
      /\ \/ Keeps(s, Leaves, NoCarry)
         \/ carried.keys /\ LetsGo(s, Leaves, c)

Receive(s) ==
  LET r == requests[s]
      again == Loaded(r) /\ r.calm
  IN  /\ Answered(r) /\ ~r.gone
      /\ IF r.kind = "load" \/ (r.kind # "move" /\ r.result = "failed") THEN Replaced(s) ELSE Redrawn(s)
      /\ crossed' = (~again /\ (crossed \/ r.behind # {}))
      /\ unheard' = (~again /\ (unheard \/ r.result = "failed"))
      /\ UNCHANGED <<server, acts>>

\* The browser gives a request up; it may not have reached the server.
Lose(s) ==
  LET r == requests[s]
  IN  /\ r # Idle /\ ~r.gone
      /\ \/ r.step = "sent" /\ requests' = Ends(s, requests)
         \/ requests' = [requests EXCEPT ![s].gone = TRUE]
      /\ key' = KeyAfterFailure(r)
      /\ unheard' = TRUE
      /\ UNCHANGED <<server, page, shown, carried, acts, crossed, strayed, turnedAway>>

\* A handler whose caller has gone is cut off, or answers nobody.
GiveUp(s) ==
  /\ requests[s].gone
  /\ requests' = Ends(s, requests)
  /\ UNCHANGED <<server, browser, acts, history>>

-----------------------------------------------------------------------------
Init ==
  /\ stored = Stocked /\ page = Stocked
  /\ unborn = Tiles \ Rows(Stocked)
  /\ shown = TRUE /\ carried = NoCarry /\ key = None
  /\ requests = [s \in Slots |-> Idle] /\ acts = 0
  /\ crossed = FALSE /\ strayed = FALSE /\ unheard = FALSE /\ turnedAway = FALSE

Next ==
  \/ \E g \in DOMAIN page, t \in unborn : AddTile(g, t)
  \/ \E t \in Rows(page) : DeleteTile(t)
  \/ \E g \in DOMAIN page : DeleteGroup(g)
  \/ Load
  \/ \E g \in DOMAIN page, keys \in BOOLEAN : \E k \in DOMAIN page[g] : Grab(g, k, keys)
  \/ \E g \in DOMAIN page : \E at \in 0 .. Len(page[g]) : Carry(g, at)
  \/ \E refocus \in BOOLEAN : Drop(refocus)
  \/ Cancel
  \/ \E s \in Slots : Find(s) \/ Change(s) \/ Read(s) \/ TurnAway(s)
  \/ \E s \in Slots : Receive(s) \/ Lose(s) \/ GiveUp(s)

Spec == Init /\ [][Next]_vars

-----------------------------------------------------------------------------
(* The properties.                                                         *)

\* Types; and a tile is stored once and in one group, however the requests of
\* a tile's move, its edit and its removal interleave: MoveItem and
\* MoveItemToGroup look for it again inside their transaction.
TypeOK ==
  /\ DOMAIN stored \subseteq Groups /\ DOMAIN page \subseteq Groups
  /\ \A g \in DOMAIN page : page[g] \in Seq(Tiles)
  /\ \A g \in DOMAIN stored : stored[g] \in Seq(Tiles) /\ IsInjective(stored[g])
  /\ \A g, h \in DOMAIN stored : g # h => ToSet(stored[g]) \cap ToSet(stored[h]) = {}
  /\ unborn \subseteq Tiles /\ unborn \cap Rows(stored) = {}
  /\ carried.tile \in Tiles \cup {None} /\ key \in Tiles \cup {None}
  /\ acts \in 0 .. MaxActs /\ shown \in BOOLEAN /\ {crossed, strayed, unheard, turnedAway} \subseteq BOOLEAN
  /\ \A s \in Slots : requests[s].result \in {"ok", "refused", "failed"}

\* "Both groups come back as they are stored" (handle_items.go:331-336): with
\* nothing under way or in hand the page shows what is stored.  That includes
\* moves that were refused, moves made before an earlier one was answered, and
\* tiles carried while an answer redrew the page under them.  It leaves out
\* what the code does not promise, requests that got no answer and requests
\* handled or answered across each other, and the one case it gets wrong
\* (TruthComesBack); a page loaded afterwards is true.
PageIsTrue ==
  Busy = {} /\ carried = NoCarry /\ shown /\ ~crossed /\ ~strayed /\ ~unheard => page = stored

\* "A refusal still comes back as a stream that says so and redraws the truth,
\* so the caller has nothing left to do" (start_page_moves.js:10-12): the same,
\* when a tile was put back in a group that had come back without it.
TruthComesBack ==
  Busy = {} /\ carried = NoCarry /\ shown /\ ~crossed /\ ~unheard => page = stored

\* "An unspent key lies in wait to claim the next row that happens to match it"
\* (grid_keyboard_controller.js:493-496): once everything is answered none does,
\* whatever failed or was lost, unless answers crossed.  The sentence before it,
\* "Any answer redraws the row somewhere", is not so of a move that was turned
\* away because the session was over: the sign-in page is an answer, and the key
\* stays.
KeyIsSpent == Busy = {} /\ ~crossed /\ ~turnedAway => key = None

\* "An index is a position" (start_page_moves.js:5-6): the answer to a move that
\* was allowed, made on a page that was true and with nothing else going on,
\* leaves every row where the person dropped it.
Agrees(s) ==
  LET r == requests[s]
  IN  /\ r.kind = "move" /\ r.calm /\ r.result = "ok" /\ ~r.gone /\ Answered(r)
      /\ carried = NoCarry /\ shown /\ ~crossed /\ ~unheard /\ requests'[s] # r
DropsStay == [][\A s \in Slots : Agrees(s) => page' = page]_vars
=============================================================================
