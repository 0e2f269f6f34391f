# TinyStart in TLA+

TinyStart is a start page: groups of links in a grid of columns, kept in SQLite
by a Go server and edited in a browser. This directory holds models of its
stateful parts, the TLC configurations that check them on small instances, and
TLAPS proofs of the properties that matter most. Paths below are relative to
`src/`.

## 1. The system

| part | state | operations | what makes it correct |
|---|---|---|---|
| start page tables (`internal/store/groups.go`, `items.go`) | `start_page_groups`, `start_page_items` | create, rename, move and delete groups and tiles, count visits | positions are indexes, links are unique in a group, nothing is orphaned, a move moves one thing |
| grid width (`store/users.go`) | `users.columns` | `UpdateColumns` | no group ends up in a column that is not drawn |
| import, export (`internal/startpage`, `store/startpage.go`) | the file, the page it replaces | `Export`, `Import`, `ReplaceStartPage` | what goes out comes back; an import is whole or not at all; a loss is noticed |
| accounts (`store/users.go`, `web/handle_admin.go`) | `users` | sign-up, approve or block, delete, change or reset a password | one admin who can always come in; the approved are told |
| sessions (`store/sessions.go`, `web/auth.go`) | `sessions`, a signed cookie | sign in, resume, refresh, sign out | visitors stay in, the blocked and deleted are out |
| reset links (`web/passwordreset.go`, `cmd/tinystart` `set-password`) | nothing: the token carries it | ask, follow | a link dies with its time or its password |
| connections (`store/connections.go`, `web/handle_connections.go`, `handle_search.go`, `internal/tinylinks`) | `connections`, a grant in a cookie | device flow, search, visit, disconnect | a verdict is recorded on the connection it is about |
| editor (`web/handle_groups.go`, `handle_items.go`, `static/js`) | the page in the browser | drag, keyboard moves, inline forms | the page shows what is stored |
| command bar (`command_bar_controller.js`) | query, results, selection | type, search, choose | Enter goes where the highlight is |
| boot and shutdown (`store/db.go`, `store/migrate.go`, `cmd/tinystart/main.go`) | the schema and its ledger, the write lock, the connection, the process | open, migrate, serve, drain | one schema whatever crashes; requests are let finish; nobody waits for ever |
| rate limiter (`web/ratelimit.go`) | one window per address | `allow` | never more than twice the limit in a window; nobody is refused without a reason |

**How they interact.** The browser sends requests; a handler runs between
middleware that resolves the session and calls the store several times. The
store has ONE database connection and runs every write as one statement or one
`BEGIN IMMEDIATE` transaction rolled back on any error (`db.go`). So a store
call is atomic and a handler is not: requests interleave between store calls,
and what a handler read may be stale when it writes. The other app (tinylinks)
and Postmark are called over HTTP from inside a handler.

**What is hard here.** Renumbering ordered lists under every sequence of calls;
the four places that keep a link unique; a file people edit by hand; handlers
that read, wait and write; deadlines; late and reordered answers in the
browser. `PROJECT.json` lists the hazards line by line, with the properties
that cover each one, or why none does yet.

## 2. What is modelled

### Positions, StartPage, PageLists, StartPageRefinement

`StartPage` is the two tables, the width of every user's grid and the id
counters. One action per store call that writes: `CreateGroup`, `UpdateGroup`,
`MoveGroup`, `DeleteGroup`, `CreateItem`, `UpdateItem`, `MoveItem`,
`MoveItemToGroup`, `DeleteItem`, `IncrementVisitCount`, `UpdateColumns`,
`ReplaceStartPage`, `CreateUser`, `DeleteUser`, with the renumbering each one
ends in. A refused call changes nothing, so it is a stutter and its checks are
guards. Ids are never reused (AUTOINCREMENT). `Positions` holds the arithmetic
both tables share: clamp, insert, renumber, next position. A request may ask
for any position in `AskedPositions`, negative and past the end included.

Two groups of a column can share a position after an import (keys `1` and `01`).
The code reads a list with ORDER BY position and writes back the indexes of the
slice, so a renumbering tells tied rows apart, in the order SQLite returned
them. The query does not say which; it is answered from an index on the key and
the position, whose entries end with the row's id, so ties come in the order of
ids (`Before`), and `Index`, `InsertedAt` and `Renumbered` are made of that.

`PageLists` is what the tables stand for: a grid of lists of groups, each a
list of tiles, with operations that insert, remove and move. `StartPageRefinement`
maps tables to lists (order by position, then id, `Drawn`), and `ImplementsLists`
says that every store call is one operation on lists or none: the run `tiles`
checks it, and `StartPageProofs` proves it, of files with tied groups too.

### Interchange

The page, the exported file and a person who edits the file: export states a
width and counts, disambiguates repeated titles and keeps the order; import
reads mappings as YAML does (the last of two equal keys wins), finds the width,
checks, and compares with the stated counts; `ReplaceStartPage` stores it. The
page is built by the editor's own calls (`SaveGroup`, `SaveTile`, `SetWidth`).
A file is its tree; quoting is not modelled (psych.go makes every string load
back as itself) except for the strings that are tagged. The importer refuses
more than the editor does: names of blanks alone, and anything with a tag, which
the exporter gives to `<<`. `ExportsImport` says when an export of a page with a
group on it is refused: exactly when the page has one of these (`Refused`), or two
groups on one position that are read in between each other (`Interrupted`), and
never for its columns, its counts or its twins.

### Accounts

`users`, `sessions`, mailed `links`, and `requests`: what every request in
flight has read. A handler is cut where the code calls the store: a sign-in is
`Authenticate`, `DeleteExpiredSessions`, `CreateSession`; a request with a
session is `Arrive` (ActiveSession), `Admit` (UserByID and the two guards),
`RefreshSession` and then what it came for (`SignOut`, `CheckPassword` and
`UpdatePassword`, `ToggleApproved` and `MailApproval`, `DeleteUser`, `MailLink`);
a reset is `FollowLink` and `ResetPassword`; `SetPassword` is the command-line
tool beside the server. `Tick` is the clock, so a request may be slow. A request
may end at any step (`GiveUp`: its context is cancelled, a statement fails, the
process dies), and a mail may fail, which the handler logs and swallows. An
approval is then stored and nobody told: `missed` has those accounts, and
`ApprovedIsTold` says that an approved account was told, will be, or is one of
them, so that no order of switches alone leaves anybody out.
`Kinds` bounds which handlers a run sends requests to. `told`, `missed` and a
session's `seen` are history. Passwords are their digests, handed out in order (bcrypt's
salt makes every one new); signatures on cookies and links are taken to hold.

### CommandBar

The controller of the bar, field by field (`currentQuery`, `startPageLinks`,
`serverLinks`, `allResults`, `selectedIndex`, `isSearching`, the armed
`searchTimeout`), the searches that are out, and `shown`: what the last render
put on screen. An event handler is one action, because nothing else runs in the
page meanwhile: `Type` and `Empty` (`search`), `FetchServerResults` (the timer),
`Answered` and `Failed` (the rest of a fetch, its `finally` included),
`NavigateDown`, `NavigateUp`, `Escape`, and `Leave` for Enter or a click.
Searches settle in any order. A query is a name; which tiles it matches, and
which of their titles it starts, are given with the tiles (`Tiles`), what the
other app may answer in `Replies`.

### Connections, Disconnecting

One user's row in `connections`, the grants at the other app, the grant cookie
and the tabs of one browser that share it. `requests` are what handlers in
flight have read: a search or a visit takes the row's id and token
(`ConnectedClient`), waits for the other app (`AskApp`) and writes its verdict
by id (`NoteVerdict`); a poll takes the cookie (`Poll`), waits (`CheckGrant`),
and stores the connection (`StoreGrant`); `Open` and `OpenGrant`, `Disconnect`
and `Load` are the forms and pages. `Receive` is the browser taking an answer,
cookie first, and the poller's reload; leaving a page aborts its requests, and
an aborted request stops at its next wait (`Cancel`) or gets past it. Forms are
those the page on screen shows. The other app approves, denies, gives up,
hands a token out once and revokes it; it may be down at any time and its answer
may be lost after it took effect. A token is named by its grant. A row's note is
the token the verdict was about, where the table has a sentence.
`Disconnecting` adds one history variable for the run `disconnect`.

### Editor

One person's editor and the server behind it, for the tiles of one column. The
tables are `stored`, lists as `PageLists` promises them; `page` is what the node
tree shows. A tile is moved on the page before anybody asks: `Grab`, `Carry`,
`Drop` and `Cancel` are the methods of `grid_keyboard_controller` and
`drag_drop_controller`, with the keyboard or the pointer (`keys`), and `Drop`
sends the move with the index the node has among its siblings, and the group
only if it changed. `AddTile`, `DeleteTile`, `DeleteGroup` are forms, `Load`
opens the page. Turbo keeps one form or visit at a time (`Superseded`); moves
are fetched past it and may overlap.

A handler is cut at its store calls: `Find` (the lookup that also says which
group a tile is in), `Change`, and one `Read` for every query of the answer:
destination and source of a move, the group of a tile, the column of a group.
`Receive` applies the answer: the regions it draws replace what the page had,
the row waited for gets the focus, an error page replaces the page. When a
redraw takes the row in hand, the node is torn off: with the pointer it can be
dragged back in, with the keyboard it is let go when the focus moves, at the
place it had; and the focus given to another row lets a carried tile go. Whether
a browser reports the focus lost with a removed row is left open. `Lose` is a
request the browser gives up, `GiveUp` the handler that is cut off by it, and
`TurnAway` one that finds the session over: it is redirected to sign in before
its handler is called, and answered with that page. A form is replaced by it; a
fetched move takes it for an answer and redraws nothing (`Unanswered` is what
`postMove` calls no answer), so the row stays where it was dropped and the key
stays too. A handler fails when a row it looks for is gone, and does not for a
database error in between; the page takes either for the same failure.
`crossed`, `unheard`, `strayed` and `turnedAway` are history: no guard reads them.
The first three name the ways a page can go wrong for good, and `PageIsTrue` says
there is no fourth (a move that was turned away is `unheard`); the last is the one
way a key is left behind, and `KeyIsSpent` says there is no other but crossing;
`calm`, a history field of a request, marks a move made on a true page with
nothing else under way.

### RateLimiter

One limiter in front of one form: the windows by address, the clock, and the
attempts that were let through (history). A call of `allow` holds the mutex from
reading the clock to returning, so it is one action: `Begin` when there is no
window or it has run out, `Admit` and `Refuse` when it is counted in one, each
with the pruning of everybody's old windows. `Restart` forgets the windows, as a
deploy does ("it resets on deploy"), so the promises are about one process.

### Deploy, Schema

The program from start to stop, in containers that share one database file, as
kamal has them while one version takes over from another. A container boots
(`SchemaInstalled`, `BeginTx`, `InstallSchema`, `CommitSchema`,
`AppliedVersions`, then for each file `Alter`, `Record`, `CommitMigration`),
serves and drains. What is read before `BeginTx` is read without the lock, as in
the code, so another container may have changed it: then laying the tables or
repeating a change fails, the process ends, and docker starts it again. A
transaction is a copy of the database (`draft`) and the write lock that
`_txlock=immediate` takes; `Crash` rolls it back wherever it is. A request
does what the handlers that use the database and then call Postmark do: load the
user (`Query`, `CloseRows`), change something in a transaction (`Connect`,
`Lock`, `CommitWrite`), wait, answer. The process has ONE connection and the
machine one lock, so requests and boots wait for each other; `Busy` and
`BusyRequest` are the end of `busy_timeout`. SIGTERM is `StopBooting` or
`Shutdown`, and the latter lets requests finish (`Drained`) until ten seconds
have passed (`DeadlineExceeded`). This module is what entitles the others to
take a transaction as one action.

`Schema` is what Migrate promises: tables laid once, each change made once.
`ImplementsSchema` is the refinement, with the committed tables and changes as
its state.

## 3. What the runs check

| run | instance | shows |
|---|---|---|
| `grid` | 2 users, 3 groups, 1 tile, 2 columns, files good and bad, two of them leave groups tied | `NoGroupStranded`, `OneGroupJumps`, `TouchedColumnsAreNumbered`, `OneOwnerPerStep` |
| `tiles` | 1 user, 3 groups, 3 tiles, 2 columns, positions -1..2, no ties | `GroupsCompacted`, `ItemsCompacted`, `NoDuplicates`, `MovesAgree`, `OneTileJumps`, `ImplementsLists` |
| `interchange` | 2 groups, 3 tiles, 3 columns, keys `1` and `01`, a blank name, a tagged title, 1 hand edit | `ExportsImport`, `RoundTrip`, `TwinTitlesSurvive`, `LossIsNoticed` |
| `accounts` | 3 accounts, 3 sessions, 2 requests, failures anywhere, no time | `AlwaysAWayIn`, `SessionsHaveOwners`, `ApprovedIsTold`, `NoSessionComesBack` |
| `sessions` | 1 account, 2 sessions, 2 requests, 4 ticks | `VisitorsStay`, `EndedForGood`, `OldLinksFail` |
| `command_bar` | 2 queries, 3 tiles, 3 replies, 2 searches out per query | `RowsOpenWhatTheySay`, `NothingStaleIsShown`, `AnswersPushNothingDown`, `SearchingEnds` |
| `connections` | a start page and a settings page, 2 requests, 2 grants | `VerdictsStayWithTheirToken`, `NobodyWaitsForEver`, `RejectionIsNoted` |
| `disconnect` | two settings pages, 2 requests, 2 grants | violated: `DisconnectedStays` |
| `editor` | 2 groups, 4 tiles, 2 requests at a time, 2 acts and any number of loads | `TypeOK`, `PageIsTrue`, `KeyIsSpent`, `DropsStay` |
| `stray` | 3 groups, 2 tiles, moves and loads only | violated: `TruthComesBack` |
| `rate_limiter` | 2 addresses, limit 2, windows of 2 ticks, 2 processes, 5 ticks | `AtMostTwice`, `RefusedForAReason` |
| `deploy` | 2 containers (files {2} and {1, 2}), 2 requests, 2 faults, 2 ticks of grace | `LedgerIsTrue`, `ServesItsSchema`, `ImplementsSchema`, `ComesUp`, `LetFinish`, `RequestsEnd` |

`NoOrphanTiles` and `SessionsEndForAReason` are stated and proved, and left out of
the runs.

Types are stated in every module. Where a theorem proves them (`StartPage`,
`Accounts`, `Connections`, `RateLimiter`, `Deploy`) no run repeats them, but for
`Editor`, where `TypeOK` also says that a tile is in one group.

**Bounds.** Rows ever created are bounded because ids are never reused. Three
groups over two columns are the least in which a move leaves a gap, closes one
and passes a neighbour; three tiles in three groups let a move go between two
lists that both have to close up, and meet a duplicate link. Two users are
enough for one to touch another's rows. In `grid` one import leaves two groups with
one position and room for a third, another leaves them beside a third, so that a
tied group is moved past its twin, out of its column and over it. Three tiles
with two titles make the exporter's rename collide with a title that is already
numbered. Two requests are the least that race; with two, an in-flight sign-in
meets every switch of its account. A third account matters when an email signs
up again after a deletion. In `sessions` a session lives 3 ticks, the refresh
window is 2, a link lives 1 and the clock stops at 4, so that sessions and links
run out, with a request between being read and being acted on at every one of
those moments.

In `command_bar` two queries are the least with an old one; two searches out for
the same query come from typing, erasing and retyping it. Of the tiles two are
visited equally often, so that the alphabet and the start of a title decide, and
the replies hold a tile's address, an unknown one, and nothing. In `connections`
two grants are the least in which one connection replaces another, and two
requests the least in which a verdict or a poll meets the change; a third would
only add waiting ones. Grants ever opened are bounded by `MaxGrants`; when they
are used up, opening one fails like an app that is down.

In `editor` two groups are the least a tile can be moved between; a pair of twins
makes a move refused, and the tile that may be added is refused in one group. A
third group is what it takes for a tile to stray in two acts (it is in one, shown
in another and carried over the third), and only `stray`, of moves and loads
alone, has it; the theorems are about any number. Two acts (a tile picked up, a
form sent) with two requests under way let every request meet every other at
every step of its handler and of its answer, with a tile in hand or not; loads
are not bounded.

In `rate_limiter` a window of two ticks has an inside and an end, and the clock
runs through two whole windows and the start of a third, so that one allowance
can be used up at the end of a window and the next right after it. The second
address is there to be pruned and to be mistaken for the first; the second
process to show that the promises are made per process. The counter stops one
past the limit, where every further attempt is refused alike.

In `deploy` the second image has a file that was written before one the first
has already run, so that a ledger read as "up to the last one" skips it. Two
containers are what a deployment has; two requests are the least that wait for
each other's connection and lock, in one process and across two. Two faults let
a container crash, come up into the wait for a lock, and give up on it. Two
ticks of grace make a moment before, at and after the deadline.

`CHECK_DEADLOCK FALSE` stands where the bounds run out: a model with every row
used up and everything deleted can only stop, and so can a deployment whose
containers were all told to stop. Interchange always has a next
step, `CommandBar`, `Connections` and `Editor` a page that can be loaded or typed
in, and they are checked for deadlock.

**Fairness.** `StartPage`, `Interchange`, `Accounts`, `Editor` and `RateLimiter` have
only safety properties and assume none. `Deploy`: a process goes on with its boot,
its requests and its shutdown, docker starts a container again that ended by
itself, and time passes, all weakly. Weak fairness suffices for the lock, though
others may take it in between, because faults are bounded and a request or a file
takes it once; a real SQLite keeps asking until `busy_timeout`, which is a fault
here. Nothing is assumed of SIGTERM or of a client that goes away. `CommandBar`: an armed timer fires, and a fetch that
is out settles, because the client behind it gives up connecting after 2 s and
waiting for an answer after 4 s (`internal/tinylinks/tinylinks.go`); a body
that trickles in without end is bounded by neither, and is assumed away.
`SearchingEnds` is stated for the case that typing stops, since every key arms
the timer anew. `Connections`: a handler that began goes on and the browser
takes its answer (weak fairness, nothing disables them but themselves or the
page's leaving); a deadline passes (weak); a waiting page polls again and again
(`setInterval`). Polling gets strong fairness because the model lends out a
bounded number of request slots, which others may keep taking. Nothing is
assumed of the other app or the person at the browser, so
`NobodyWaitsForEver` holds with an app that is down from some time on.
`RejectionIsNoted` has its premise in the formula: searches that are turned down
keep coming.

## 4. What the violated runs show

* `stray`: a tile is dropped in a group that has its link already, and picked up
  again before the refusal arrives. The refusal redraws both groups, as it
  should, so the tile is back where it was, and once more in the hand, on a node
  that still names the group it was refused in. Dropped there, source and
  destination look the same and the move goes out without `group_id`
  (`start_page_moves.js:84`); the server moves the tile inside the group it is
  really in and redraws that one. The page shows it in the other until it is
  loaded again. It was met in proving `PageIsTrue`, which two groups could not
  refute, and `strayed` marks it there.
* `disconnect`: a poll has read its cookie and asked; another tab disconnects;
  the poll's handler stores the connection. Dropping the cookie stops the next
  poll, not the one under way.

Three more disagreements are exceptions written into properties that pass:

* An export that the importer refuses (`ExportsImport`), though
  `docs/start-page-format.md:167-168` says an exporter's file will pass: a page with a
  group called by blanks alone (`groups.go:248` refuses the empty name only,
  `import.go:157` trims first), or with a tile titled `<<` (`export.go:127-130` writes
  a tag, `import.go:246` refuses tags); and a third case that TLC found when
  the keys `1` and `01` were added to the run. A file with both is imported into one
  column with two groups at position 0 (`import.go:132`), which `groups.go:10-12` says
  cannot be. The exporter sorts the joined rows by column, group position and tile
  position (`store/startpage.go:41`), so the tiles of the two groups come in turns
  and a group begins anew with each turn: it is written twice, and its own import
  turns it down because the name is taken. Nothing else goes wrong with tied
  groups: the page has an order, every call keeps it, and the next renumbering of
  the column repairs them (`TouchedColumnsAreNumbered`).
* The session ends and a tile is moved with the keyboard (`KeyIsSpent`, `turnedAway`).
  The request is redirected to the sign-in page (`auth.go:92-101`), fetch follows,
  and `postMove` sees a 200 (`start_page_moves.js:29-31`): no notice, no redraw, the
  page shows a move that was never made, and the focus key stays, though
  `grid_keyboard_controller.js:493-496` says any answer spends it.
* An approval mail that failed, or that was not sent because the row could not be
  read back, is only logged (`ApprovedIsTold`, `missed`); the code says so.

Read in the code, and left without a run: type, get results, move down to one
and type on: while the new search is out the old results stay in `allResults`
and the selection is clamped against them, but they are not drawn, so nothing is
highlighted and Enter opens a result of the old query (which is why
`RowsOpenWhatTheySay` asks for agreement only with a highlight that is there);
two requests that each change one preference overwrite each other's, because
`UpdatePreferences` writes all four, though `handle_settings.go:146-148` says a
request "carrying one changes only that one"; two clicks on one Approve button,
both from lists that said Approve, leave the account blocked, because
`ToggleApproved` turns the flag over, though `handle_admin.go:86-88` says two
admins clicking "cannot cancel each other out"; a mail may take thirty seconds
and a shutdown waits ten, so the approval mail can be cut off after the switch
was stored, as it is when the admin closes the page meanwhile (such an account
is `missed`, and no later step tells it); a success answered before a token was
rejected clears the note of the rejection, until the next search is turned down
(`RejectionIsNoted` allows it); two moves that are handled across each other, or
whose answers arrive in another order, leave the page with a tile twice or none
at all until it is loaded again, though `start_page_moves.js:10-12` says an
answer leaves the caller nothing to do (`PageIsTrue` without `~crossed` fails);
Esc cannot undo a carry once a redraw has taken the row;
`handle_items.go:335-336` says both groups of a refused move exist, and a group
deleted meanwhile makes it a 500; `set-password` says it "leaves existing
sessions alone" (`cmd/tinystart/main.go:229`) and calls `ResetPassword`, which
deletes them; a sign-in checked before a reset stores its session after the
purge; two requests can follow one link; a password change can overwrite a reset
it did not see; Escape empties the bar and keeps `currentQuery`, so a late
answer opens the list again under an empty bar (`NothingStaleIsShown` leaves the
empty bar out, and says so); an answer to a poll of an old grant deletes the
cookie of a newer one; a token is lost for good when the answer that carried it
is.

## 5. What is proved

Assumptions: those of the modules' `ASSUME`s (sizes are naturals, `Layouts` are
files that a read gives, in which the tiles of a group are numbered from 0). One
theorem, `ColumnsAreIndexed`, has a hypothesis besides: that no file names a
column twice (`CompactFile`), as the files of the run `tiles` do. A file with the
keys `1` and `01` breaks it, and the theorem's conclusion; the other theorems hold
for such files too.

* `PositionsProofs`: what clamping, inserting and renumbering do to a list of
  any length, and what becomes of the sequence that is drawn of it when a row is
  added, inserted, taken out or given another id; the lemmas the others cite.
* `StartPageProofs`, for any number of users, groups, tiles and columns:
  - `TypeCorrect`.
  - `NothingIsStranded`, `NothingIsOrphaned` and `NothingIsThereTwice`, which are
    inductive together (`Sound`): a narrowing needs to know every group, and a
    deletion that tiles belong to groups.
  - `ColumnsAreIndexed` and `TilesAreIndexed`, and from the latter
    `MovesAlwaysAgree`. The invariant is that every list of the tables is compact; each action's case
    says which lists it rewrites and that the rest keep their rows.
  - `StepsHaveOneOwner`: every call is an `OnlyTouches(u)`, a step that rewrites
    the rows of one account and no other's. It needs `NoOrphanTiles` on both
    sides of the step, for a tile's owner is its group's.
  - `TilesMoveOneAtATime` and `GroupsMoveOneAtATime`, from `TypeCorrect` alone: an
    index in a list follows the order it is drawn in (`IndexKeepsOrder`), and an
    insertion keeps the order of the rest (`InsertedKeepsOrder`), whether or not
    the positions have ties and holes: ties are broken by id before the step and
    by number after it.
  - `RewrittenColumnsAreNumbered`: what a renumbering writes is 0 .. n-1 whatever
    was there, so the ties of an import do not outlive it.
  - `PageIsAGridOfLists`, the refinement as a theorem: `Spec => ImplementsLists`.
    A list can be drawn in one way only, positions first and ids where they tie
    (`DrawnIs`). From that follow, list by list, that a renumbering redraws
    nothing, an insertion is `InsertAt`, a row with the next position comes last
    and a deleted one is gone (`DrawnSame`, `DrawnInserted`, `DrawnAppended`,
    `DrawnWithout`); then one lemma per call names the step of `PageLists` it is
    (`...Simulated`). `MoveItem`, which searches for its index, comes out as the
    same `CarryTile` as `MoveItemToGroup`, which is given it: this is where the
    tiles' compactness is needed (`CompactIndex`), which holds for every file; the
    width is only narrowed to columns that hold everything, which rests on
    `NothingIsStranded`.
* `AccountsProofs`, for any number of accounts, sessions, mails and requests in
  flight:
  - `TypeCorrect`, on which the others rest. Two of them need nothing more:
    `EverySessionHasAnOwner` (a step deletes an account and its sessions
    together, and stores a session only if the foreign key finds the account)
    and `BlockedSessionsStayDead`.
  - `OneAdminStays`, from `FirstIsAdmin`: `AlwaysAWayIn` in a form the provers
    take, that the first account is there and approved and that an account is an
    admin exactly when it is the first.
  - `VisitorsAlwaysStay`, from `Lasting`: what a request read of a session is
    at most what the table says of it now (`ReadsAreOld`), because updates only
    extend it; session ids that requests hold were issued (`Issued`); and
    visits lie in the past (`SeenBefore`). Without the first, a request that
    read an expiry long ago could store an earlier one.
  - `ApprovedAreAlwaysTold`, from `ApprovedIsTold` itself: a request that
    turned a switch stays at its step until it mails what it reads back, fails to,
    or is given up, and the last two are remembered in `missed`.
  - `OldLinksAlwaysFail` and `SessionsAlwaysEndForAReason`, from
    `DigestsIssued`: no row and no mail holds a digest not yet issued, so a
    reset really changes the row.
  - `EndedSessionsStayEnded`, from types alone: an extension is an UPDATE, and an
    insertion takes the next id.

* `ConnectionsProofs`, for any number of tabs, requests and grants:
  - `TypeCorrect`, together with `SoundRequest`: a poll that asks was sent with
    a grant, what uses a row carries an id and a token, an answer to a visit is
    a page. Without it a verdict could be written on the row that is not there.
  - `VerdictsAlwaysStay`, from `OneTokenPerId`: a request never holds an id that
    was not handed out, and one that holds the row's id holds its token. A
    replacement takes a new id, so nothing in flight is about the new row. This
    rests on ids never being reused (AUTOINCREMENT): with plain row ids, a
    connection made after a disconnection would inherit late verdicts.

* `CommandBarProofs`, for any page, any queries, any answers and any number of
  searches out: `RowsAlwaysOpenWhatTheySay`, `NothingStaleIsEverShown` and
  `TilesStayWhereTheyAre`. The invariant is `Visible`: what is on screen is a
  beginning of `allResults`, and of the tiles for the current query followed by
  the row for what was typed, whatever of the links comes after. It needs
  `OfTheQuery` (the tiles answer `currentQuery`, and what is in the bar is
  `currentQuery` or nothing) and `Quiet`: without an active connection no answer
  can come, so a render that is not searching has only links of its own query.
* `RateLimiterProofs`, for every limit and every window: `NeverMoreThanTwice` and
  `AlwaysRefusedForAReason`. The invariant says that attempts lie in their
  windows (`Timely`) and are numbered there (`Distinct`), that two windows of one
  address and process are a whole window apart (`Apart`), and that the window in
  the map is the last one, with as many attempts as it counts (`Remembered`,
  `AllTaken`). The attempts within one
  window's length then fall in two windows at most, each with `Limit` numbers.
* `DeployProofs`, for any number of containers, images, requests and crashes:
  `LedgerIsAlwaysTrue`, `ServersHaveTheirSchema`, `RequestsAreLetFinish`, and
  `SchemaIsImplemented`, the refinement as a theorem: `Spec => ImplementsSchema`.
  The invariant is that the holder of the lock is the only one in a transaction
  (`Locked`), that its draft is the committed database and its own work
  (`Drafted`), that what a boot believes to be recorded is (`Listed`), and that
  requests are in flight only in processes that are up (`Served`).

* `EditorProofs`, for any groups, tiles and links and any number of requests
  under way: `TypeCorrect`, `KeysAreSpent`, `PageBecomesTrue` and
  `DropsAlwaysStay`, all four properties of the run. What the page shows says
  nothing while answers are on their way, so the invariant says what they will
  make of it, in layers that each rest on those before:
  - `Sound`: types, a request in order for its step, a tile stored once. Every
    action is then an `Asked`, a `Quiet` step, a `Turn` (a slot is emptied, or
    reused by a move) or a step of one handler, and the other layers are proved by
    these four kinds.
  - `Ordered`: unless requests crossed, one is handled at a time and of two that
    were handled the later one knows the earlier (`behind`).
  - `There`: what a handler found, and what it has read, is still stored while it
    is handled alone. So a refused move never turns into an error.
  - `Complete`: a whole page that is read names every stored group; the page on
    screen has a place for each; what was read for a part fits on it.
  - `Awaited`: the answer to a move that did not fail redraws the moved row, and a
    key is only ever the row of a move that will be answered, or that is being
    turned away (`KeyIsDue`). This is `KeyIsSpent`.
  - `Truthful`: a group of the page, with the tile in hand put back, is as stored,
    or some request is `Due` to redraw it; and what an answer claims of a group is
    true, or a later answer is due to correct it. With nothing under way nothing
    is due, and that is `PageIsTrue`. The step that needs it most is a drop beside
    requests under way: the page changes in two groups and the move becomes due in
    exactly those, except when the tile strays.
  - `CalmMovesAreTrue`: what the store will make of a calm move is what the page
    shows already, because an index on the page counts the rows without the tile
    (`InAndOut`, `MovedIsPlaced`). This is `DropsStay`.

Only model-checked: liveness, which is beyond the provers, as ENABLED is; and all
of `Interchange`, whose operators fold and recurse over data, which the provers
cannot induct on.

## 6. Plan, and what is not modelled

The order of the work was: tables, file, accounts and sessions, command bar,
connections, editor, then boot, shutdown and the limiter, with proofs after each.
What would come next:

* `Editor`: groups that are moved, added and renamed, the tile form, the width
  form, the focus after a deletion. Their handlers have the shape of those that
  are modelled (find, change, read what is drawn), so the hazards are the same;
  the run is already the longest.

Not modelled:

* Rendering, assets, flash messages, relative times, parameter parsing, logging,
  the demo page and the extension download, which keep no state; YAML syntax;
  cryptography.
* Preferences: one blind UPDATE, the last write wins (section 4).
* The shortcuts that leave the editor, and how they wait for a row that is carried
  to be dropped and saved (`start_shortcuts_controller.js`); `Drop` and `Load` of
  `Editor` come in any order.
* In `Deploy`: what the tables are, `PRAGMA journal_mode`, and what a handler
  does after `db.Close` when the ten seconds are over (it is cut off either way).
  A handler is one read, one transaction and one wait; those with more repeat
  these steps.
