------------------------------ MODULE StartPage ------------------------------
(***************************************************************************)
(* The start pages internal/store keeps: for every user a grid of columns, *)
(* in every column an ordered list of groups, in every group an ordered    *)
(* list of tiles (items).                                                  *)
(*                                                                         *)
(* db.go opens one connection and runs every write in one BEGIN IMMEDIATE  *)
(* transaction that is rolled back on any error, so a store call is one    *)
(* action: it happens whole, or it is refused and nothing changes.  A      *)
(* refusal (a ValidationError, ErrNotFound) is therefore a stutter here,   *)
(* and a guard below is a check whose failure is such a refusal.           *)
(*                                                                         *)
(* Left out: timestamps and titles.  A title is only checked to be there,  *)
(* which no other state depends on.                                        *)
(***************************************************************************)
EXTENDS Positions, Sequences

CONSTANTS
  MaxColumns,     (* users.go: the widest grid the editor offers (6)         *)
  Names,          (* group names a form or a file can carry                  *)
  Urls,           (* urls a form or a file can carry                         *)
  WebUrls,        (* the ones isWebURL accepts                               *)
  Blank,          (* the empty string                                        *)
  Layouts,        (* the start pages a file can describe, see LayoutType     *)
  AskedPositions, (* the positions a move request can carry                  *)
  MaxUsers,       (* bound: accounts ever created                            *)
  MaxGroups,      (* bound: groups ever created                              *)
  MaxItems,       (* bound: tiles ever created                               *)
  MaxVisits       (* bound: the visits counted on one tile                   *)

\* startpage.Layout with its slices flattened: groups and tiles in the order
\* they are written in, each with the index it has in its own slice.  A tile
\* names its group by the group's place in `groups`.  A group has one slice of
\* tiles, so the positions of its tiles are indexes.  Two columns of a layout can
\* have one number (see Interchange), and then their groups share positions.
LayoutType ==
  [width: Int,
   groups: Seq([column: Int, position: Nat, name: Names]),
   items: Seq([group: Nat, position: Nat, url: Urls])]

ASSUME ConstantsAssumption ==
  /\ MaxColumns \in Nat \ {0}
  /\ MaxUsers \in Nat /\ MaxGroups \in Nat /\ MaxItems \in Nat /\ MaxVisits \in Nat
  /\ AskedPositions \subseteq Int
  /\ WebUrls \subseteq Urls

ASSUME LayoutsAssumption ==
  /\ Layouts \subseteq LayoutType
  /\ \A file \in Layouts :
       /\ \A j \in DOMAIN file.items : file.items[j].group \in DOMAIN file.groups
       /\ \A k \in DOMAIN file.groups :
            Compact({j \in DOMAIN file.items : file.items[j].group = k}, PositionsOf(file.items))

VARIABLES
  columns,  (* users.columns, by user id                                    *)
  groups,   (* start_page_groups, by id                                     *)
  items,    (* start_page_items, by id                                      *)
  lastUser, lastGroup, lastItem   (* sqlite_sequence: AUTOINCREMENT ids     *)

ids == <<lastUser, lastGroup, lastItem>>
vars == <<columns, groups, items, ids>>

Users == DOMAIN columns
GroupType == [user: 1 .. MaxUsers, column: Int, position: Nat, name: Names]
ItemType == [group: 1 .. MaxGroups, position: Nat, url: Urls, visits: 0 .. MaxVisits]

-----------------------------------------------------------------------------
(* What the queries select.                                                *)

OwnedBy(u) == {g \in DOMAIN groups : groups[g].user = u}
\* A faulty query, not scoped to the user.
InColumnOfAnyone(u, c) == {g \in DOMAIN groups : groups[g].column = c}
InColumn(u, c) == {g \in OwnedBy(u) : groups[g].column = c}
InGroup(g) == {i \in DOMAIN items : items[i].group = g}
TilesOf(u) == {i \in DOMAIN items : items[i].group \in OwnedBy(u)}

\* groupErrors finds nothing wrong; except is the group being renamed, or 0.
GroupAccepted(u, except, name, column) ==
  /\ name # Blank
  /\ \A g \in OwnedBy(u) \ {except} : groups[g].name # name
  /\ column >= 1
  /\ column <= columns[u]

\* itemErrors finds nothing wrong; except is the tile being edited, or 0.
ItemAccepted(g, except, url) ==
  /\ url # Blank
  /\ \A i \in InGroup(g) \ {except} : items[i].url # url
  /\ url \in WebUrls

-----------------------------------------------------------------------------
(* Groups.                                                                 *)

CreateGroup(u, name, column) ==
  /\ lastGroup < MaxGroups
  /\ GroupAccepted(u, 0, name, column)
  /\ lastGroup' = lastGroup + 1
  /\ groups' = WithRow(groups, lastGroup + 1,
       [user |-> u, column |-> column, name |-> name,
        position |-> NextPosition(InColumn(u, column), PositionsOf(groups))])
  /\ UNCHANGED <<columns, items, lastUser, lastItem>>

UpdateGroup(u, g, name) ==
  /\ g \in OwnedBy(u)
  /\ GroupAccepted(u, g, name, groups[g].column)
  /\ groups' = [groups EXCEPT ![g].name = name]
  /\ UNCHANGED <<columns, items, ids>>

\* Faulty renumberings: none at all, and one that forgets ORDER BY position.
ReorderColumnSkipped(rows, u, c) == rows
ReorderColumnById(rows, u, c) ==
  LET column == {g \in DOMAIN rows : rows[g].user = u /\ rows[g].column = c}
  IN  Repositioned(rows, Renumbered(column, [g \in column |-> g]))

\* reorderGroupsInColumn, on a table of groups already changed by the caller.
ReorderColumn(rows, u, c) ==
  LET column == {g \in DOMAIN rows : rows[g].user = u /\ rows[g].column = c}
  IN  Repositioned(rows, Renumbered(column, PositionsOf(rows)))

MoveGroup(u, g, column, position) ==
  LET neighbours == InColumn(u, column) \ {g}
      index == Clamp(position, 0, Cardinality(neighbours))
      moved == [groups EXCEPT ![g].column = column]
      landed == Repositioned(moved, InsertedAt(neighbours, PositionsOf(groups), g, index))
      source == groups[g].column
  IN  /\ g \in OwnedBy(u)
      /\ column >= 1
      /\ column <= columns[u]
      /\ groups' = IF source # column THEN ReorderColumn(landed, u, source) ELSE landed
      /\ UNCHANGED <<columns, items, ids>>

\* The tiles go first because the foreign key is on.
DeleteGroup(u, g) ==
  /\ g \in OwnedBy(u)
  /\ items' = WithoutRows(items, InGroup(g))
  /\ groups' = ReorderColumn(WithoutRows(groups, {g}), u, groups[g].column)
  /\ UNCHANGED <<columns, ids>>

-----------------------------------------------------------------------------
(* Tiles.                                                                  *)

CreateItem(u, g, url) ==
  /\ lastItem < MaxItems
  /\ g \in OwnedBy(u)
  /\ ItemAccepted(g, 0, url)
  /\ lastItem' = lastItem + 1
  /\ items' = WithRow(items, lastItem + 1,
       [group |-> g, url |-> url, visits |-> 0,
        position |-> NextPosition(InGroup(g), PositionsOf(items))])
  /\ UNCHANGED <<columns, groups, lastUser, lastGroup>>

UpdateItem(u, i, url) ==
  /\ i \in TilesOf(u)
  /\ ItemAccepted(items[i].group, i, url)
  /\ items' = [items EXCEPT ![i].url = url]
  /\ UNCHANGED <<columns, groups, ids>>

\* A faulty index: not clamped after the search (the 500 of the Rails version).
MoveItemIndexUnclamped(list, pos, position) == FirstAtLeast(list, pos, position)

\* The index MoveItem inserts at: the first tile whose position is at least the
\* one asked for, found with the moving tile still in the list, then clamped.
MoveItemIndex(list, pos, position) ==
  Clamp(FirstAtLeast(list, pos, position), 0, Cardinality(list) - 1)

MoveItem(u, i, position) ==
  LET list == InGroup(items[i].group)
      pos == PositionsOf(items)
      index == MoveItemIndex(list, pos, position)
  IN  /\ i \in TilesOf(u)
      /\ items' = Repositioned(items, InsertedAt(list \ {i}, pos, i, index))
      /\ UNCHANGED <<columns, groups, ids>>

\* Faulty renumberings, as for groups.
ReorderGroupSkipped(rows, g) == rows
ReorderGroupById(rows, g) ==
  LET list == {i \in DOMAIN rows : rows[i].group = g}
  IN  Repositioned(rows, Renumbered(list, [i \in list |-> i]))

\* reorderItemsInGroup, on a table of tiles already changed by the caller.
ReorderGroup(rows, g) ==
  LET list == {i \in DOMAIN rows : rows[i].group = g}
  IN  Repositioned(rows, Renumbered(list, PositionsOf(rows)))

\* The index MoveItemToGroup inserts at: the one asked for, clamped.
MoveItemToGroupIndex(neighbours, position) ==
  Clamp(position, 0, Cardinality(neighbours))

\* Nothing in the target group holds this url yet: the one refusal of a move.
UrlUnchecked(g, url) == TRUE
UrlFree(g, url) == \A k \in InGroup(g) : items[k].url # url

MoveItemToGroup(u, i, g, position) ==
  LET source == items[i].group
      neighbours == InGroup(g) \ {i}
      index == MoveItemToGroupIndex(neighbours, position)
      moved == [items EXCEPT ![i].group = g]
      landed == Repositioned(moved, InsertedAt(neighbours, PositionsOf(items), i, index))
  IN  /\ i \in TilesOf(u)
      /\ g \in OwnedBy(u)
      /\ source # g => UrlFree(g, items[i].url)
      /\ items' = IF source # g THEN ReorderGroup(landed, source) ELSE landed
      /\ UNCHANGED <<columns, groups, ids>>

DeleteItem(u, i) ==
  /\ i \in TilesOf(u)
  /\ items' = ReorderGroup(WithoutRows(items, {i}), items[i].group)
  /\ UNCHANGED <<columns, groups, ids>>

IncrementVisitCount(u, i) ==
  /\ i \in TilesOf(u)
  /\ items[i].visits < MaxVisits
  /\ items' = [items EXCEPT ![i].visits = @ + 1]
  /\ UNCHANGED <<columns, groups, ids>>

-----------------------------------------------------------------------------
(* The page as a whole.                                                    *)

\* Faulty: no look at the groups left outside.
UpdateColumnsHiding(u, width) ==
  /\ width \in 1 .. MaxColumns
  /\ columns' = [columns EXCEPT ![u] = width]
  /\ UNCHANGED <<groups, items, ids>>

\* The check only runs when the width really changes; a save that leaves it
\* alone writes the value that is there already.
UpdateColumns(u, width) ==
  /\ width >= 1
  /\ width <= MaxColumns
  /\ columns[u] # width => \A g \in OwnedBy(u) : groups[g].column <= width
  /\ columns' = [columns EXCEPT ![u] = width]
  /\ UNCHANGED <<groups, items, ids>>

\* Every record of the file passes the validations of writeGroup on the page
\* that the records before it have built.
LayoutAccepted(file) ==
  /\ file.width >= 1
  /\ file.width <= MaxColumns
  /\ \A k \in DOMAIN file.groups :
       /\ file.groups[k].name # Blank
       /\ file.groups[k].column >= 1
       /\ file.groups[k].column <= file.width
       /\ \A n \in 1 .. k - 1 : file.groups[n].name # file.groups[k].name
  /\ \A k \in DOMAIN file.items :
       /\ file.items[k].url # Blank
       /\ file.items[k].url \in WebUrls
       /\ \A n \in 1 .. k - 1 :
            file.items[n].group = file.items[k].group => file.items[n].url # file.items[k].url

\* A file that names no column twice, so that the positions of a column's groups
\* are indexes too.  StartPage does not assume it, because a file can break it
\* (see Interchange); what depends on it says so.
CompactFile(file) ==
  \A c \in 1 .. MaxColumns :
    Compact({k \in DOMAIN file.groups : file.groups[k].column = c}, PositionsOf(file.groups))

\* The rows an import inserts; the k-th group gets the k-th new id.
NewGroups(u, file) ==
  [g \in lastGroup + 1 .. lastGroup + Len(file.groups) |->
     [user |-> u, column |-> file.groups[g - lastGroup].column,
      name |-> file.groups[g - lastGroup].name,
      position |-> file.groups[g - lastGroup].position]]

NewItems(file) ==
  [i \in lastItem + 1 .. lastItem + Len(file.items) |->
     [group |-> lastGroup + file.items[i - lastItem].group,
      url |-> file.items[i - lastItem].url, visits |-> 0,
      position |-> file.items[i - lastItem].position]]

\* Rows of two tables with no id in common.
Merge(rows, more) ==
  [r \in DOMAIN rows \cup DOMAIN more |-> IF r \in DOMAIN more THEN more[r] ELSE rows[r]]

ReplaceStartPage(u, file) ==
  /\ lastGroup + Len(file.groups) <= MaxGroups
  /\ lastItem + Len(file.items) <= MaxItems
  /\ LayoutAccepted(file)
  /\ items' = Merge(WithoutRows(items, TilesOf(u)), NewItems(file))
  /\ groups' = Merge(WithoutRows(groups, OwnedBy(u)), NewGroups(u, file))
  /\ columns' = [columns EXCEPT ![u] = file.width]
  /\ lastGroup' = lastGroup + Len(file.groups)
  /\ lastItem' = lastItem + Len(file.items)
  /\ UNCHANGED lastUser

\* A new account starts one column wide, with nothing on it.
CreateUser ==
  /\ lastUser < MaxUsers
  /\ lastUser' = lastUser + 1
  /\ columns' = WithRow(columns, lastUser + 1, 1)
  /\ UNCHANGED <<groups, items, lastGroup, lastItem>>

\* Who may be deleted is Accounts' business; here any account can go.
DeleteUser(u) ==
  /\ items' = WithoutRows(items, TilesOf(u))
  /\ groups' = WithoutRows(groups, OwnedBy(u))
  /\ columns' = WithoutRows(columns, {u})
  /\ UNCHANGED ids

-----------------------------------------------------------------------------
Init ==
  /\ columns = [u \in {} |-> 0]
  /\ groups = [g \in {} |-> 0]
  /\ items = [i \in {} |-> 0]
  /\ lastUser = 0 /\ lastGroup = 0 /\ lastItem = 0

GroupStep(u) ==
  \/ \E name \in Names, c \in 0 .. MaxColumns + 1 : CreateGroup(u, name, c)
  \/ \E g \in DOMAIN groups, name \in Names : UpdateGroup(u, g, name)
  \/ \E g \in DOMAIN groups, c \in 0 .. MaxColumns + 1, p \in AskedPositions :
       MoveGroup(u, g, c, p)
  \/ \E g \in DOMAIN groups : DeleteGroup(u, g)

ItemStep(u) ==
  \/ \E g \in DOMAIN groups, url \in Urls : CreateItem(u, g, url)
  \/ \E i \in DOMAIN items, url \in Urls : UpdateItem(u, i, url)
  \/ \E i \in DOMAIN items, p \in AskedPositions : MoveItem(u, i, p)
  \/ \E i \in DOMAIN items, g \in DOMAIN groups, p \in AskedPositions :
       MoveItemToGroup(u, i, g, p)
  \/ \E i \in DOMAIN items : DeleteItem(u, i)
  \/ \E i \in DOMAIN items : IncrementVisitCount(u, i)

PageStep(u) ==
  \/ \E width \in 0 .. MaxColumns + 1 : UpdateColumns(u, width)
  \/ \E file \in Layouts : ReplaceStartPage(u, file)
  \/ DeleteUser(u)

Next ==
  \/ CreateUser
  \/ \E u \in Users : GroupStep(u) \/ ItemStep(u) \/ PageStep(u)

Spec == Init /\ [][Next]_vars

-----------------------------------------------------------------------------
(* Properties.                                                             *)

\* Every variable has its type, and an id that was handed out stays below the
\* sequence that hands out the next one.
TypeOK ==
  /\ lastUser \in 0 .. MaxUsers
  /\ lastGroup \in 0 .. MaxGroups
  /\ lastItem \in 0 .. MaxItems
  /\ Users \subseteq 1 .. lastUser
  /\ columns \in [Users -> 1 .. MaxColumns]
  /\ DOMAIN groups \subseteq 1 .. lastGroup
  /\ groups \in [DOMAIN groups -> GroupType]
  /\ DOMAIN items \subseteq 1 .. lastItem
  /\ items \in [DOMAIN items -> ItemType]

\* "Position is 0-based and always compacted, so a position is an index"
\* (the Group comment), for the groups of a column: every operation renumbers
\* every list it disturbs, the one it takes from as well as the one it adds to.
GroupsCompacted ==
  \A u \in Users, c \in 1 .. MaxColumns : Compact(InColumn(u, c), PositionsOf(groups))

\* The same for the tiles of a group.
ItemsCompacted ==
  \A g \in DOMAIN groups : Compact(InGroup(g), PositionsOf(items))

\* No group is stranded: every group sits in a column its owner's grid draws,
\* however the owner narrows, imports, creates and moves ("A group parked
\* outside the grid renders nowhere and has no controls left to bring it back").
NoGroupStranded ==
  \A g \in DOMAIN groups : groups[g].user \in Users /\ groups[g].column \in 1 .. columns[groups[g].user]

\* No tile outlives its group: the deletes clear the tiles first and none of
\* the moves leaves a tile pointing at a group that is gone.
NoOrphanTiles == \A i \in DOMAIN items : items[i].group \in DOMAIN groups

\* The two unique indexes hold because every path that writes a name, a url or
\* a tile's group checks them: create, edit, move to another group and import.
NoDuplicates ==
  /\ \A g, h \in DOMAIN groups :
       g # h /\ groups[g].user = groups[h].user => groups[g].name # groups[h].name
  /\ \A i, k \in DOMAIN items :
       i # k /\ items[i].group = items[k].group => items[i].url # items[k].url

\* MoveItem and MoveItemToGroup find their index in different ways; "Positions
\* always stay compacted, so for the editor the two agree" (MoveItem comment).
MovesAgree ==
  \A i \in DOMAIN items, p \in AskedPositions :
    LET list == InGroup(items[i].group)
    IN  MoveItemIndex(list, PositionsOf(items), p) = MoveItemToGroupIndex(list \ {i}, p)

\* The rows of a table that a step keeps.
Kept(rows, next) == DOMAIN rows \cap DOMAIN next

\* A step displaces at most one tile: any other two that shared a group still
\* share it afterwards, and are drawn in the same order, whatever was renumbered
\* around them.
OneTileJumps ==
  [][\E x \in DOMAIN items \cup {0} : \A a, b \in Kept(items, items') \ {x} :
       items[a].group = items[b].group =>
         /\ items'[a].group = items'[b].group
         /\ Before(PositionsOf(items), a, b) <=> Before(PositionsOf(items'), a, b)
    ]_vars

\* The same for groups and columns, also where an import left groups of a column
\* with one position: a renumbering that tells them apart draws them as before.
OneGroupJumps ==
  [][\E x \in DOMAIN groups \cup {0} : \A a, b \in Kept(groups, groups') \ {x} :
       groups[a].user = groups[b].user /\ groups[a].column = groups[b].column =>
         /\ groups'[a].column = groups'[b].column
         /\ Before(PositionsOf(groups), a, b) <=> Before(PositionsOf(groups'), a, b)
    ]_vars

\* "All of the positions land or none of them do" (ReorderGroupsInColumn): a step
\* that changes the column or the position of one group leaves every column it
\* took that group from or put it in numbered 0, 1, 2, ..., whatever positions
\* an import had brought in.
TouchedColumnsAreNumbered ==
  [][\A u \in Users, c \in 1 .. MaxColumns :
       (\E g \in OwnedBy(u) \cap DOMAIN groups' :
          /\ c \in {groups[g].column, groups'[g].column}
          /\ \/ groups'[g].column # groups[g].column
             \/ groups'[g].position # groups[g].position)
       => Compact(InColumn(u, c)', PositionsOf(groups'))]_vars

\* "An id in a URL only ever addresses one person's tile" (itemByIDQuery): a
\* step changes at most one account's page, and no row that survives it changes
\* hands or loses visits.
OneOwnerPerStep ==
  [][/\ \E u \in Users \cup {lastUser + 1} : \A v \in Users \ {u} :
          /\ v \in Users' /\ columns'[v] = columns[v]
          /\ OwnedBy(v)' = OwnedBy(v) /\ TilesOf(v)' = TilesOf(v)
          /\ \A g \in OwnedBy(v) : groups'[g] = groups[g]
          /\ \A i \in TilesOf(v) : items'[i] = items[i]
     /\ \A i \in Kept(items, items') :
          /\ groups'[items'[i].group].user = groups[items[i].group].user
          /\ items'[i].visits >= items[i].visits
    ]_vars

=============================================================================
