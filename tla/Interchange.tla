----------------------------- MODULE Interchange -----------------------------
(***************************************************************************)
(* Settings, Import & Export: a start page out as a file, a person's hand  *)
(* edits to that file, and the file back in over the page there is.        *)
(*                                                                         *)
(* A file is its tree: column keys and titles as the texts they are        *)
(* written as, mappings as sequences of entries that may repeat a key, and *)
(* the counts its header states.  How YAML quotes a string is left out:    *)
(* quoting makes every string load back as itself (psych.go), except that  *)
(* the exporter tags some, which the importer refuses.                     *)
(***************************************************************************)
EXTENDS Positions, Sequences, SequencesExt

CONSTANTS
  MaxColumns,  (* import.go, store: the widest page (6)                      *)
  Keys,        (* texts a top-level key can be, every one of them an !!int   *)
  KeyNumber,   (* strconv.Atoi of a key                                      *)
  KeyOf,       (* strconv.Itoa of a column number                            *)
  Names,       (* group names a form can carry                               *)
  BlankNames,  (* those strings.TrimSpace leaves nothing of                  *)
  Titles,      (* tile titles a form or a hand edit can carry, see TitleType *)
  TaggedWords, (* titles the exporter writes with an explicit tag            *)
  Urls,        (* the http(s) urls of tiles                                  *)
  MaxGroups,   (* bound: groups on a page                                    *)
  MaxTiles,    (* bound: tiles on a page or in a file                        *)
  MaxEdits     (* bound: hand edits made to one exported file                *)

\* "Fastmail (2) (2)" is the word Fastmail with two suffixes.
TitleType == [word: STRING, suffixes: Seq(Nat)]
Numbered(title, n) == [title EXCEPT !.suffixes = Append(@, n)]

ASSUME InterchangeAssumption ==
  /\ MaxColumns \in Nat \ {0}
  /\ KeyNumber \in [Keys -> Int]
  /\ KeyOf \in [1 .. MaxColumns -> Keys]
  /\ \A c \in 1 .. MaxColumns : KeyNumber[KeyOf[c]] = c
  /\ Titles \subseteq TitleType

Indexes(s, Keep(_)) == SetToSortSeq({k \in DOMAIN s : Keep(k)}, <)
Total(s) == FoldLeft(+, 0, s)
HighestOf(S) == IF S = {} THEN 0 ELSE CHOOSE m \in S : \A n \in S : n <= m

-----------------------------------------------------------------------------
(* The layout both sides speak, startpage.Layout: its groups in the order  *)
(* of their columns, each with its column and its tiles.                   *)

Counts(layout) ==
  [columns |-> HighestOf(layout.columns), groups |-> Len(layout.groups),
   items |-> Total([k \in DOMAIN layout.groups |-> Len(layout.groups[k].items)])]

\* StartPageLayout: one row per tile, or one for an empty group, sorted by
\* column, position and tile; rows that tie come back here by group id.  A
\* row of another group than the row before it starts a group of the layout.
StartPageLayout(page) ==
  LET tilesIn(g) == IF page.groups[g].items = <<>> THEN {0} ELSE DOMAIN page.groups[g].items
      before(r, s) ==
        LET g == page.groups[r[1]]  h == page.groups[s[1]]
        IN  IF g.column # h.column THEN g.column < h.column
            ELSE IF g.position # h.position THEN g.position < h.position
            ELSE IF r[2] # s[2] THEN r[2] < s[2]
            ELSE r[1] < s[1]
      rows == SetToSortSeq(UNION {{g} \X tilesIn(g) : g \in DOMAIN page.groups}, before)
      starts == Indexes(rows, LAMBDA n : n = 1 \/ rows[n - 1][1] # rows[n][1])
      endOf(m) == IF m = Len(starts) THEN Len(rows) ELSE starts[m + 1] - 1
      group(g) == page.groups[g]
      tile(r) == IF r[2] = 0 THEN <<>> ELSE <<group(r[1]).items[r[2]]>>
  IN  [width |-> page.width,
       columns |-> {page.groups[g].column : g \in DOMAIN page.groups},
       groups |-> [m \in DOMAIN starts |->
         [column |-> group(rows[starts[m]][1]).column,
          name |-> group(rows[starts[m]][1]).name,
          items |-> FlattenSeq([n \in 1 .. endOf(m) - starts[m] + 1 |->
                                  tile(rows[starts[m] + n - 1])])]]]

-----------------------------------------------------------------------------
(* Export.                                                                 *)

\* The titles a group's tiles get in the file.  A faulty form: with a suffix
\* that is not checked against the titles already taken.
DedupedByTwo(items) ==
  FoldLeft(LAMBDA done, item :
    IF \E k \in DOMAIN done : done[k].title = item.title
    THEN Append(done, [item EXCEPT !.title = Numbered(item.title, 2)])
    ELSE Append(done, item), <<>>, items)

\* itemsNode: a title that is taken gets the first suffix from 2 up that is not.
Deduped(items) ==
  FoldLeft(LAMBDA done, item :
    LET taken == {done[k].title : k \in DOMAIN done}
        free == {n \in 2 .. Len(items) + 2 : Numbered(item.title, n) \notin taken}
        suffix == CHOOSE n \in free : \A m \in free : n <= m
    IN  IF item.title \in taken
        THEN Append(done, [item EXCEPT !.title = Numbered(item.title, suffix)])
        ELSE Append(done, item), <<>>, items)

\* document and header: the columns that hold a group, in order, and the counts.
Export(layout) ==
  LET used == SetToSortSeq({layout.groups[k].column : k \in DOMAIN layout.groups}, <)
      written == [k \in DOMAIN layout.groups |->
        [layout.groups[k] EXCEPT !.items = Deduped(@)]]
  IN  [stated |-> Counts(layout),
       tagged |-> \E k \in DOMAIN layout.groups :
         \/ layout.groups[k].name \in TaggedWords
         \/ \E item \in ToSet(written[k].items) :
              item.title.word \in TaggedWords /\ item.title.suffixes = <<>>,
       body |-> [c \in DOMAIN used |->
         [key |-> KeyOf[used[c]],
          groups |-> LET its == SelectSeq(written, LAMBDA g : g.column = used[c])
                     IN  [k \in DOMAIN its |-> [name |-> its[k].name, items |-> its[k].items]]]]]

-----------------------------------------------------------------------------
(* Import.                                                                 *)

\* pairs, of a mapping and its keys: for every key the last value, where the
\* key stands first.
Pairs(mapping, keys) ==
  LET firsts == Indexes(keys, LAMBDA k : \A j \in 1 .. k - 1 : keys[j] # keys[k])
      last(key) == HighestOf({k \in DOMAIN keys : keys[k] = key})
  IN  [n \in DOMAIN firsts |-> mapping[last(keys[firsts[n]])]]
Field(rows, name) == [k \in DOMAIN rows |-> rows[k][name]]

\* A faulty reading of the keys: the columns are numbered by counting them.
NumberByCounting(body, c) == c
\* readColumn: "Use the literal key as the column number. Never re-index."
NumberOf(body, c) == KeyNumber[body[c].key]

\* A faulty width: how many columns the file has.
WidthByCounting(numbers) == Cardinality(numbers)
\* Layout.Width: the highest column number the file names.
WidthOf(numbers) == HighestOf(numbers)

\* readLayout: every column's groups, columns in ascending order.
ReadLayout(body) ==
  LET columns == Pairs(body, Field(body, "key"))
      order == SetToSortSeq(DOMAIN columns, LAMBDA c, d :
        IF NumberOf(columns, c) = NumberOf(columns, d) THEN c < d
        ELSE NumberOf(columns, c) < NumberOf(columns, d))
      groupsOf(c) == [k \in DOMAIN columns[c].groups |->
        [column |-> NumberOf(columns, c),
         position |-> k - 1,
         name |-> columns[c].groups[k].name,
         items |-> LET its == columns[c].groups[k].items IN Pairs(its, Field(its, "title"))]]
      numbers == {NumberOf(columns, c) : c \in DOMAIN columns}
  IN  [width |-> WidthOf(numbers), columns |-> numbers,
       groups |-> FlattenSeq([n \in DOMAIN order |-> groupsOf(order[n])])]

\* The file passes Import, and then every record passes ReplaceStartPage.
Readable(file) ==
  LET layout == ReadLayout(file.body)
  IN  /\ ~file.tagged
      /\ layout.columns \subseteq 1 .. MaxColumns
      /\ layout.groups # <<>>
      /\ \A k \in DOMAIN layout.groups : layout.groups[k].name \notin BlankNames
Storable(layout) ==
  /\ layout.width \in 1 .. MaxColumns
  /\ \A k \in DOMAIN layout.groups :
       /\ layout.groups[k].column \in 1 .. layout.width
       /\ \A n \in 1 .. k - 1 : layout.groups[n].name # layout.groups[k].name
       /\ LET items == layout.groups[k].items
          IN  \A m, n \in DOMAIN items : m # n => items[m].url # items[n].url

\* ReplaceStartPage: the rows written, in the order they are created in.
Replaced(layout) == [width |-> layout.width, groups |-> layout.groups]

\* countMismatch.  Faulty: it only looks at columns and groups.
MismatchOfGroups(stated, layout) ==
  stated.columns # Counts(layout).columns \/ stated.groups # Counts(layout).groups
CountMismatch(stated, layout) == stated # Counts(layout)
-----------------------------------------------------------------------------
VARIABLES
  page,    (* one user's page: width, and groups in the order of their ids   *)
  file,    (* the file on the person's disk, or NoFile                       *)
  edits,   (* hand edits made to it since it was exported                    *)
  notice   (* the flash of an import, until the next request                 *)

vars == <<page, file, edits, notice>>
NoFile == [stated |-> [columns |-> 0, groups |-> 0, items |-> 0], tagged |-> FALSE,
           body |-> <<>>]

Init ==
  /\ page = [width |-> 1, groups |-> <<>>]
  /\ file = NoFile /\ edits = 0 /\ notice = "none"

TilesIn(groups) == Total([g \in DOMAIN groups |-> Len(groups[g].items)])
TilesWritten(body) == Total([c \in DOMAIN body |-> TilesIn(body[c].groups)])

(* The editor: CreateGroup, CreateItem and UpdateColumns as StartPage has    *)
(* them, with the titles StartPage leaves out.  A bound: the page is left    *)
(* alone while a file of it is out, which loses nothing, because an import   *)
(* reads nothing of the page it replaces.                                    *)
SaveGroup(name, column) ==
  /\ file = NoFile
  /\ Len(page.groups) < MaxGroups
  /\ column <= page.width
  /\ \A g \in DOMAIN page.groups : page.groups[g].name # name
  /\ page' = [page EXCEPT !.groups = Append(@,
       [column |-> column, name |-> name, items |-> <<>>,
        position |-> NextPosition({g \in DOMAIN @ : @[g].column = column},
                                  [g \in DOMAIN @ |-> @[g].position])])]
  /\ notice' = "none"
  /\ UNCHANGED <<file, edits>>

SaveTile(g, title, url) ==
  /\ file = NoFile
  /\ TilesIn(page.groups) < MaxTiles
  /\ \A k \in DOMAIN page.groups[g].items : page.groups[g].items[k].url # url
  /\ page' = [page EXCEPT !.groups[g].items = Append(@, [title |-> title, url |-> url])]
  /\ notice' = "none"
  /\ UNCHANGED <<file, edits>>

SetWidth(width) ==
  /\ file = NoFile
  /\ \A g \in DOMAIN page.groups : page.groups[g].column <= width
  /\ page' = [page EXCEPT !.width = width]
  /\ notice' = "none"
  /\ UNCHANGED <<file, edits>>

\* handleExport.
HandleExport ==
  /\ file = NoFile
  /\ file' = Export(StartPageLayout(page))
  /\ edits' = 0 /\ notice' = "none"
  /\ UNCHANGED page

\* What a person may do to a file by hand: spell a column key another way,
\* retitle a tile, strike its line out or write a new one.
HandEdited(body) ==
  LET group(c, g) == body[c].groups[g]
      places == {<<c, g>> \in (DOMAIN body) \X (1 .. MaxGroups) : g \in DOMAIN body[c].groups}
      lines == {<<c, g, k>> \in (DOMAIN body) \X (1 .. MaxGroups) \X (1 .. MaxTiles) :
                  g \in DOMAIN body[c].groups /\ k \in DOMAIN group(c, g).items}
      with(c, g, items) == [body EXCEPT ![c].groups[g].items = items]
  IN  {[body EXCEPT ![c].key = key] : c \in DOMAIN body, key \in Keys}
      \cup {with(l[1], l[2], [group(l[1], l[2]).items EXCEPT ![l[3]].title = title]) :
              l \in lines, title \in Titles}
      \cup {with(l[1], l[2], RemoveAt(group(l[1], l[2]).items, l[3])) : l \in lines}
      \cup {with(p[1], p[2], Append(group(p[1], p[2]).items, [title |-> title, url |-> url])) :
              p \in places, title \in Titles, url \in Urls}

EditByHand ==
  /\ edits < MaxEdits
  /\ \E body \in HandEdited(file.body) :
       /\ TilesWritten(body) <= MaxTiles
       /\ file' = [file EXCEPT !.body = body]
  /\ edits' = edits + 1 /\ notice' = "none"
  /\ UNCHANGED page

DiscardFile ==
  /\ file # NoFile
  /\ file' = NoFile /\ edits' = 0 /\ notice' = "none"
  /\ UNCHANGED page

\* handleImportCreate: refused whole, or imported with or without a warning.
HandleImportCreate ==
  LET layout == ReadLayout(file.body)
      taken == Readable(file) /\ Storable(layout)
  IN  /\ file # NoFile
      /\ page' = IF taken THEN Replaced(layout) ELSE page
      /\ notice' = IF ~taken THEN "refused"
                   ELSE IF CountMismatch(file.stated, layout) THEN "warned" ELSE "imported"
      /\ UNCHANGED <<file, edits>>

Next ==
  \/ \E name \in Names, c \in 1 .. MaxColumns : SaveGroup(name, c)
  \/ \E g \in DOMAIN page.groups, title \in Titles, url \in Urls : SaveTile(g, title, url)
  \/ \E width \in 1 .. MaxColumns : SetWidth(width)
  \/ HandleExport
  \/ EditByHand
  \/ DiscardFile
  \/ HandleImportCreate

Spec == Init /\ [][Next]_vars

-----------------------------------------------------------------------------
(* Properties.                                                             *)

\* What the exporter writes and its own importer refuses: a name that is only
\* spaces, which the editor accepts, and a name or title that it writes with a tag.
Refused(group) ==
  \/ group.name \in BlankNames \cup TaggedWords
  \/ \E item \in ToSet(group.items) : item.title.word \in TaggedWords /\ item.title.suffixes = <<>>

\* Groups that share a position, as an import of the keys 1 and 01 leaves them,
\* are read row by row in between each other, and one that is interrupted is
\* written a second time, under a name that is taken then.
Interrupted == Len(StartPageLayout(page).groups) # Len(page.groups)

\* "A file straight out of tinylinks or tinystart will pass" the import
\* (docs/start-page-format.md:167-168) is not so: it is refused when the page has
\* a name or a title the importer takes for broken, or groups that an import left
\* on one position.  For no other page with a group on it: the columns, the
\* counts, the renamed twins and the uniqueness of names and urls never make it fail.
ExportsImport ==
  [][HandleExport /\ page.groups # <<>> =>
       (Readable(file') /\ Storable(ReadLayout(file'.body))
          <=> ~Interrupted /\ \A g \in DOMAIN page.groups : ~Refused(page.groups[g]))]_vars

\* The page an unedited file turns back into.
AfterRoundTrip(body) == StartPageLayout(Replaced(ReadLayout(body)))

\* The round trip through a file, whatever it says of names, keeps every group in
\* its column and place and every tile in its place: no gap between columns
\* closes and nothing is lost or reordered.
RoundTrip ==
  [][HandleExport /\ ~Interrupted =>
       LET urls(group) == [n \in DOMAIN group.items |-> group.items[n].url]
           before == StartPageLayout(page).groups
           after == AfterRoundTrip(file'.body).groups
       IN  /\ Len(after) = Len(before)
           /\ \A k \in DOMAIN before :
                /\ after[k].column = before[k].column
                /\ after[k].name = before[k].name
                /\ urls(after[k]) = urls(before[k])]_vars

\* "So both tiles survive": tiles that share a title come back under titles of
\* their own, each the old title with at most suffixes added, even where a tile
\* is already called what the rename would call another.
TwinTitlesSurvive ==
  [][HandleExport =>
       LET before == StartPageLayout(page).groups
           after == AfterRoundTrip(file'.body).groups
       IN  \A k \in DOMAIN before : \A n \in DOMAIN before[k].items :
             LET mine == before[k].items[n].title  theirs == after[k].items
             IN  /\ n \in DOMAIN theirs
                 /\ theirs[n].title.word = mine.word
                 /\ IsPrefix(mine.suffixes, theirs[n].title.suffixes)
                 /\ \A m \in 1 .. n - 1 : theirs[m].title # theirs[n].title]_vars

\* "The header's counts are the only cheap way to see that happened"
\* (countMismatch): while a file has no more tile lines than its header states,
\* an import that says nothing has lost none of them, whether a hand edit
\* repeated a title or a whole column's key.  A line added under a title that
\* is already there keeps the count, and is lost unseen.
LossIsNoticed ==
  [][HandleImportCreate /\ notice' = "imported" /\ TilesWritten(file.body) <= file.stated.items =>
       \A c \in DOMAIN file.body : \A g \in DOMAIN file.body[c].groups :
         \A item \in ToSet(file.body[c].groups[g].items) :
           \E h \in DOMAIN page'.groups :
             /\ page'.groups[h].name = file.body[c].groups[g].name
             /\ item \in ToSet(page'.groups[h].items)]_vars
=============================================================================
