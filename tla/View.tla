-------------------------------- MODULE View --------------------------------
(***************************************************************************)
(* xdu-view: the list, the tree (Miller columns), the filter and sort      *)
(* prompts and the preview overlay, one action per key in each mode.       *)
(*                                                                         *)
(* `app` is the code's App.  A handler is the set of its outcomes, each    *)
(* [ok, app]: app as the handler leaves it, and whether it returned Ok or  *)
(* stopped at an Err, which the key loop turns into a status line.  Every  *)
(* statement a handler sends can fail, and the index under it can be       *)
(* crawled again between two of them.  Indices count from 1: active is     *)
(* active_column + 1 and a selection of 0 is None.  What a preview pane    *)
(* shows of its file is Pager's.                                           *)
(***************************************************************************)
EXTENDS ViewQuery

CONSTANTS
  Indexes,      \* the contents the index can have, each a set of rows
  Recrawls,     \* bound: how often they change while the program runs
  MaxPath,      \* bound: components of current_path, which failed loads let grow
  Faults,       \* the values `faults` can have
  Sorts,        \* bound: the sort modes the selector goes through
  Typed,        \* prompt -> the valid values typed at it; its domain is used
  Argument      \* values of --partition; None is no argument

Prompts == {"Pattern", "OlderThan", "NewerThan", "MinSize", "MaxSize"}
Modes   == {"Normal", "SortSelect", "ListPreview"} \cup Prompts

\* What a crawl makes of a directory: the path of a file below that of its partition,
\* and no path the directory of another.
IndexOK(index) ==
  /\ IsFiniteSet(index)
  /\ \A r \in index :
       /\ r.partition # None /\ r.path \in Seq(Names) \ {<<>>}
       /\ r.partition # Root => Len(r.path) > 1 /\ r.path[1] = r.partition
       /\ r.size \in Nat /\ r.atime \in Int
  /\ \A r, s \in index :
       r.partition = s.partition /\ Len(r.path) < Len(s.path) =>
         r.path # SubSeq(s.path, 1, Len(r.path))

ViewOK ==
  /\ NamesOK
  /\ {Recrawls, MaxPath} \subseteq Nat
  /\ Faults \subseteq BOOLEAN
  /\ Sorts \subseteq Range(SortModes)
  /\ DOMAIN Typed \subseteq Prompts
  /\ \A index \in Indexes : IndexOK(index)

VARIABLES
  rows,
  faults,    \* whether a statement of this session can fail though its source can be read
  recrawls,
  app
viewVars == <<rows, faults, recrawls, app>>

DotDot == [name |-> "..", path |-> <<"..">>, is_dir |-> TRUE, total_size |-> 0,
           file_count |-> 0, latest_atime |-> 0]

AppNew == [
  partition_root |-> <<>>, current_path |-> <<>>, current_partition |-> None,
  entries |-> <<>>, sel |-> 0, filters |-> NoFilters, sort_mode |-> "Name",
  input_mode |-> "Normal", pending_sort |-> "Name", view_mode |-> "List",
  columns |-> <<>>, active |-> 1, file_preview |-> None,
  preview_focused |-> FALSE, list_preview |-> None, end |-> "no"]

-----------------------------------------------------------------------------
(* Outcomes.                                                               *)

Ok(a)    == {[ok |-> TRUE, app |-> a]}
Err(a)   == {[ok |-> FALSE, app |-> a]}
Panic(a) == Err([a EXCEPT !.end = "panic"])

\* The rest of a handler after a call marked "?".
Then(outcomes, Rest(_)) ==
  UNION {IF o.ok THEN Rest(o.app) ELSE {o} : o \in outcomes}

\* A statement with these answers; none means that its source cannot be read.
Query(a, answers, Rest(_)) ==
  (IF faults \/ answers = {} THEN Err(a) ELSE {})
    \cup UNION {Rest(x) : x \in answers}

-----------------------------------------------------------------------------
(* Loading the list.                                                       *)

\* root_files takes any failure to prepare or send its statement for an index
\* without root files; only one met while rows arrive is an error.
QueryRootFiles(a, Rest(_)) ==
  (IF faults THEN Err(a) \cup Rest({}) ELSE {}) \cup Rest(RootFiles(rows, a.filters))

PartitionAnswers(a) == IF rows = {} THEN {} ELSE {Partitions(rows, a.filters)}

\* The `loading` flag, which only the title shows, is left out.
LoadPartitions(a) ==
  Query([a EXCEPT !.entries = <<>>], PartitionAnswers(a), LAMBDA parts :
    QueryRootFiles([a EXCEPT !.entries = Sorted(parts, a.sort_mode)], LAMBDA files :
      Ok([a EXCEPT !.entries = Sorted(parts \cup files, a.sort_mode)])))

DirectoryAnswers(a, p, path) ==
  IF Readable(rows, p) THEN {Sorted(Directory(rows, p, path, a.filters), a.sort_mode)}
  ELSE {}

ListDirectory(a) ==
  Query([a EXCEPT !.entries = <<DotDot>>],
        DirectoryAnswers(a, a.current_partition, a.current_path),
        LAMBDA es : Ok([a EXCEPT !.entries = <<DotDot>> \o es]))

LoadDirectory(a) ==
  IF a.partition_root # <<>> THEN ListDirectory(a)
  ELSE Query(a, PartitionRoots(rows, a.current_partition), LAMBDA r :
         ListDirectory([a EXCEPT !.partition_root = r, !.current_path = r]))

Select(a, i) == [a EXCEPT !.sel = IF a.entries = <<>> THEN @ ELSE i]

-----------------------------------------------------------------------------
(* Loading the tree.                                                       *)

FirstOf(entries) == IF entries = <<>> THEN 0 ELSE 1

ColumnOf(p, root, path, entries) ==
  [partition |-> p, partition_root |-> root, path |-> path, entries |-> entries,
   sel |-> FirstOf(entries)]

SelectedIn(c) == IF c.sel \in DOMAIN c.entries THEN c.entries[c.sel] ELSE None

MakePartitionColumn(a, Rest(_)) ==
  Query(a, PartitionAnswers(a), LAMBDA parts :
    QueryRootFiles(a, LAMBDA files :
      Rest(ColumnOf(None, <<>>, <<>>, Sorted(parts \cup files, a.sort_mode)))))

MakeDirectoryColumn(a, p, root, path) ==
  Query(a, DirectoryAnswers(a, p, path), LAMBDA es :
    Ok([a EXCEPT !.columns = Append(@, ColumnOf(p, root, path, es))]))

MakePartitionRootColumn(a, p) ==
  Query(a, PartitionRoots(rows, p), LAMBDA r : MakeDirectoryColumn(a, p, r, r))

Truncate(columns, n) == IF n < Len(columns) THEN SubSeq(columns, 1, n) ELSE columns

\* Truncate beyond the active column and expand, or preview, its selection.
TreeUpdatePreview(a0) ==
  LET a == [a0 EXCEPT !.columns = Truncate(@, a0.active), !.file_preview = None,
                      !.preview_focused = FALSE]
      c == a.columns[a.active]
      e == SelectedIn(c)
  IN  IF a.active \notin DOMAIN a.columns THEN Panic(a)
      ELSE IF e = None THEN Ok(a)
      ELSE IF ~e.is_dir THEN Ok([a EXCEPT !.file_preview = e])
      ELSE IF c.partition = None THEN MakePartitionRootColumn(a, e.name)
      ELSE MakeDirectoryColumn(a, c.partition, c.partition_root, Append(c.path, e.name))

\* Clear the tree and load its first column.
StartTree(a0) ==
  LET a == [a0 EXCEPT !.columns = <<>>, !.active = 1] IN
  MakePartitionColumn(a, LAMBDA c : Ok([a EXCEPT !.columns = <<c>>]))

InitTree(a) == Then(StartTree(a), TreeUpdatePreview)

IndexOf(entries, name) ==
  LET at == {i \in DOMAIN entries : entries[i].name = name} IN
  IF at = {} THEN 0 ELSE Min(at)

\* One step of the walk down to current_path; a component that is not there
\* ends the walk.
WalkStep(outcomes, name) ==
  UNION {IF ~o.ok \/ o.app.end = "walked" THEN {o}
         ELSE IF o.app.active \notin DOMAIN o.app.columns THEN Panic(o.app)
         ELSE LET a == o.app
                  i == IndexOf(a.columns[a.active].entries, name)
              IN  IF i = 0 THEN Ok([a EXCEPT !.end = "walked"])
                  ELSE Then(TreeUpdatePreview([a EXCEPT !.columns[a.active].sel = i]),
                         LAMBDA b : Ok([b EXCEPT !.active =
                           IF @ < Len(b.columns) THEN @ + 1 ELSE @])) : o \in outcomes}

\* The components of a path below the root of its partition.
Below(root, path) ==
  IF Len(path) > Len(root) THEN SubSeq(path, Len(root) + 1, Len(path)) ELSE <<>>

WalkDown(a, names) ==
  LET reached[k \in 0 .. Len(names)] ==
        IF k = 0 THEN Ok(a) ELSE WalkStep(reached[k - 1], names[k])
  IN  reached[Len(names)]

WalkTo(a, path) ==
  Then(WalkDown(a, Below(a.partition_root, path)), LAMBDA b : Ok([b EXCEPT !.end = "no"]))

InitTreeFromListPosition(a0) ==
  Then(StartTree(a0), LAMBDA a :
    IF a.current_partition = None THEN TreeUpdatePreview(a)
    ELSE LET i == IndexOf(a.columns[1].entries, a.current_partition)
             b == IF i = 0 THEN a ELSE [a EXCEPT !.columns[1].sel = i]
         IN  Then(TreeUpdatePreview(b), LAMBDA x :
               Then(WalkTo([x EXCEPT !.active = 2], x.current_path), TreeUpdatePreview)))

\* The list at the active column's directory, on the entry that was selected.
RestoreListFromTreePosition(a) ==
  LET c == IF a.columns = <<>> THEN ColumnOf(None, <<>>, <<>>, <<>>)
           ELSE a.columns[a.active]
      e == SelectedIn(c)
      b == [a EXCEPT !.current_partition = c.partition, !.partition_root = c.partition_root,
                     !.current_path = c.path]
  IN  IF a.columns # <<>> /\ a.active \notin DOMAIN a.columns THEN Panic(a)
      ELSE Then(IF b.current_partition = None THEN LoadPartitions(b) ELSE LoadDirectory(b),
             LAMBDA x :
               LET i == IF e = None THEN 0 ELSE IndexOf(x.entries, e.name)
               IN  Ok(Select(x, IF i = 0 THEN 1 ELSE i)))

-----------------------------------------------------------------------------
(* Handlers.                                                               *)

Clamp(a) ==
  [a EXCEPT !.sel = IF @ > Len(a.entries) /\ a.entries # <<>> THEN Len(a.entries) ELSE @]

\* A slip: the tree is left as it is.
Reload_ListOnly(a) ==
  IF a.view_mode = "Tree" THEN Ok(a)
  ELSE Then(IF a.current_partition = None THEN LoadPartitions(a) ELSE LoadDirectory(a),
         LAMBDA b : Ok(Clamp(b)))

Reload(a) ==
  IF a.view_mode = "Tree" THEN InitTree(a)
  ELSE Then(IF a.current_partition = None THEN LoadPartitions(a) ELSE LoadDirectory(a),
         LAMBDA b : Ok(Clamp(b)))

\* A slip: the root of the partition that is left stays.
GoUp_KeepRoot(a) ==
  IF a.current_partition = None THEN Ok(a)
  ELSE Then(IF a.current_path \in {a.partition_root, <<>>}
            THEN LoadPartitions([a EXCEPT !.current_partition = None, !.current_path = <<>>])
            ELSE LoadDirectory([a EXCEPT !.current_path = Front(@)]),
         LAMBDA b : Ok([b EXCEPT !.sel = 1]))

GoUp(a) ==
  IF a.current_partition = None THEN Ok(a)
  ELSE Then(IF a.current_path \in {a.partition_root, <<>>}
            THEN LoadPartitions([a EXCEPT !.current_partition = None,
                                 !.partition_root = <<>>, !.current_path = <<>>])
            ELSE LoadDirectory([a EXCEPT !.current_path = Front(@)]),
         LAMBDA b : Ok([b EXCEPT !.sel = 1]))

EnterSelected(a) ==
  IF a.sel = 0 THEN Ok(a)
  ELSE IF a.sel \notin DOMAIN a.entries THEN Panic(a)
  ELSE LET e == a.entries[a.sel] IN
       IF ~e.is_dir THEN Ok(a)
       ELSE IF e.name = ".." THEN GoUp(a)
       ELSE Then(LoadDirectory(
                   IF a.current_partition = None
                   THEN [a EXCEPT !.current_partition = e.name, !.partition_root = <<>>,
                                  !.current_path = <<>>]
                   ELSE [a EXCEPT !.current_path = Append(@, e.name)]),
              LAMBDA b : Ok([b EXCEPT !.sel = 1]))

\* The entry an up, down, first or last key moves to, in a list of n.
Moved(sel, n) ==
  {IF sel = 0 THEN 1 ELSE Min({sel + 1, n}), IF sel = 0 THEN 1 ELSE Max({sel - 1, 1}), 1, n}

TreeSelect(a, i) == TreeUpdatePreview([a EXCEPT !.columns[a.active].sel = i])

\* first and last renew the preview of an empty column too.
TreeMoves(a) ==
  IF a.columns = <<>> THEN Ok(a)
  ELSE LET c == a.columns[a.active] IN
       IF c.entries = <<>> THEN Ok(a) \cup TreeUpdatePreview(a)
       ELSE UNION {TreeSelect(a, i) : i \in Moved(c.sel, Len(c.entries))}

TreeRight(a) ==
  IF a.active < Len(a.columns) THEN TreeUpdatePreview([a EXCEPT !.active = @ + 1]) ELSE Ok(a)

\* A slip: one column too few is cut.
TreeLeft_Short(a) ==
  Ok(IF a.active > 1 THEN [a EXCEPT !.active = @ - 1] ELSE a)

TreeLeft(a) ==
  Ok(IF a.active > 1
     THEN [a EXCEPT !.active = @ - 1, !.columns = Truncate(@, a.active)] ELSE a)

\* A slip: the list shows what it showed before the tree.
ToggleViewMode_Stale(a) ==
  IF a.view_mode = "List" THEN InitTreeFromListPosition([a EXCEPT !.view_mode = "Tree"])
  ELSE Ok([a EXCEPT !.view_mode = "List"])

ToggleViewMode(a) ==
  IF a.view_mode = "List" THEN InitTreeFromListPosition([a EXCEPT !.view_mode = "Tree"])
  ELSE RestoreListFromTreePosition([a EXCEPT !.view_mode = "List"])

\* Confirm a prompt: an empty value clears its filter, a bad one changes
\* nothing, and both a clear and a valid value reload.
ConfirmInput(a) ==
  LET normal == [a EXCEPT !.input_mode = "Normal"] IN
  Ok(normal) \cup UNION {Reload([normal EXCEPT !.filters[a.input_mode] = v]) :
                           v \in Typed[a.input_mode] \cup {None}}

-----------------------------------------------------------------------------
(* Keys.                                                                   *)

\* A handler's error is shown and otherwise dropped.
Key(mode, outcomes) ==
  /\ app.end = "no"
  /\ app.input_mode = mode
  /\ ~app.preview_focused
  /\ app' \in {o.app : o \in outcomes}
  /\ UNCHANGED <<rows, faults, recrawls>>

ListKey(outcomes) == app.view_mode = "List" /\ Key("Normal", outcomes)
TreeKey(outcomes) == app.view_mode = "Tree" /\ Key("Normal", outcomes)

Quit         == Key("Normal", Ok([AppNew EXCEPT !.end = "quit"]))
Toggle       == Key("Normal", ToggleViewMode(app))
ClearFilters == Key("Normal", Reload([app EXCEPT !.filters = NoFilters]))

StartSortSelect ==
  Key("Normal", Ok([app EXCEPT !.pending_sort = app.sort_mode, !.input_mode = "SortSelect"]))
SortSelectNext ==
  NextMode(app.pending_sort) \in Sorts /\ Key("SortSelect", Ok([app EXCEPT !.pending_sort = NextMode(@)]))
SortSelectPrev ==
  PrevMode(app.pending_sort) \in Sorts /\ Key("SortSelect", Ok([app EXCEPT !.pending_sort = PrevMode(@)]))

ConfirmSort ==
  Key("SortSelect", Reload([app EXCEPT !.sort_mode = app.pending_sort, !.input_mode = "Normal"]))
CancelSort ==
  Key("SortSelect", Ok([app EXCEPT !.pending_sort = app.sort_mode, !.input_mode = "Normal"]))

StartInput   == \E m \in DOMAIN Typed : Key("Normal", Ok([app EXCEPT !.input_mode = m]))
CancelInput  == \E m \in DOMAIN Typed : Key(m, Ok([app EXCEPT !.input_mode = "Normal"]))
FinishInput  == \E m \in DOMAIN Typed : Key(m, ConfirmInput(app))

ListMove ==
  ListKey(UNION {Ok(Select(app, i)) :
                   i \in IF app.entries = <<>> THEN {1} ELSE Moved(app.sel, Len(app.entries))})
Enter == Len(app.current_path) < MaxPath /\ ListKey(EnterSelected(app))
Back  == ListKey(GoUp(app))

OpenListPreview ==
  LET e == SelectedIn(app) IN
  ListKey(IF e = None THEN Ok(app)
          ELSE IF e.is_dir THEN Ok(app)
          ELSE Ok([app EXCEPT !.list_preview = e, !.input_mode = "ListPreview"]))

\* A slip: the overlay's file stays loaded.
CloseListPreview_Keep == Key("ListPreview", Ok([app EXCEPT !.input_mode = "Normal"]))
CloseListPreview ==
  Key("ListPreview", Ok([app EXCEPT !.list_preview = None, !.input_mode = "Normal"]))

TreeMove == TreeKey(TreeMoves(app))
TreeIn   == TreeKey(IF app.file_preview # None THEN Ok([app EXCEPT !.preview_focused = TRUE])
                    ELSE TreeRight(app))
TreeOut  == TreeKey(TreeLeft(app))

\* The pager's own keys change nothing here but for those that leave it.
LeavePager ==
  /\ app.end = "no" /\ app.input_mode = "Normal" /\ app.preview_focused
  /\ app' = [app EXCEPT !.preview_focused = FALSE]
  /\ UNCHANGED <<rows, faults, recrawls>>

\* A crawl replaces the index.
Recrawl ==
  /\ recrawls < Recrawls
  /\ rows' \in Indexes \ {rows}
  /\ recrawls' = recrawls + 1
  /\ app.end = "no"
  /\ UNCHANGED <<faults, app>>

\* App::new; an error ends the program before it takes the terminal.
ViewInit ==
  /\ rows \in Indexes
  /\ faults \in Faults
  /\ recrawls = 0
  /\ \E p \in Argument :
       LET a == [AppNew EXCEPT !.current_partition = p] IN
       \E o \in IF p = None THEN LoadPartitions(a) ELSE LoadDirectory(a) :
         o.ok /\ app = Select(o.app, 1)

ViewNext ==
  \/ Quit \/ Toggle \/ ClearFilters
  \/ StartSortSelect \/ SortSelectNext \/ SortSelectPrev \/ ConfirmSort \/ CancelSort
  \/ StartInput \/ CancelInput \/ FinishInput
  \/ ListMove \/ Enter \/ Back \/ OpenListPreview \/ CloseListPreview
  \/ TreeMove \/ TreeIn \/ TreeOut \/ LeavePager
  \/ Recrawl

ViewSpec == ViewInit /\ [][ViewNext]_viewVars

-----------------------------------------------------------------------------
(* Properties.                                                             *)

\* What one entry shows is what the listing it opens shows in all.
Latest(listing) == Max({x.latest_atime : x \in listing})

SumsUp(e, listing) ==
  /\ e.total_size = SumFunction([x \in listing |-> x.total_size])
  /\ e.file_count = SumFunction([x \in listing |-> x.file_count])

AddsUp(e, listing) ==
  /\ SumsUp(e, listing)
  /\ e.latest_atime = Latest(listing)

\* But where the filters leave a row of the partition out, an age before 1970 is
\* shown as 1970 (the ELSE 0 of partitions_sql).
PartitionAddsUp(e, top, f) ==
  /\ SumsUp(e, top)
  /\ e.latest_atime = IF \E r \in RowsOf(rows, e.name) : ~Matches(f, r)
                      THEN Max({0, Latest(top)}) ELSE Latest(top)

Parts == {r.partition : r \in rows} \ {Root}
DirsOf(part) == UNION {{SubSeq(r.path, 1, n) : n \in 1 .. Len(r.path) - 1} :
                         r \in RowsOf(rows, part)}

\* Going down into a directory never changes the totals: under any filters, an
\* entry's size, count and age are those of the listing it opens.  Two grouped
\* queries with different prefixes have to agree for that (list_directory_sql).
\* But for a directory with a "_" in its path: the LIKE that lists it takes the "_"
\* for any character, and the listing holds the files of its look-alikes too.
\* And a partition is listed, with its totals, exactly when its top directory has
\* something to list under the same filters (partitions_sql's HAVING and CASE
\* against the directory statement's WHERE), an age before 1970 apart.
TotalsAddUp ==
  /\ \A part \in Parts : \A dir \in DirsOf(part) :
       \A e \in Directory(rows, part, dir, app.filters) :
         e.is_dir /\ Range(e.path) \cap {w[1] : w \in Wild} = {} =>
           AddsUp(e, Directory(rows, part, e.path, app.filters))
  /\ \A e \in Partitions(rows, app.filters) :
       PartitionAddsUp(e, Directory(rows, e.name, e.path, app.filters), app.filters)
  /\ \A part \in Parts \ {e.name : e \in Partitions(rows, app.filters)} :
       Directory(rows, part, <<part>>, app.filters) = {}

Columns  == DOMAIN app.columns
Running  == app.end = "no"

\* Miller columns: the active column exists, no column but its preview follows
\* it, and each column is the directory its left neighbour has selected, in that
\* neighbour's partition.  Every tree handler indexes the columns by
\* active_column and their entries by the selection; one that moves one without the
\* other panics or shows the contents of one directory beside another.
ColumnsAreAChain ==
  Running /\ app.view_mode = "Tree" /\ app.columns # <<>> =>
    /\ app.active \in Columns
    /\ Len(app.columns) <= app.active + 1
    /\ app.columns[1].partition = None
    /\ \A i \in Columns : LET c == app.columns[i] IN
         IF c.entries = <<>> THEN c.sel = 0 ELSE c.sel \in DOMAIN c.entries
    /\ \A i \in Columns \ {1} :
         LET c == app.columns[i]  up == app.columns[i - 1]  e == SelectedIn(up) IN
         /\ e # None
         /\ e.is_dir
         /\ IF up.partition = None
            THEN c.partition = e.name /\ c.path = c.partition_root
            ELSE /\ c.partition = up.partition
                 /\ c.partition_root = up.partition_root
                 /\ c.path = Append(up.path, e.name)

\* "Separate from `file_preview` so tree state cannot leak into the overlay (and
\* vice versa) across a view-mode toggle": the overlay is a list's and has a file
\* exactly while its mode lasts; the pager has the focus only over a tree with a
\* file, and never under a prompt that takes its keys.
ModesApart ==
  /\ (app.input_mode = "ListPreview") <=> (app.list_preview # None)
  /\ app.list_preview # None => app.view_mode = "List"
  /\ app.preview_focused =>
       app.view_mode = "Tree" /\ app.file_preview # None /\ app.input_mode = "Normal"

IsPrefixPath(s, t) == Len(s) <= Len(t) /\ SubSeq(t, 1, Len(s)) = s

\* Going up ends at the partition list only when the path comes back to the
\* root it was entered by: the path never leaves the root's subtree, and outside
\* a partition there is neither.
PathUnderRoot ==
  /\ IsPrefixPath(app.partition_root, app.current_path)
  /\ app.current_partition = None => app.current_path = <<>>
  /\ \A i \in Columns : IsPrefixPath(app.columns[i].partition_root, app.columns[i].path)

Fresh(p, path) ==
  IF p = None THEN Sorted(Partitions(rows, app.filters) \cup RootFiles(rows, app.filters),
                          app.sort_mode)
  ELSE Sorted(Directory(rows, p, path, app.filters), app.sort_mode)

Undisturbed == ~faults /\ recrawls = 0

\* While queries succeed over an index that stays, what is on the screen is what
\* the index holds under the filters and the order in force, in both views,
\* whatever was set in the one and then shown in the other.
ShownIsCurrent ==
  Undisturbed /\ Running =>
    IF app.view_mode = "List"
    THEN app.entries = (IF app.current_partition = None THEN <<>> ELSE <<DotDot>>)
                         \o Fresh(app.current_partition, app.current_path)
    ELSE \A i \in Columns : LET c == app.columns[i] IN c.entries = Fresh(c.partition, c.path)

Place(a) ==
  IF a.view_mode = "List" THEN <<a.current_partition, a.current_path>>
  ELSE LET c == a.columns[a.active] IN <<c.partition, c.path>>

\* "Toggle between list and tree view modes, preserving navigation position": while
\* no filter is set and no load fails.  A filter can hide the directory that is open,
\* and then the walk down the tree ends above it.
KeepsPlace ==
  Undisturbed /\ app'.view_mode # app.view_mode /\ app'.end = "no" /\ app.filters = NoFilters
    => Place(app') = Place(app)

\* "Restore terminal": the program is left through the end of main, never by a
\* panic in raw mode.
NeverPanics == app.end # "panic"
=============================================================================
