------------------------------ MODULE ViewProofs ------------------------------
(***************************************************************************)
(* The state of xdu-view after any keys, with any index that changes under *)
(* it and any of its queries failing: the path is one below its root, the  *)
(* columns of the tree are a chain, and no mode has the state of another.  *)
(* And while the index stays and no query fails, what is shown is what the *)
(* index holds.  At the end, what a frame shows of such a tree (Layout).   *)
(*                                                                         *)
(* A handler starts from an app that is well formed and has no focus in    *)
(* the pager (AppOK), and each lemma on a handler shows that every outcome *)
(* is such an app again, in the modes it started from (Handled).  A failed *)
(* query leaves a handler half way, so the lemmas on the loaders below say *)
(* it of what they leave, returned or not.  The lemmas named ...Fresh go   *)
(* through the same handlers again for what they show (FreshInv).          *)
(***************************************************************************)
EXTENDS QueryProofs, Layout

\* The fields of App, and of a column of its tree.
Fields ==
  {"partition_root", "current_path", "current_partition", "entries", "sel", "filters",
   "sort_mode", "input_mode", "pending_sort", "view_mode", "columns", "active",
   "file_preview", "preview_focused", "list_preview", "end"}
ColumnFields == {"partition", "partition_root", "path", "entries", "sel"}

Shape(a) == DOMAIN a = Fields
\* The list's place: a path below the root of its partition, and none outside one.
PathOK(a) ==
  /\ IsSeq(a.partition_root) /\ IsSeq(a.current_path)
  /\ IsPrefixPath(a.partition_root, a.current_path)
  /\ a.current_partition = None => a.current_path = <<>>

\* A column: its selection is on an entry, if it has one, and its path is below the
\* root of its partition.
SelectionOK(c) == IF c.entries = <<>> THEN c.sel = 0 ELSE c.sel \in DOMAIN c.entries

ColumnOK(c) ==
  /\ DOMAIN c = ColumnFields
  /\ IsSeq(c.entries) /\ SelectionOK(c)
  /\ IsSeq(c.partition_root) /\ IsSeq(c.path)
  /\ IsPrefixPath(c.partition_root, c.path)
  /\ c.partition = None => c.path = <<>>

\* Column c is the directory that column up has selected.
ChildOf(c, up) ==
  LET e == SelectedIn(up) IN
  /\ e # None
  /\ e.is_dir
  /\ IF up.partition = None
     THEN c.partition = e.name /\ c.path = c.partition_root
     ELSE /\ c.partition = up.partition
          /\ c.partition_root = up.partition_root
          /\ c.path = Append(up.path, e.name)

Chain(cols) ==
  /\ IsSeq(cols)
  /\ \A i \in DOMAIN cols : ColumnOK(cols[i])
  /\ cols # <<>> => cols[1].partition = None
  /\ \A i \in DOMAIN cols \ {1} : ChildOf(cols[i], cols[i - 1])

\* The last column is the active one or its preview.
ActiveOK(a) ==
  /\ a.active \in Nat \ {0}
  /\ a.end = "no" /\ a.columns # <<>> =>
       a.active \in DOMAIN a.columns /\ Len(a.columns) <= a.active + 1

\* What a handler leaves alone.
SameModes(b, a) ==
  b.input_mode = a.input_mode /\ b.view_mode = a.view_mode /\ b.list_preview = a.list_preview
SamePlace(b, a) ==
  /\ b.current_partition = a.current_partition
  /\ b.partition_root = a.partition_root
  /\ b.current_path = a.current_path
SameTree(b, a) == b.columns = a.columns /\ b.active = a.active

\* The app a key of the list or of the tree finds.
AppOK(a) == Shape(a) /\ PathOK(a) /\ Chain(a.columns) /\ ActiveOK(a) /\ ~a.preview_focused

-----------------------------------------------------------------------------
(* Columns.                                                                *)

LEMMA ChainCut ==
  ASSUME NEW cols, Chain(cols), NEW n \in Nat \ {0}
  PROVE  /\ Chain(Truncate(cols, n))
         /\ Len(Truncate(cols, n)) = IF n < Len(cols) THEN n ELSE Len(cols)
         /\ Truncate(cols, n) = <<>> => cols = <<>>
         /\ \A i \in 1 .. n : i <= Len(cols) => Truncate(cols, n)[i] = cols[i]
<1>1. IsSeq(cols) /\ Len(cols) \in Nat /\ DOMAIN cols = 1 .. Len(cols)
  BY SeqFacts DEF Chain
<1>2. CASE n < Len(cols)
  <2> DEFINE t == SubSeq(cols, 1, n)
  <2>1. Truncate(cols, n) = t
    BY <1>2 DEF Truncate
  <2>2. IsSeq(t) /\ Len(t) = n /\ \A i \in 1 .. n : t[i] = cols[i]
    BY <1>1, <1>2, SubSeqIsSeq
  <2> HIDE DEF t
  <2>3. DOMAIN t = 1 .. n /\ t # <<>>
    BY <2>2, SeqFacts
  <2>4. cols # <<>>
    BY <1>1, <1>2, SeqFacts
  <2>5. \A i \in DOMAIN t : ColumnOK(t[i])
    BY <1>1, <1>2, <2>2, <2>3 DEF Chain
  <2>6. t[1].partition = None
    BY <2>2, <2>4 DEF Chain
  <2>7. \A i \in DOMAIN t \ {1} : ChildOf(t[i], t[i - 1])
    <3> SUFFICES ASSUME NEW i \in DOMAIN t \ {1} PROVE ChildOf(t[i], t[i - 1])
      OBVIOUS
    <3>1. i \in DOMAIN cols \ {1} /\ i \in 1 .. n /\ i - 1 \in 1 .. n
      BY <1>1, <1>2, <2>3
    <3>2. t[i] = cols[i] /\ t[i - 1] = cols[i - 1]
      BY <2>2, <3>1
    <3>3. QED
      BY <3>1, <3>2 DEF Chain
  <2>8. Chain(t)
    BY <2>2, <2>5, <2>6, <2>7 DEF Chain
  <2>9. QED
    BY <1>2, <2>1, <2>2, <2>3, <2>8
<1>3. CASE ~(n < Len(cols))
  BY <1>3 DEF Truncate
<1>4. QED
  BY <1>2, <1>3

LEMMA ChainGrows ==
  ASSUME NEW cols, Chain(cols), cols # <<>>,
         NEW c, ColumnOK(c), ChildOf(c, cols[Len(cols)])
  PROVE  Chain(Append(cols, c)) /\ Len(Append(cols, c)) = Len(cols) + 1
<1> DEFINE t == Append(cols, c)
<1>1. /\ IsSeq(cols) /\ Len(cols) \in Nat /\ Len(cols) # 0
      /\ DOMAIN cols = 1 .. Len(cols)
  BY SeqFacts DEF Chain
<1>2. /\ IsSeq(t) /\ Len(t) = Len(cols) + 1
      /\ \A i \in 1 .. Len(cols) : t[i] = cols[i]
      /\ t[Len(cols) + 1] = c
  BY <1>1, AppendIsSeq
<1> HIDE DEF t
<1>3. DOMAIN t = 1 .. Len(cols) + 1
  BY <1>2, SeqFacts
<1>4. \A i \in DOMAIN t : ColumnOK(t[i])
  <2> SUFFICES ASSUME NEW i \in DOMAIN t PROVE ColumnOK(t[i])
    OBVIOUS
  <2>1. CASE i = Len(cols) + 1
    BY <1>2, <2>1
  <2>2. CASE i # Len(cols) + 1
    <3>1. i \in 1 .. Len(cols)
      BY <1>1, <1>3, <2>2
    <3>2. QED
      BY <1>1, <1>2, <3>1 DEF Chain
  <2>3. QED
    BY <2>1, <2>2
<1>5. t[1].partition = None
  <2>1. 1 \in 1 .. Len(cols)
    BY <1>1
  <2>2. QED
    BY <1>2, <2>1 DEF Chain
<1>6. \A i \in DOMAIN t \ {1} : ChildOf(t[i], t[i - 1])
  <2> SUFFICES ASSUME NEW i \in DOMAIN t \ {1} PROVE ChildOf(t[i], t[i - 1])
    OBVIOUS
  <2>1. CASE i = Len(cols) + 1
    <3>1. t[i] = c /\ i - 1 = Len(cols) /\ i - 1 \in 1 .. Len(cols)
      BY <1>1, <1>2, <2>1
    <3>2. QED
      BY <1>2, <3>1
  <2>2. CASE i # Len(cols) + 1
    <3>1. i \in DOMAIN cols \ {1} /\ i - 1 \in 1 .. Len(cols) /\ i \in 1 .. Len(cols)
      BY <1>1, <1>3, <2>2
    <3>2. t[i] = cols[i] /\ t[i - 1] = cols[i - 1]
      BY <1>2, <3>1
    <3>3. QED
      BY <3>1, <3>2 DEF Chain
  <2>3. QED
    BY <2>1, <2>2
<1>7. QED
  BY <1>2, <1>4, <1>5, <1>6 DEF Chain, t

LEMMA EmptyChain == Chain(<<>>)
<1>1. IsSeq(<<>>) /\ DOMAIN <<>> = {}
  BY EmptyIsSeq, SeqFacts
<1>2. QED
  BY <1>1 DEF Chain

LEMMA ChainStarts ==
  ASSUME NEW c, ColumnOK(c), c.partition = None
  PROVE  Chain(<<c>>) /\ Len(<<c>>) = 1
<1> DEFINE t == <<c>>
<1>1. t \in Seq({c}) /\ Len(t) = 1 /\ DOMAIN t = {1} /\ t[1] = c
  OBVIOUS
<1> HIDE DEF t
<1>2. Chain(t)
  BY <1>1 DEF Chain, IsSeq
<1>3. QED
  BY <1>1, <1>2 DEF t

\* The entries behind the selection are all that a column's own place is seen by.
LEMMA ColumnSelects ==
  ASSUME NEW c, ColumnOK(c), NEW i \in DOMAIN c.entries
  PROVE  /\ ColumnOK([c EXCEPT !.sel = i])
         /\ [c EXCEPT !.sel = i].partition = c.partition
         /\ \A up : ChildOf(c, up) => ChildOf([c EXCEPT !.sel = i], up)
<1> DEFINE b == [c EXCEPT !.sel = i]
<1>1. DOMAIN c = ColumnFields
  BY DEF ColumnOK
<1>2. /\ DOMAIN b = ColumnFields
      /\ b.sel = i /\ b.entries = c.entries /\ b.partition = c.partition
      /\ b.partition_root = c.partition_root /\ b.path = c.path
  BY <1>1 DEF ColumnFields
<1> HIDE DEF b
<1>3. c.entries # <<>>
  BY DEF ColumnOK
<1>4. ColumnOK(b)
  BY <1>2, <1>3 DEF ColumnOK, SelectionOK
<1>5. \A up : ChildOf(c, up) => ChildOf(b, up)
  BY <1>2 DEF ChildOf
<1>6. QED
  BY <1>2, <1>4, <1>5 DEF b

LEMMA ChainSelects ==
  ASSUME NEW cols, Chain(cols), NEW n \in DOMAIN cols, NEW i \in DOMAIN cols[n].entries
  PROVE  /\ Chain(Truncate([cols EXCEPT ![n].sel = i], n))
         /\ Len(Truncate([cols EXCEPT ![n].sel = i], n)) = n
<1> DEFINE c == [cols[n] EXCEPT !.sel = i]
           s == [cols EXCEPT ![n].sel = i]
           t == Truncate(s, n)
<1>1. IsSeq(cols) /\ Len(cols) \in Nat /\ DOMAIN cols = 1 .. Len(cols) /\ n \in 1 .. Len(cols)
  BY SeqFacts DEF Chain
<1>2. ColumnOK(cols[n])
  BY DEF Chain
<1>3. /\ ColumnOK(c) /\ c.partition = cols[n].partition
      /\ \A up : ChildOf(cols[n], up) => ChildOf(c, up)
  BY <1>2, ColumnSelects
<1>4. s = [cols EXCEPT ![n] = c]
  OBVIOUS
<1> HIDE DEF c
<1>5. IsSeq(s) /\ Len(s) = Len(cols)
  <2> DEFINE S == Range(cols) \cup {c}
  <2>1. cols \in [1 .. Len(cols) -> Range(cols)]
    BY <1>1, SeqFacts
  <2>2. s \in [1 .. Len(cols) -> S]
    BY <1>4, <2>1
  <2> HIDE DEF S
  <2>3. \A m \in Nat : \A S0, q : q \in [1 .. m -> S0] => q \in Seq(S0)
    OBVIOUS
  <2>4. s \in Seq(S)
    BY <1>1, <2>2, <2>3, Zenon
  <2>5. QED
    BY <1>1, <2>2, <2>4, LenProperties DEF IsSeq
<1>6. s[n] = c /\ \A j \in 1 .. Len(cols) : j # n => s[j] = cols[j]
  BY <1>1, <1>4
<1> HIDE DEF s
<1>7. /\ IsSeq(t) /\ Len(t) = n /\ \A j \in 1 .. n : t[j] = s[j]
  <2>1. CASE n < Len(s)
    BY <1>1, <1>5, <2>1, SubSeqIsSeq DEF Truncate
  <2>2. CASE n = Len(s)
    BY <1>1, <1>5, <2>2 DEF Truncate
  <2>3. QED
    BY <1>1, <1>5, <2>1, <2>2
<1> HIDE DEF t
<1>8. /\ DOMAIN t = 1 .. n /\ t[n] = c /\ \A j \in 1 .. n : j # n => t[j] = cols[j]
  BY <1>1, <1>5, <1>6, <1>7, SeqFacts
<1>9. \A j \in DOMAIN t : ColumnOK(t[j])
  BY <1>1, <1>3, <1>8 DEF Chain
<1>10. t[1].partition = None
  <2>1. cols # <<>> /\ 1 \in 1 .. n
    BY <1>1, SeqFacts
  <2>2. cols[1].partition = None
    BY <2>1 DEF Chain
  <2>3. QED
    BY <1>3, <1>8, <2>1, <2>2
<1>11. \A j \in DOMAIN t \ {1} : ChildOf(t[j], t[j - 1])
  <2> SUFFICES ASSUME NEW j \in DOMAIN t \ {1} PROVE ChildOf(t[j], t[j - 1])
    OBVIOUS
  <2>1. j \in DOMAIN cols \ {1} /\ j \in 1 .. n /\ j - 1 \in 1 .. n /\ j - 1 # n
    BY <1>1, <1>8
  <2>2. ChildOf(cols[j], cols[j - 1]) /\ t[j - 1] = cols[j - 1]
    BY <1>8, <2>1 DEF Chain
  <2>3. CASE j = n
    BY <1>3, <1>8, <2>2, <2>3
  <2>4. CASE j # n
    BY <1>8, <2>1, <2>2, <2>4
  <2>5. QED
    BY <2>3, <2>4
<1>12. Chain(t) /\ Len(t) = n
  BY <1>7, <1>9, <1>10, <1>11 DEF Chain
<1>13. QED
  BY <1>12 DEF t, s

-----------------------------------------------------------------------------
(* Loading the list.                                                       *)

\* What loading the list leaves alone.
ListLoaded(b, a) ==
  /\ Shape(b) /\ SameModes(b, a) /\ SameTree(b, a)
  /\ b.preview_focused = a.preview_focused /\ b.file_preview = a.file_preview
  /\ b.end = a.end /\ b.current_partition = a.current_partition
  /\ b.filters = a.filters /\ b.sort_mode = a.sort_mode

LEMMA EntriesChange ==
  ASSUME NEW a, Shape(a), NEW x
  PROVE  ListLoaded([a EXCEPT !.entries = x], a) /\ SamePlace([a EXCEPT !.entries = x], a)
  BY DEF Shape, Fields, ListLoaded, SameModes, SameTree, SamePlace

LEMMA RootEntered ==
  ASSUME NEW a, Shape(a), NEW r
  PROVE  /\ ListLoaded([a EXCEPT !.partition_root = r, !.current_path = r], a)
         /\ [a EXCEPT !.partition_root = r, !.current_path = r].partition_root = r
         /\ [a EXCEPT !.partition_root = r, !.current_path = r].current_path = r
  BY DEF Shape, Fields, ListLoaded, SameModes, SameTree

LEMMA LoadPartitionsKeeps ==
  ASSUME NEW a, Shape(a), NEW o \in LoadPartitions(a)
  PROVE  ListLoaded(o.app, a) /\ SamePlace(o.app, a)
<1>1. \E x : o.app = [a EXCEPT !.entries = x]
  <2>1. CASE o \in Err([a EXCEPT !.entries = <<>>])
    BY <2>1 DEF Err
  <2>2. CASE \E parts \in PartitionAnswers(a) :
               o \in QueryRootFiles([a EXCEPT !.entries = Sorted(parts, a.sort_mode)],
                       LAMBDA files :
                         Ok([a EXCEPT !.entries = Sorted(parts \cup files, a.sort_mode)]))
    <3>1. PICK parts \in PartitionAnswers(a) :
               o \in QueryRootFiles([a EXCEPT !.entries = Sorted(parts, a.sort_mode)],
                       LAMBDA files :
                         Ok([a EXCEPT !.entries = Sorted(parts \cup files, a.sort_mode)]))
      BY <2>2
    <3>2. \/ o \in Err([a EXCEPT !.entries = Sorted(parts, a.sort_mode)])
          \/ \E files : o \in Ok([a EXCEPT !.entries = Sorted(parts \cup files, a.sort_mode)])
      BY <3>1 DEF QueryRootFiles
    <3>3. CASE o \in Err([a EXCEPT !.entries = Sorted(parts, a.sort_mode)])
      BY <3>3 DEF Err
    <3>4. ASSUME NEW files, o \in Ok([a EXCEPT !.entries = Sorted(parts \cup files, a.sort_mode)])
          PROVE  \E x : o.app = [a EXCEPT !.entries = x]
      <4>1. o.app = [a EXCEPT !.entries = Sorted(parts \cup files, a.sort_mode)]
        BY <3>4 DEF Ok
      <4>2. QED
        BY <4>1
    <3>5. QED
      BY <3>2, <3>3, <3>4
  <2>3. QED
    BY <2>1, <2>2 DEF LoadPartitions, Query
<1>2. QED
  BY <1>1, EntriesChange

LEMMA ListDirectoryKeeps ==
  ASSUME NEW a, Shape(a), NEW o \in ListDirectory(a)
  PROVE  ListLoaded(o.app, a) /\ SamePlace(o.app, a)
<1>1. \E x : o.app = [a EXCEPT !.entries = x]
  <2>1. CASE o \in Err([a EXCEPT !.entries = <<DotDot>>])
    BY <2>1 DEF Err
  <2>2. ASSUME NEW es, o \in Ok([a EXCEPT !.entries = <<DotDot>> \o es])
        PROVE  \E x : o.app = [a EXCEPT !.entries = x]
    <3>1. o.app = [a EXCEPT !.entries = <<DotDot>> \o es]
      BY <2>2 DEF Ok
    <3>2. QED
      BY <3>1
  <2>3. QED
    BY <2>1, <2>2 DEF ListDirectory, Query
<1>2. QED
  BY <1>1, EntriesChange

LEMMA LoadDirectoryKeeps ==
  ASSUME RowsOK, NEW a, Shape(a), PathOK(a), NEW o \in LoadDirectory(a)
  PROVE  ListLoaded(o.app, a) /\ PathOK(o.app)
<1>1. CASE a.partition_root # <<>>
  <2>1. o \in ListDirectory(a)
    BY <1>1 DEF LoadDirectory
  <2>2. QED
    BY <2>1, ListDirectoryKeeps DEF PathOK, SamePlace
<1>2. CASE a.partition_root = <<>>
  <2>1. CASE o \in Err(a)
    <3>1. o.app = a
      BY <2>1 DEF Err
    <3>2. QED
      BY <3>1 DEF ListLoaded, SameModes, SameTree
  <2>2. ASSUME NEW r \in PartitionRoots(rows, a.current_partition),
               o \in ListDirectory([a EXCEPT !.partition_root = r, !.current_path = r])
        PROVE  ListLoaded(o.app, a) /\ PathOK(o.app)
    <3> DEFINE b == [a EXCEPT !.partition_root = r, !.current_path = r]
    <3>1. ListLoaded(b, a) /\ b.partition_root = r /\ b.current_path = r
      BY RootEntered
    <3>2. o \in ListDirectory(b)
      BY <2>2
    <3> HIDE DEF b
    <3>3. ListLoaded(o.app, b) /\ SamePlace(o.app, b)
      BY <3>1, <3>2, ListDirectoryKeeps DEF ListLoaded
    <3>4. a.current_partition # None /\ IsSeq(r) /\ IsPrefixPath(r, r)
      BY RootsArePaths, PrefixFacts
    <3>5. PathOK(o.app)
      BY <3>1, <3>3, <3>4 DEF PathOK, SamePlace, ListLoaded
    <3>6. QED
      BY <3>1, <3>3, <3>5 DEF ListLoaded, SameModes, SameTree
  <2>3. QED
    BY <1>2, <2>1, <2>2 DEF LoadDirectory, Query
<1>3. QED
  BY <1>1, <1>2

-----------------------------------------------------------------------------
(* Loading the tree.                                                       *)

\* What a tree handler leaves alone.
TreeLoaded(b, a) ==
  /\ Shape(b) /\ SameModes(b, a) /\ SamePlace(b, a)
  /\ b.filters = a.filters /\ b.sort_mode = a.sort_mode

TreeOK(a) == Chain(a.columns) /\ ActiveOK(a) /\ ~a.preview_focused

LEMMA ColumnIsOK ==
  ASSUME NEW p, NEW root, NEW path, NEW es, IsSeq(es), IsSeq(root), IsSeq(path),
         IsPrefixPath(root, path), p = None => path = <<>>
  PROVE  LET c == ColumnOf(p, root, path, es) IN
         /\ ColumnOK(c)
         /\ c.partition = p /\ c.partition_root = root /\ c.path = path /\ c.entries = es
<1> DEFINE c == ColumnOf(p, root, path, es)
<1>1. /\ DOMAIN c = ColumnFields
      /\ c.partition = p /\ c.partition_root = root /\ c.path = path /\ c.entries = es
      /\ c.sel = FirstOf(es)
  BY DEF ColumnOf, ColumnFields
<1> HIDE DEF c
<1>2. SelectionOK(c)
  <2>1. es # <<>> => 1 \in DOMAIN es
    BY SeqFacts
  <2>2. QED
    BY <1>1, <2>1 DEF SelectionOK, FirstOf
<1>3. QED
  BY <1>1, <1>2 DEF ColumnOK, c

LEMMA ColumnsChange ==
  ASSUME NEW a, Shape(a), NEW cols
  PROVE  LET b == [a EXCEPT !.columns = cols] IN
         /\ TreeLoaded(b, a) /\ b.columns = cols /\ b.active = a.active /\ b.end = a.end
         /\ b.preview_focused = a.preview_focused
  BY DEF Shape, Fields, TreeLoaded, SameModes, SamePlace

LEMMA TreeLoadedTrans ==
  ASSUME NEW a, NEW b, NEW c, TreeLoaded(b, a), TreeLoaded(c, b)
  PROVE  TreeLoaded(c, a)
  BY DEF TreeLoaded, SameModes, SamePlace

\* What every step of loading the tree reaches: its active column and, if it is
\* there, the one that shows its selection.
Reached(o, a) ==
  /\ TreeLoaded(o.app, a) /\ Chain(o.app.columns) /\ ~o.app.preview_focused
  /\ o.app.active = a.active
  /\ o.app.end = "panic"
       \/ /\ o.app.end = a.end
          /\ a.active \in DOMAIN o.app.columns
          /\ Len(o.app.columns) <= a.active + 1
  /\ o.ok => o.app.end = a.end

LEMMA DirectoryColumnMade ==
  ASSUME RowsOK, NEW a, Shape(a), ~a.preview_focused,
         Chain(a.columns), a.active \in DOMAIN a.columns, Len(a.columns) = a.active,
         NEW p, NEW root, NEW path, IsSeq(root), IsSeq(path), IsPrefixPath(root, path),
         p # None,
         LET up == a.columns[a.active]  e == SelectedIn(up) IN
           /\ e # None /\ e.is_dir
           /\ IF up.partition = None THEN p = e.name /\ path = root
              ELSE p = up.partition /\ root = up.partition_root /\ path = Append(up.path, e.name),
         NEW o \in MakeDirectoryColumn(a, p, root, path)
  PROVE  Reached(o, a)
<1>1. IsSeq(a.columns) /\ Len(a.columns) \in Nat /\ DOMAIN a.columns = 1 .. Len(a.columns)
  BY SeqFacts DEF Chain
<1>2. CASE o \in Err(a)
  <2>1. o.app = a /\ ~o.ok
    BY <1>2 DEF Err
  <2>2. QED
    BY <1>1, <2>1 DEF Reached, TreeLoaded, SameModes, SamePlace
<1>3. ASSUME NEW es \in DirectoryAnswers(a, p, path),
             o \in Ok([a EXCEPT !.columns = Append(@, ColumnOf(p, root, path, es))])
      PROVE  Reached(o, a)
  <2> DEFINE c == ColumnOf(p, root, path, es)
             cols == Append(a.columns, c)
             b == [a EXCEPT !.columns = cols]
  <2>1. o.app = b
    BY <1>3 DEF Ok, Shape, Fields
  <2>2. IsSeq(es)
    BY ListsAreSeqs DEF DirectoryAnswers
  <2>3. /\ ColumnOK(c)
        /\ c.partition = p /\ c.partition_root = root /\ c.path = path
    BY <2>2, ColumnIsOK
  <2> HIDE DEF c
  <2>4. ChildOf(c, a.columns[Len(a.columns)])
    BY <2>3 DEF ChildOf
  <2>5. a.columns # <<>>
    BY <1>1, SeqFacts
  <2>6. Chain(cols) /\ Len(cols) = Len(a.columns) + 1
    BY <2>3, <2>4, <2>5, ChainGrows
  <2> HIDE DEF cols
  <2>7. /\ TreeLoaded(b, a) /\ b.columns = cols /\ b.active = a.active /\ b.end = a.end
        /\ b.preview_focused = a.preview_focused
    BY ColumnsChange
  <2> HIDE DEF b
  <2>8. a.active \in DOMAIN cols
    BY <1>1, <2>6, SeqFacts DEF Chain
  <2>9. QED
    BY <1>1, <2>1, <2>6, <2>7, <2>8 DEF Reached
<1>4. QED
  BY <1>2, <1>3 DEF MakeDirectoryColumn, Query

LEMMA PreviewUpdates ==
  ASSUME RowsOK, NEW a0, Shape(a0), a0.active \in Nat \ {0},
         Chain(Truncate(a0.columns, a0.active)),
         Len(Truncate(a0.columns, a0.active)) <= a0.active,
         NEW o \in TreeUpdatePreview(a0)
  PROVE  Reached(o, a0)
<1> DEFINE a == [a0 EXCEPT !.columns = Truncate(@, a0.active), !.file_preview = None,
                      !.preview_focused = FALSE]
           cols == Truncate(a0.columns, a0.active)
           c == a.columns[a.active]
           e == SelectedIn(c)
<1>1. /\ TreeLoaded(a, a0) /\ a.columns = cols /\ a.active = a0.active /\ a.end = a0.end
      /\ ~a.preview_focused
  BY DEF Shape, Fields, TreeLoaded, SameModes, SamePlace
<1>2. o \in IF a.active \notin DOMAIN a.columns THEN Panic(a)
            ELSE IF e = None THEN Ok(a)
            ELSE IF ~e.is_dir THEN Ok([a EXCEPT !.file_preview = e])
            ELSE IF c.partition = None THEN MakePartitionRootColumn(a, e.name)
            ELSE MakeDirectoryColumn(a, c.partition, c.partition_root, Append(c.path, e.name))
  BY Zenon DEF TreeUpdatePreview
<1> HIDE DEF a, cols
<1>3. Chain(a.columns) /\ Len(a.columns) <= a.active /\ a.active \in Nat \ {0}
  BY <1>1 DEF cols
<1>4. IsSeq(a.columns) /\ Len(a.columns) \in Nat /\ DOMAIN a.columns = 1 .. Len(a.columns)
  BY <1>3, SeqFacts DEF Chain
<1>5. Shape(a)
  BY <1>1 DEF TreeLoaded
<1>6. CASE a.active \notin DOMAIN a.columns
  <2>1. o.app = [a EXCEPT !.end = "panic"] /\ ~o.ok
    BY <1>2, <1>6 DEF Panic, Err
  <2>2. /\ TreeLoaded(o.app, a) /\ o.app.columns = a.columns /\ o.app.active = a.active
        /\ o.app.end = "panic" /\ o.app.preview_focused = a.preview_focused
    BY <1>5, <2>1 DEF Shape, Fields, TreeLoaded, SameModes, SamePlace
  <2>3. QED
    BY <1>1, <1>3, <2>1, <2>2, TreeLoadedTrans DEF Reached
<1>7. ASSUME a.active \in DOMAIN a.columns, Reached(o, a) PROVE Reached(o, a0)
  BY <1>1, <1>7, TreeLoadedTrans DEF Reached
<1>8. CASE a.active \in DOMAIN a.columns /\ e = None
  <2>1. o.app = a
    BY <1>2, <1>8 DEF Ok
  <2>2. Reached(o, a)
    BY <1>1, <1>3, <1>4, <1>5, <1>8, <2>1 DEF Reached, TreeLoaded, SameModes, SamePlace
  <2>3. QED
    BY <1>7, <1>8, <2>2
<1>9. CASE a.active \in DOMAIN a.columns /\ e # None /\ ~e.is_dir
  <2>1. o.app = [a EXCEPT !.file_preview = e]
    BY <1>2, <1>9 DEF Ok
  <2>2. /\ TreeLoaded(o.app, a) /\ o.app.columns = a.columns /\ o.app.active = a.active
        /\ o.app.end = a.end /\ o.app.preview_focused = a.preview_focused
    BY <1>5, <2>1 DEF Shape, Fields, TreeLoaded, SameModes, SamePlace
  <2>3. Reached(o, a)
    BY <1>1, <1>3, <1>4, <1>9, <2>2 DEF Reached
  <2>4. QED
    BY <1>7, <1>9, <2>3
<1>10. CASE a.active \in DOMAIN a.columns /\ e # None /\ e.is_dir
  <2>1. Len(a.columns) = a.active /\ ColumnOK(c)
    BY <1>3, <1>4, <1>10 DEF Chain
  <2>2. CASE c.partition = None
    <3> DEFINE p == e.name
    <3>1. /\ e # None /\ e.is_dir /\ p = e.name
          /\ o \in MakePartitionRootColumn(a, p)
      BY <1>2, <1>10, <2>2
    <3> HIDE DEF p
    <3>2. ASSUME o \in Err(a) PROVE Reached(o, a)
      <4>1. o.app = a /\ ~o.ok
        BY <3>2 DEF Err
      <4>2. QED
        BY <1>1, <1>3, <1>4, <1>5, <1>10, <4>1 DEF Reached, TreeLoaded, SameModes, SamePlace
    <3>3. ASSUME NEW r \in PartitionRoots(rows, p), o \in MakeDirectoryColumn(a, p, r, r)
          PROVE  Reached(o, a)
      <4>1. p # None /\ IsSeq(r) /\ IsPrefixPath(r, r)
        BY RootsArePaths, PrefixFacts
      <4>2. LET up == a.columns[a.active]  d == SelectedIn(up) IN
              /\ d # None /\ d.is_dir
              /\ IF up.partition = None THEN p = d.name /\ r = r
                 ELSE p = up.partition /\ r = up.partition_root /\ r = Append(up.path, d.name)
        BY <2>2, <3>1
      <4>3. QED
        BY <1>1, <1>3, <1>5, <1>10, <2>1, <3>3, <4>1, <4>2, DirectoryColumnMade
    <3>4. Reached(o, a)
      <4>1. o \in Err(a) \/ \E r \in PartitionRoots(rows, p) : o \in MakeDirectoryColumn(a, p, r, r)
        BY <3>1 DEF MakePartitionRootColumn, Query
      <4>2. QED
        BY <3>2, <3>3, <4>1
    <3>5. QED
      BY <1>7, <1>10, <3>4
  <2>3. CASE c.partition # None
    <3>1. o \in MakeDirectoryColumn(a, c.partition, c.partition_root, Append(c.path, e.name))
      BY <1>2, <1>10, <2>3
    <3>2. /\ IsSeq(c.partition_root) /\ IsSeq(Append(c.path, e.name))
          /\ IsPrefixPath(c.partition_root, Append(c.path, e.name))
      BY <2>1, PrefixFacts, AppendIsSeq DEF ColumnOK
    <3>3. Reached(o, a)
      BY <1>1, <1>3, <1>5, <1>10, <2>1, <2>3, <3>1, <3>2, DirectoryColumnMade
    <3>4. QED
      BY <1>7, <1>10, <3>3
  <2>4. QED
    BY <2>2, <2>3
<1>11. QED
  BY <1>6, <1>8, <1>9, <1>10

LEMMA StartTreeMakes ==
  ASSUME RowsOK, NEW a0, Shape(a0), NEW o \in StartTree(a0)
  PROVE  /\ TreeLoaded(o.app, a0)
         /\ o.app.active = 1 /\ o.app.end = a0.end
         /\ o.app.preview_focused = a0.preview_focused
         /\ IF o.ok THEN \E c : o.app.columns = <<c>> /\ ColumnOK(c) /\ c.partition = None
            ELSE o.app.columns = <<>>
<1> DEFINE a == [a0 EXCEPT !.columns = <<>>, !.active = 1]
           Column(E) == ColumnOf(None, <<>>, <<>>, Sorted(E, a.sort_mode))
           With(c) == Ok([a EXCEPT !.columns = <<c>>])
<1>1. /\ TreeLoaded(a, a0) /\ a.columns = <<>> /\ a.active = 1 /\ a.end = a0.end
      /\ a.preview_focused = a0.preview_focused /\ Shape(a)
  BY DEF Shape, Fields, TreeLoaded, SameModes, SamePlace
<1>2. o \in MakePartitionColumn(a, With)
  BY Zenon DEF StartTree
<1> HIDE DEF a
<1>3. CASE o \in Err(a)
  BY <1>1, <1>3 DEF Err
<1>4. ASSUME NEW E, IsSeq(Sorted(E, a.sort_mode)), o \in With(Column(E))
      PROVE  /\ TreeLoaded(o.app, a0)
             /\ o.app.active = 1 /\ o.app.end = a0.end /\ o.ok
             /\ o.app.preview_focused = a0.preview_focused
             /\ \E c : o.app.columns = <<c>> /\ ColumnOK(c) /\ c.partition = None
  <2> DEFINE c == Column(E)
             cols == <<c>>
             b == [a EXCEPT !.columns = cols]
  <2>1. o.app = b /\ o.ok
    BY <1>4 DEF Ok
  <2>2. ColumnOK(c) /\ c.partition = None
    <3>1. IsSeq(<<>>) /\ IsPrefixPath(<<>>, <<>>)
      BY EmptyIsSeq, PrefixFacts
    <3>2. QED
      BY <1>4, <3>1, ColumnIsOK
  <2> HIDE DEF c, cols
  <2>3. /\ TreeLoaded(b, a) /\ b.columns = cols /\ b.active = a.active /\ b.end = a.end
        /\ b.preview_focused = a.preview_focused
    BY <1>1, ColumnsChange
  <2>4. \E d : o.app.columns = <<d>> /\ ColumnOK(d) /\ d.partition = None
    BY <2>1, <2>2, <2>3 DEF cols
  <2>5. TreeLoaded(o.app, a0)
    BY <1>1, <2>1, <2>3, TreeLoadedTrans
  <2>6. QED
    BY <1>1, <2>1, <2>3, <2>4, <2>5
<1>5. o \in Err(a) \/ \E parts \in PartitionAnswers(a) :
        \E files \in {{}, RootFiles(rows, a.filters)} : o \in With(Column(parts \cup files))
  <2> HIDE DEF With
  <2>1. o \in Err(a) \/ \E parts \in PartitionAnswers(a) :
          o \in QueryRootFiles(a, LAMBDA files : With(Column(parts \cup files)))
    BY <1>2 DEF MakePartitionColumn, Query
  <2>2. QED
    BY <2>1 DEF QueryRootFiles
<1>6. \A parts \in PartitionAnswers(a) : \A files \in {{}, RootFiles(rows, a.filters)} :
        IsSeq(Sorted(parts \cup files, a.sort_mode))
  BY ListsAreSeqs DEF PartitionAnswers
<1>7. QED
  BY <1>1, <1>3, <1>4, <1>5, <1>6

LEMMA InitTreeKeeps ==
  ASSUME RowsOK, NEW a, Shape(a), ~a.preview_focused, NEW o \in InitTree(a)
  PROVE  TreeLoaded(o.app, a) /\ TreeOK(o.app)
<1>1. PICK s \in StartTree(a) : (s.ok /\ o \in TreeUpdatePreview(s.app)) \/ (~s.ok /\ o = s)
  BY DEF InitTree, Then
<1>2. /\ TreeLoaded(s.app, a) /\ s.app.active = 1 /\ ~s.app.preview_focused
      /\ IF s.ok THEN \E c : s.app.columns = <<c>> /\ ColumnOK(c) /\ c.partition = None
         ELSE s.app.columns = <<>>
  BY StartTreeMakes
<1>3. CASE s.ok
  <2>1. Chain(s.app.columns) /\ Len(s.app.columns) = 1
    BY <1>2, <1>3, ChainStarts
  <2>2. /\ Chain(Truncate(s.app.columns, s.app.active))
        /\ Len(Truncate(s.app.columns, s.app.active)) <= s.app.active
    <3>1. Truncate(s.app.columns, 1) = s.app.columns
      BY <2>1 DEF Truncate
    <3>2. s.app.active = 1
      BY <1>2
    <3>3. Truncate(s.app.columns, s.app.active) = s.app.columns
      BY <3>1, <3>2
    <3>4. Len(s.app.columns) <= s.app.active
      BY <2>1, <3>2
    <3>5. QED
      BY <2>1, <3>3, <3>4
  <2>3. Reached(o, s.app)
    BY <1>1, <1>2, <1>3, <2>2, PreviewUpdates DEF TreeLoaded
  <2>4. QED
    BY <1>2, <2>3, TreeLoadedTrans DEF Reached, TreeOK, ActiveOK
<1>4. CASE ~s.ok
  <2>1. Chain(<<>>)
    <3>1. DOMAIN <<>> = {}
      OBVIOUS
    <3>2. QED
      BY <3>1, EmptyIsSeq DEF Chain
  <2>2. QED
    BY <1>1, <1>2, <1>4, <2>1 DEF TreeOK, ActiveOK
<1>5. QED
  BY <1>3, <1>4

\* The walk: it may start beside the columns, and stops in a state of the tree.
WalkOK(o, a) ==
  /\ TreeLoaded(o.app, a) /\ Chain(o.app.columns) /\ ~o.app.preview_focused
  /\ o.app.active \in Nat \ {0}
  /\ ~o.ok => ActiveOK(o.app)
  /\ o.ok => o.app.end \in {"no", "walked"}

LEMMA IndexIsIn ==
  ASSUME NEW es, IsSeq(es), NEW n, IndexOf(es, n) # 0
  PROVE  IndexOf(es, n) \in DOMAIN es
<1> DEFINE at == {i \in DOMAIN es : es[i].name = n}
<1>1. at \subseteq Nat /\ at \subseteq DOMAIN es
  BY SeqFacts
<1>2. IndexOf(es, n) = IF at = {} THEN 0 ELSE Min(at)
  BY DEF IndexOf
<1> HIDE DEF at
<1>3. QED
  BY <1>1, <1>2, MinIsIn

LEMMA SelectionMoves ==
  ASSUME NEW a, Shape(a), Chain(a.columns), NEW n \in DOMAIN a.columns,
         NEW i \in DOMAIN a.columns[n].entries
  PROVE  LET b == [a EXCEPT !.columns[n].sel = i] IN
         /\ TreeLoaded(b, a) /\ b.active = a.active /\ b.end = a.end
         /\ b.preview_focused = a.preview_focused
         /\ Chain(Truncate(b.columns, n)) /\ Len(Truncate(b.columns, n)) = n
<1> DEFINE cols == [a.columns EXCEPT ![n].sel = i]
           b == [a EXCEPT !.columns = cols]
<1>1. [a EXCEPT !.columns[n].sel = i] = b
  OBVIOUS
<1>2. Chain(Truncate(cols, n)) /\ Len(Truncate(cols, n)) = n
  BY ChainSelects
<1> HIDE DEF cols
<1>3. /\ TreeLoaded(b, a) /\ b.columns = cols /\ b.active = a.active /\ b.end = a.end
      /\ b.preview_focused = a.preview_focused
  BY ColumnsChange
<1>4. QED
  BY <1>1, <1>2, <1>3

LEMMA WalkStepKeeps ==
  ASSUME RowsOK, NEW a, NEW outcomes, \A s \in outcomes : WalkOK(s, a),
         NEW name, NEW o \in WalkStep(outcomes, name)
  PROVE  WalkOK(o, a)
<1> DEFINE Step(s) ==
             IF ~s.ok \/ s.app.end = "walked" THEN {s}
             ELSE IF s.app.active \notin DOMAIN s.app.columns THEN Panic(s.app)
             ELSE LET b == s.app
                      i == IndexOf(b.columns[b.active].entries, name)
                  IN  IF i = 0 THEN Ok([b EXCEPT !.end = "walked"])
                      ELSE Then(TreeUpdatePreview([b EXCEPT !.columns[b.active].sel = i]),
                             LAMBDA x : Ok([x EXCEPT !.active =
                               IF @ < Len(x.columns) THEN @ + 1 ELSE @]))
<1>1. PICK s \in outcomes : o \in Step(s)
  BY DEF WalkStep
<1>2. WalkOK(s, a)
  OBVIOUS
<1> DEFINE b == s.app
           i == IndexOf(b.columns[b.active].entries, name)
           p == [b EXCEPT !.columns[b.active].sel = i]
<1>3. CASE ~s.ok \/ s.app.end = "walked"
  BY <1>1, <1>2, <1>3
<1>4. CASE s.ok /\ b.end = "no" /\ b.active \notin DOMAIN b.columns
  <2>1. o.app = [b EXCEPT !.end = "panic"] /\ ~o.ok
    BY <1>1, <1>4 DEF Panic, Err
  <2>2. /\ TreeLoaded(o.app, a) /\ o.app.columns = b.columns /\ o.app.active = b.active
        /\ o.app.end = "panic" /\ o.app.preview_focused = b.preview_focused
    BY <1>2, <2>1 DEF WalkOK, Shape, Fields, TreeLoaded, SameModes, SamePlace
  <2>3. QED
    BY <1>2, <2>1, <2>2 DEF WalkOK, ActiveOK
<1>5. CASE s.ok /\ b.end = "no" /\ b.active \in DOMAIN b.columns /\ i = 0
  <2>1. o \in Ok([b EXCEPT !.end = "walked"])
    BY <1>1, <1>5
  <2>2. /\ TreeLoaded(o.app, a) /\ o.app.columns = b.columns /\ o.app.active = b.active
        /\ o.app.end = "walked" /\ o.app.preview_focused = b.preview_focused
        /\ o.ok
    BY <1>2, <2>1 DEF Ok, WalkOK, Shape, Fields, TreeLoaded, SameModes, SamePlace
  <2>3. QED
    BY <1>2, <2>1, <2>2 DEF WalkOK
<1>6. CASE s.ok /\ b.end = "no" /\ b.active \in DOMAIN b.columns /\ i # 0
  <2>1. o \in Then(TreeUpdatePreview(p),
                LAMBDA x : Ok([x EXCEPT !.active = IF @ < Len(x.columns) THEN @ + 1 ELSE @]))
    BY <1>1, <1>6
  <2>2. Shape(b) /\ Chain(b.columns) /\ b.active \in Nat \ {0} /\ ~b.preview_focused
    BY <1>2 DEF WalkOK, TreeLoaded
  <2>3. i \in DOMAIN b.columns[b.active].entries
    BY <1>6, <2>2, IndexIsIn DEF Chain, ColumnOK
  <2> HIDE DEF i
  <2>4. /\ TreeLoaded(p, b) /\ p.active = b.active /\ p.end = b.end /\ ~p.preview_focused
        /\ Chain(Truncate(p.columns, p.active)) /\ Len(Truncate(p.columns, p.active)) = p.active
    <3> DEFINE n == b.active
    <3>1. n \in DOMAIN b.columns /\ i \in DOMAIN b.columns[n].entries
      BY <1>6, <2>3
    <3>2. p = [b EXCEPT !.columns[n].sel = i]
      OBVIOUS
    <3> HIDE DEF n, p
    <3>3. /\ TreeLoaded(p, b) /\ p.active = b.active /\ p.end = b.end
          /\ p.preview_focused = b.preview_focused
          /\ Chain(Truncate(p.columns, n)) /\ Len(Truncate(p.columns, n)) = n
      BY <2>2, <3>1, <3>2, SelectionMoves
    <3>4. QED
      BY <2>2, <3>3 DEF n
  <2> HIDE DEF p
  <2>5. PICK t \in TreeUpdatePreview(p) :
          (t.ok /\ o \in Ok([t.app EXCEPT !.active =
                               IF @ < Len(t.app.columns) THEN @ + 1 ELSE @]))
          \/ (~t.ok /\ o = t)
    BY <2>1 DEF Then
  <2>6. Reached(t, p)
    BY <2>2, <2>4, PreviewUpdates DEF TreeLoaded
  <2>7. TreeLoaded(t.app, a)
    BY <1>2, <2>4, <2>6, TreeLoadedTrans DEF Reached, WalkOK
  <2>8. CASE ~t.ok
    BY <2>2, <2>4, <2>5, <2>6, <2>7, <2>8 DEF Reached, WalkOK, ActiveOK
  <2>9. CASE t.ok
    <3> DEFINE n == IF t.app.active < Len(t.app.columns) THEN t.app.active + 1 ELSE t.app.active
    <3>1. o.app = [t.app EXCEPT !.active = n] /\ o.ok
      BY <2>5, <2>7, <2>9 DEF Ok, TreeLoaded, Shape, Fields
    <3>2. n \in Nat \ {0}
      BY <2>2, <2>4, <2>6 DEF Reached
    <3> HIDE DEF n
    <3>3. /\ TreeLoaded(o.app, a) /\ o.app.columns = t.app.columns /\ o.app.active = n
          /\ o.app.end = t.app.end /\ o.app.preview_focused = t.app.preview_focused
      BY <2>7, <3>1 DEF Shape, Fields, TreeLoaded, SameModes, SamePlace
    <3>4. o.app.end = "no"
      BY <1>6, <2>4, <2>6, <2>9, <3>3 DEF Reached
    <3>5. QED
      BY <2>6, <3>1, <3>2, <3>3, <3>4 DEF Reached, WalkOK
  <2>10. QED
    BY <2>8, <2>9
<1>7. QED
  BY <1>2, <1>3, <1>4, <1>5, <1>6 DEF WalkOK

\* The walk's recursion has a solution, however long the path.
LEMMA WalkIsDefined ==
  ASSUME NEW a, NEW names, Len(names) \in Nat
  PROVE  \E w : w = [k \in 0 .. Len(names) |->
                       IF k = 0 THEN Ok(a) ELSE WalkStep(w[k - 1], names[k])]
<1> DEFINE Fits(w, m) == w = [k \in 0 .. m |->
                                IF k = 0 THEN Ok(a) ELSE WalkStep(w[k - 1], names[k])]
           Bad == {m \in Nat : ~\E w : Fits(w, m)}
<1>1. Bad = {}
  <2> SUFFICES ASSUME Bad # {} PROVE FALSE
    OBVIOUS
  <2>1. PICK m \in Bad : \A x \in Bad : m <= x
    BY NatMin
  <2>2. CASE m = 0
    <3> DEFINE w == [k \in 0 .. 0 |-> Ok(a)]
    <3>1. Fits(w, 0)
      OBVIOUS
    <3>2. QED
      BY <2>1, <2>2, <3>1
  <2>3. CASE m # 0
    <3>1. m \in Nat /\ m - 1 \in Nat /\ m - 1 \notin Bad
      BY <2>1, <2>3
    <3>2. PICK v : Fits(v, m - 1)
      BY <3>1
    <3> DEFINE w == [k \in 0 .. m |->
                       IF k < m THEN v[k] ELSE WalkStep(v[m - 1], names[m])]
    <3>3. \A k \in 0 .. m - 1 : v[k] = IF k = 0 THEN Ok(a) ELSE WalkStep(v[k - 1], names[k])
      BY <3>2
    <3>4. \A k \in 0 .. m : w[k] = IF k = 0 THEN Ok(a) ELSE WalkStep(w[k - 1], names[k])
      <4> SUFFICES ASSUME NEW k \in 0 .. m
                   PROVE  w[k] = IF k = 0 THEN Ok(a) ELSE WalkStep(w[k - 1], names[k])
        OBVIOUS
      <4>1. CASE k = m
        BY <2>3, <3>1, <4>1
      <4>2. CASE k < m
        <5>1. w[k] = v[k] /\ (k # 0 => w[k - 1] = v[k - 1])
          BY <3>1, <4>2
        <5>2. QED
          BY <3>1, <3>3, <4>2, <5>1
      <4>3. QED
        BY <3>1, <4>1, <4>2
    <3>5. Fits(w, m)
      <4>1. w = [k \in 0 .. m |-> w[k]]
        OBVIOUS
      <4> HIDE DEF w
      <4>2. QED
        BY <3>4, <4>1
    <3>6. QED
      BY <2>1, <3>5
  <2>4. QED
    BY <2>2, <2>3
<1>2. QED
  BY <1>1

LEMMA WalkUnfolds ==
  ASSUME NEW a, NEW names, Len(names) \in Nat
  PROVE  \E w : /\ WalkDown(a, names) = w[Len(names)]
                /\ \A k \in 0 .. Len(names) :
                     w[k] = IF k = 0 THEN Ok(a) ELSE WalkStep(w[k - 1], names[k])
<1> DEFINE Reaches(w) == w = [k \in 0 .. Len(names) |->
                                IF k = 0 THEN Ok(a) ELSE WalkStep(w[k - 1], names[k])]
           reached == CHOOSE w : Reaches(w)
<1>1. Reaches(reached)
  <2>1. \E w : Reaches(w)
    <3>1. \E w : w = [k \in 0 .. Len(names) |->
                        IF k = 0 THEN Ok(a) ELSE WalkStep(w[k - 1], names[k])]
      BY WalkIsDefined
    <3>2. QED
      BY <3>1, Zenon
  <2>2. QED
    BY <2>1, Zenon
<1>2. WalkDown(a, names) = reached[Len(names)]
  BY Zenon DEF WalkDown
<1> HIDE DEF reached
<1>3. \A k \in 0 .. Len(names) :
        reached[k] = IF k = 0 THEN Ok(a) ELSE WalkStep(reached[k - 1], names[k])
  BY <1>1
<1>4. QED
  BY <1>2, <1>3

LEMMA WalkKeeps ==
  ASSUME RowsOK, NEW a, NEW names, Len(names) \in Nat, \A s \in Ok(a) : WalkOK(s, a),
         NEW o \in WalkDown(a, names)
  PROVE  WalkOK(o, a)
<1>1. PICK reached :
        /\ WalkDown(a, names) = reached[Len(names)]
        /\ \A k \in 0 .. Len(names) :
             reached[k] = IF k = 0 THEN Ok(a) ELSE WalkStep(reached[k - 1], names[k])
  BY WalkUnfolds
<1> DEFINE Bad == {k \in 0 .. Len(names) : ~\A s \in reached[k] : WalkOK(s, a)}
<1>2. Bad = {}
  <2> SUFFICES ASSUME Bad # {} PROVE FALSE
    OBVIOUS
  <2>1. PICK k \in Bad : \A x \in Bad : k <= x
    <3>1. Bad \in SUBSET Nat
      OBVIOUS
    <3>2. QED
      BY <3>1, NatMin
  <2>2. k \in 0 .. Len(names) /\ ~\A s \in reached[k] : WalkOK(s, a)
    OBVIOUS
  <2>3. CASE k = 0
    BY <1>1, <2>2, <2>3
  <2>4. CASE k # 0
    <3>1. k - 1 \in 0 .. Len(names) /\ k - 1 \notin Bad
      BY <2>1, <2>2, <2>4
    <3>2. \A s \in reached[k - 1] : WalkOK(s, a)
      BY <3>1
    <3>3. reached[k] = WalkStep(reached[k - 1], names[k])
      BY <1>1, <2>2, <2>4
    <3>4. \A s \in reached[k] : WalkOK(s, a)
      BY <3>2, <3>3, WalkStepKeeps
    <3>5. QED
      BY <2>2, <3>4
  <2>5. QED
    BY <2>3, <2>4
<1>3. QED
  BY <1>1, <1>2

LEMMA EndChanges ==
  ASSUME NEW a, Shape(a), NEW e
  PROVE  LET b == [a EXCEPT !.end = e] IN
         /\ TreeLoaded(b, a) /\ b.columns = a.columns /\ b.active = a.active /\ b.end = e
         /\ b.preview_focused = a.preview_focused
  BY DEF Shape, Fields, TreeLoaded, SameModes, SamePlace

LEMMA ActiveChanges ==
  ASSUME NEW a, Shape(a), NEW n
  PROVE  LET b == [a EXCEPT !.active = n] IN
         /\ TreeLoaded(b, a) /\ b.columns = a.columns /\ b.active = n /\ b.end = a.end
         /\ b.preview_focused = a.preview_focused
  BY DEF Shape, Fields, TreeLoaded, SameModes, SamePlace

LEMMA BelowIsSeq ==
  ASSUME NEW root, NEW path, IsSeq(root), IsSeq(path)
  PROVE  Len(Below(root, path)) \in Nat
<1>1. Len(root) \in Nat /\ Len(path) \in Nat /\ path \in Seq(Range(path))
  BY SeqFacts
<1>2. CASE Len(path) > Len(root)
  <2>1. Below(root, path) = SubSeq(path, Len(root) + 1, Len(path))
    BY <1>2 DEF Below
  <2>2. QED
    BY <1>1, <1>2, <2>1, SubSeqProperties
<1>3. CASE ~(Len(path) > Len(root))
  BY <1>3, EmptyIsSeq DEF Below
<1>4. QED
  BY <1>2, <1>3

LEMMA WalkToKeeps ==
  ASSUME RowsOK, NEW a, Shape(a), Chain(a.columns), a.active \in Nat \ {0},
         a.end = "no", ~a.preview_focused, IsSeq(a.partition_root),
         NEW path, IsSeq(path), NEW o \in WalkTo(a, path)
  PROVE  WalkOK(o, a) /\ (o.ok => o.app.end = "no")
<1> DEFINE names == Below(a.partition_root, path)
<1>1. Len(names) \in Nat
  BY BelowIsSeq
<1> HIDE DEF names
<1>2. \A s \in Ok(a) : WalkOK(s, a)
  BY DEF Ok, WalkOK, TreeLoaded, SameModes, SamePlace
<1>3. PICK s \in WalkDown(a, names) :
        (s.ok /\ o \in Ok([s.app EXCEPT !.end = "no"])) \/ (~s.ok /\ o = s)
  BY DEF WalkTo, Then, names
<1>4. WalkOK(s, a)
  BY <1>1, <1>2, WalkKeeps
<1>5. CASE ~s.ok
  BY <1>3, <1>4, <1>5
<1>6. CASE s.ok
  <2>1. o.app = [s.app EXCEPT !.end = "no"] /\ o.ok
    BY <1>3, <1>6 DEF Ok
  <2>2. /\ TreeLoaded(o.app, s.app) /\ o.app.columns = s.app.columns
        /\ o.app.active = s.app.active /\ o.app.end = "no"
        /\ o.app.preview_focused = s.app.preview_focused
    BY <1>4, <2>1, EndChanges DEF WalkOK, TreeLoaded
  <2>3. TreeLoaded(o.app, a)
    BY <1>4, <2>2, TreeLoadedTrans DEF WalkOK
  <2>4. QED
    BY <1>4, <2>1, <2>2, <2>3 DEF WalkOK
<1>7. QED
  BY <1>5, <1>6

\* A tree that is loaded and active in any column can show that one's preview.
LEMMA PreviewFollows ==
  ASSUME RowsOK, NEW a, Shape(a), Chain(a.columns), a.active \in Nat \ {0},
         NEW o \in TreeUpdatePreview(a)
  PROVE  /\ TreeLoaded(o.app, a) /\ TreeOK(o.app)
         /\ Reached(o, a)
<1>1. Len(a.columns) \in Nat
  BY SeqFacts DEF Chain
<1>2. /\ Chain(Truncate(a.columns, a.active))
      /\ Len(Truncate(a.columns, a.active)) <= a.active
  BY <1>1, ChainCut
<1>3. Reached(o, a)
  BY <1>2, PreviewUpdates
<1>4. QED
  BY <1>3 DEF Reached, TreeOK, ActiveOK

LEMMA FromListPositionKeeps ==
  ASSUME RowsOK, NEW a0, Shape(a0), PathOK(a0), a0.end = "no", ~a0.preview_focused,
         NEW o \in InitTreeFromListPosition(a0)
  PROVE  TreeLoaded(o.app, a0) /\ TreeOK(o.app)
<1> DEFINE Rest(a) ==
             IF a.current_partition = None THEN TreeUpdatePreview(a)
             ELSE LET i == IndexOf(a.columns[1].entries, a.current_partition)
                      b == IF i = 0 THEN a ELSE [a EXCEPT !.columns[1].sel = i]
                  IN  Then(TreeUpdatePreview(b), LAMBDA x :
                        Then(WalkTo([x EXCEPT !.active = 2], x.current_path), TreeUpdatePreview))
<1>1. PICK s \in StartTree(a0) : (s.ok /\ o \in Rest(s.app)) \/ (~s.ok /\ o = s)
  BY DEF InitTreeFromListPosition, Then
<1>2. /\ TreeLoaded(s.app, a0) /\ s.app.active = 1 /\ s.app.end = "no"
      /\ ~s.app.preview_focused
      /\ IF s.ok THEN \E c : s.app.columns = <<c>> /\ ColumnOK(c) /\ c.partition = None
         ELSE s.app.columns = <<>>
  BY StartTreeMakes
<1> DEFINE a == s.app
           i == IndexOf(a.columns[1].entries, a.current_partition)
           b == IF i = 0 THEN a ELSE [a EXCEPT !.columns[1].sel = i]
<1>3. CASE ~s.ok
  <2>1. Chain(<<>>)
    <3>1. DOMAIN <<>> = {}
      OBVIOUS
    <3>2. QED
      BY <3>1, EmptyIsSeq DEF Chain
  <2>2. QED
    BY <1>1, <1>2, <1>3, <2>1 DEF TreeOK, ActiveOK
<1>4. ASSUME s.ok
      PROVE  Shape(a) /\ Chain(a.columns) /\ Len(a.columns) = 1 /\ a.active \in Nat \ {0}
  BY <1>2, <1>4, ChainStarts DEF TreeLoaded
<1>5. CASE s.ok /\ a.current_partition = None
  <2>1. o \in TreeUpdatePreview(a)
    BY <1>1, <1>5
  <2>2. TreeLoaded(o.app, a) /\ TreeOK(o.app)
    BY <1>4, <1>5, <2>1, PreviewFollows
  <2>3. QED
    BY <1>2, <2>2, TreeLoadedTrans
<1>6. CASE s.ok /\ a.current_partition # None
  <2>1. o \in Then(TreeUpdatePreview(b), LAMBDA x :
                Then(WalkTo([x EXCEPT !.active = 2], x.current_path), TreeUpdatePreview))
    BY <1>1, <1>6
  <2>2. Shape(a) /\ Chain(a.columns) /\ Len(a.columns) = 1 /\ a.active = 1
    BY <1>2, <1>4, <1>6
  <2>3. /\ TreeLoaded(b, a0) /\ b.active = 1 /\ b.end = "no" /\ ~b.preview_focused
        /\ Chain(Truncate(b.columns, 1)) /\ Len(Truncate(b.columns, 1)) = 1
    <3>1. CASE i = 0
      <4>1. b = a
        BY <3>1
      <4>2. Truncate(a.columns, 1) = a.columns
        BY <2>2 DEF Truncate
      <4>3. QED
        BY <1>2, <2>2, <4>1, <4>2
    <3>2. CASE i # 0
      <4>1. 1 \in DOMAIN a.columns /\ ColumnOK(a.columns[1])
        BY <2>2, SeqFacts DEF Chain
      <4>2. i \in DOMAIN a.columns[1].entries
        BY <3>2, <4>1, IndexIsIn DEF ColumnOK
      <4>3. b = [a EXCEPT !.columns[1].sel = i]
        BY <3>2
      <4> DEFINE n == 1
      <4> HIDE DEF b, i, a, n
      <4>4. n \in DOMAIN a.columns /\ i \in DOMAIN a.columns[n].entries
            /\ b = [a EXCEPT !.columns[n].sel = i]
        BY <4>1, <4>2, <4>3 DEF n
      <4>5. /\ TreeLoaded(b, a) /\ b.active = a.active /\ b.end = a.end
            /\ b.preview_focused = a.preview_focused
            /\ Chain(Truncate(b.columns, n)) /\ Len(Truncate(b.columns, n)) = n
        BY <2>2, <4>4, SelectionMoves
      <4>6. /\ TreeLoaded(b, a) /\ b.active = a.active /\ b.end = a.end
            /\ b.preview_focused = a.preview_focused
            /\ Chain(Truncate(b.columns, 1)) /\ Len(Truncate(b.columns, 1)) = 1
        BY <4>5 DEF n
      <4>7. QED
        BY <1>2, <4>6, TreeLoadedTrans DEF a
    <3>3. QED
      BY <3>1, <3>2
  <2> HIDE DEF b
  <2>4. PICK t \in TreeUpdatePreview(b) :
          (t.ok /\ o \in Then(WalkTo([t.app EXCEPT !.active = 2], t.app.current_path),
                              TreeUpdatePreview))
          \/ (~t.ok /\ o = t)
    BY <2>1 DEF Then
  <2>5. Reached(t, b)
    <3>1. b.active = 1 /\ Shape(b)
      BY <2>3 DEF TreeLoaded
    <3>2. Chain(Truncate(b.columns, b.active)) /\ Len(Truncate(b.columns, b.active)) = 1
      BY <2>3, <3>1
    <3>3. \A x, y : x = 1 /\ y = 1 => x <= y /\ y \in Nat \ {0}
      OBVIOUS
    <3>4. Len(Truncate(b.columns, b.active)) <= b.active /\ b.active \in Nat \ {0}
      BY <3>1, <3>2, <3>3, Zenon
    <3>5. QED
      BY <3>1, <3>2, <3>4, PreviewUpdates
  <2>6. TreeLoaded(t.app, a0)
    BY <2>3, <2>5, TreeLoadedTrans DEF Reached
  <2>7. CASE ~t.ok
    BY <2>3, <2>4, <2>5, <2>6, <2>7 DEF Reached, TreeOK, ActiveOK
  <2>8. CASE t.ok
    <3> DEFINE x == [t.app EXCEPT !.active = 2]
    <3>1. /\ TreeLoaded(x, t.app) /\ x.columns = t.app.columns /\ x.active = 2
          /\ x.end = "no" /\ ~x.preview_focused
      BY <2>3, <2>5, <2>6, <2>8, ActiveChanges DEF Reached, TreeLoaded
    <3>2. PICK w \in WalkTo(x, t.app.current_path) :
            (w.ok /\ o \in TreeUpdatePreview(w.app)) \/ (~w.ok /\ o = w)
      BY <2>4, <2>8 DEF Then
    <3> HIDE DEF x
    <3>3. /\ Shape(x) /\ Chain(x.columns) /\ TreeLoaded(x, a0)
          /\ IsSeq(x.partition_root) /\ IsSeq(t.app.current_path)
      BY <2>5, <2>6, <3>1, TreeLoadedTrans DEF Reached, TreeLoaded, SamePlace, PathOK
    <3>4. WalkOK(w, x) /\ (w.ok => w.app.end = "no")
      BY <3>1, <3>2, <3>3, WalkToKeeps
    <3>5. TreeLoaded(w.app, a0)
      BY <3>3, <3>4, TreeLoadedTrans DEF WalkOK
    <3>6. CASE ~w.ok
      BY <3>2, <3>4, <3>5, <3>6 DEF WalkOK, TreeOK
    <3>7. CASE w.ok
      <4>1. TreeLoaded(o.app, w.app) /\ TreeOK(o.app)
        BY <3>2, <3>4, <3>7, PreviewFollows DEF WalkOK, TreeLoaded
      <4>2. QED
        BY <3>5, <4>1, TreeLoadedTrans
    <3>8. QED
      BY <3>6, <3>7
  <2>9. QED
    BY <2>7, <2>8
<1>7. QED
  BY <1>3, <1>5, <1>6

-----------------------------------------------------------------------------
(* Handlers.                                                               *)

\* What a handler leaves, from a state of the key loop.
Handled(o, a) == AppOK(o.app) /\ SameModes(o.app, a)

\* A change beside the list's place and the tree.
Beside(b, a) ==
  /\ Shape(b) /\ SamePlace(b, a) /\ SameTree(b, a)
  /\ b.preview_focused = a.preview_focused /\ b.end = a.end

LEMMA BesideKeeps ==
  ASSUME NEW a, NEW b, AppOK(a), Beside(b, a)
  PROVE  AppOK(b)
  BY DEF AppOK, Beside, SamePlace, SameTree, PathOK, ActiveOK

LEMMA SelectionIsBeside ==
  ASSUME NEW a, Shape(a), NEW i
  PROVE  Beside([a EXCEPT !.sel = i], a) /\ SameModes([a EXCEPT !.sel = i], a)
  BY DEF Shape, Fields, Beside, SameModes, SamePlace, SameTree

\* Once the list is loaded an entry of it is selected.
LEMMA ListSelects ==
  ASSUME NEW a, AppOK(a), NEW x, NEW c, ListLoaded(x, c), PathOK(x),
         SameTree(c, a), SameModes(c, a), c.preview_focused = a.preview_focused, c.end = a.end,
         NEW i
  PROVE  /\ AppOK(x) /\ SameModes(x, a)
         /\ AppOK([x EXCEPT !.sel = i]) /\ SameModes([x EXCEPT !.sel = i], a)
<1>1. AppOK(x) /\ SameModes(x, a)
  BY DEF AppOK, ListLoaded, SameTree, SameModes, ActiveOK
<1>2. Beside([x EXCEPT !.sel = i], x) /\ SameModes([x EXCEPT !.sel = i], x)
  BY <1>1, SelectionIsBeside DEF AppOK
<1>3. QED
  BY <1>1, <1>2, BesideKeeps DEF SameModes

LEMMA PanicKeeps ==
  ASSUME NEW a, AppOK(a), NEW o \in Panic(a)
  PROVE  Handled(o, a)
<1>1. o.app = [a EXCEPT !.end = "panic"]
  BY DEF Panic, Err
<1>2. /\ TreeLoaded(o.app, a) /\ o.app.columns = a.columns /\ o.app.active = a.active
      /\ o.app.end = "panic" /\ o.app.preview_focused = a.preview_focused
  BY <1>1, EndChanges DEF AppOK
<1>3. QED
  BY <1>2 DEF AppOK, Handled, TreeLoaded, SamePlace, PathOK, ActiveOK

LEMMA OkKeeps ==
  ASSUME NEW a, AppOK(a), NEW o \in Ok(a)
  PROVE  Handled(o, a)
  BY DEF Ok, Handled, SameModes

LEMMA TreeHandled ==
  ASSUME NEW a, AppOK(a), NEW o, TreeLoaded(o.app, a), TreeOK(o.app)
  PROVE  Handled(o, a)
  BY DEF AppOK, Handled, TreeLoaded, TreeOK, SamePlace, PathOK

\* The list is loaded at a place of its own, and an entry may then be selected.
LEMMA ListLoads ==
  ASSUME RowsOK, NEW a, AppOK(a), NEW c, Shape(c), PathOK(c),
         SameTree(c, a), SameModes(c, a), c.preview_focused = a.preview_focused, c.end = a.end,
         NEW x \in LoadPartitions(c) \cup LoadDirectory(c), NEW i
  PROVE  /\ AppOK(x.app) /\ SameModes(x.app, a)
         /\ AppOK([x.app EXCEPT !.sel = i]) /\ SameModes([x.app EXCEPT !.sel = i], a)
<1>1. ListLoaded(x.app, c) /\ PathOK(x.app)
  <2>1. CASE x \in LoadPartitions(c)
    BY <2>1, LoadPartitionsKeeps DEF PathOK, SamePlace
  <2>2. CASE x \in LoadDirectory(c)
    BY <2>2, LoadDirectoryKeeps
  <2>3. QED
    BY <2>1, <2>2
<1>2. QED
  BY <1>1, ListSelects

LEMMA RestoreKeeps ==
  ASSUME RowsOK, NEW a, AppOK(a), NEW o \in RestoreListFromTreePosition(a)
  PROVE  Handled(o, a)
<1> DEFINE c == IF a.columns = <<>> THEN ColumnOf(None, <<>>, <<>>, <<>>)
                ELSE a.columns[a.active]
           e == SelectedIn(c)
           b == [a EXCEPT !.current_partition = c.partition,
                          !.partition_root = c.partition_root, !.current_path = c.path]
           j(x) == IF e = None THEN 0 ELSE IndexOf(x.entries, e.name)
<1>1. CASE a.columns # <<>> /\ a.active \notin DOMAIN a.columns
  <2>1. o \in Panic(a)
    BY <1>1 DEF RestoreListFromTreePosition
  <2>2. QED
    BY <2>1, PanicKeeps
<1>2. CASE a.columns = <<>> \/ a.active \in DOMAIN a.columns
  <2>1. o \in Then(IF b.current_partition = None THEN LoadPartitions(b) ELSE LoadDirectory(b),
                   LAMBDA x : Ok(Select(x, IF j(x) = 0 THEN 1 ELSE j(x))))
    BY <1>2, Zenon DEF RestoreListFromTreePosition
  <2>2. ColumnOK(c)
    <3>1. CASE a.columns = <<>>
      <4>1. IsSeq(<<>>) /\ IsPrefixPath(<<>>, <<>>)
        BY EmptyIsSeq, PrefixFacts
      <4>2. ColumnOK(ColumnOf(None, <<>>, <<>>, <<>>))
        BY <4>1, ColumnIsOK
      <4>3. QED
        BY <3>1, <4>2
    <3>2. CASE a.columns # <<>>
      BY <1>2, <3>2 DEF AppOK, Chain
    <3>3. QED
      BY <3>1, <3>2
  <2> HIDE DEF c
  <2>3. /\ Shape(b) /\ SameTree(b, a) /\ SameModes(b, a)
        /\ b.preview_focused = a.preview_focused /\ b.end = a.end
        /\ b.current_partition = c.partition /\ b.partition_root = c.partition_root
        /\ b.current_path = c.path
    <3> DEFINE p == c.partition
               root == c.partition_root
               path == c.path
    <3>1. b = [a EXCEPT !.current_partition = p, !.partition_root = root, !.current_path = path]
      OBVIOUS
    <3> HIDE DEF b, p, root, path
    <3>2. Shape(a)
      BY DEF AppOK
    <3>3. /\ Shape(b) /\ SameTree(b, a) /\ SameModes(b, a)
          /\ b.preview_focused = a.preview_focused /\ b.end = a.end
          /\ b.current_partition = p /\ b.partition_root = root
          /\ b.current_path = path
      BY <3>1, <3>2 DEF Shape, Fields, SameTree, SameModes
    <3>4. QED
      BY <3>3 DEF p, root, path
  <2> HIDE DEF b
  <2>4. PathOK(b)
    BY <2>2, <2>3 DEF ColumnOK, PathOK
  <2>5. PICK x \in LoadPartitions(b) \cup LoadDirectory(b) :
          o = x \/ o \in Ok(Select(x.app, IF j(x.app) = 0 THEN 1 ELSE j(x.app)))
    BY <2>1 DEF Then
  <2>6. \A i : /\ AppOK(x.app) /\ SameModes(x.app, a)
               /\ AppOK([x.app EXCEPT !.sel = i]) /\ SameModes([x.app EXCEPT !.sel = i], a)
    BY <2>3, <2>4, ListLoads
  <2>7. CASE o = x
    BY <2>6, <2>7 DEF Handled
  <2>8. CASE o \in Ok(Select(x.app, IF j(x.app) = 0 THEN 1 ELSE j(x.app)))
    <3>1. \E i : o.app = [x.app EXCEPT !.sel = i]
      <4>1. \A i : \E k : Select(x.app, i) = [x.app EXCEPT !.sel = k]
        BY DEF Select
      <4>2. \E i : o.app = Select(x.app, i)
        BY <2>8 DEF Ok
      <4>3. QED
        BY <4>1, <4>2
    <3>2. QED
      BY <2>6, <3>1 DEF Handled
  <2>9. QED
    BY <2>5, <2>7, <2>8
<1>3. QED
  BY <1>1, <1>2

LEMMA ReloadKeeps ==
  ASSUME RowsOK, NEW a, AppOK(a), NEW o \in Reload(a)
  PROVE  Handled(o, a)
<1>1. CASE a.view_mode = "Tree"
  <2>1. o \in InitTree(a)
    BY <1>1 DEF Reload
  <2>2. QED
    BY <2>1, InitTreeKeeps, TreeHandled DEF AppOK
<1>2. CASE a.view_mode # "Tree"
  <2>1. PICK x \in LoadPartitions(a) \cup LoadDirectory(a) : o = x \/ o \in Ok(Clamp(x.app))
    BY <1>2 DEF Reload, Then
  <2>2. \A i : /\ AppOK(x.app) /\ SameModes(x.app, a)
               /\ AppOK([x.app EXCEPT !.sel = i]) /\ SameModes([x.app EXCEPT !.sel = i], a)
    BY ListLoads DEF AppOK, SameTree, SameModes
  <2>3. CASE o = x
    BY <2>2, <2>3 DEF Handled
  <2>4. CASE o \in Ok(Clamp(x.app))
    <3>1. \E i : Clamp(x.app) = [x.app EXCEPT !.sel = i]
      BY DEF Clamp
    <3>2. o.app = Clamp(x.app)
      BY <2>4 DEF Ok
    <3>3. QED
      BY <2>2, <3>1, <3>2 DEF Handled
  <2>5. QED
    BY <2>1, <2>3, <2>4
<1>3. QED
  BY <1>1, <1>2

\* The list is loaded elsewhere, and its first entry selected.
LEMMA FirstIsSelected ==
  ASSUME RowsOK, NEW a, AppOK(a), NEW c, Shape(c), PathOK(c),
         SameTree(c, a), SameModes(c, a), c.preview_focused = a.preview_focused, c.end = a.end,
         NEW x \in LoadPartitions(c) \cup LoadDirectory(c),
         NEW o, o = x \/ o \in Ok([x.app EXCEPT !.sel = 1])
  PROVE  Handled(o, a)
<1>1. \A i : /\ AppOK(x.app) /\ SameModes(x.app, a)
             /\ AppOK([x.app EXCEPT !.sel = i]) /\ SameModes([x.app EXCEPT !.sel = i], a)
  BY ListLoads
<1>2. CASE o = x
  BY <1>1, <1>2 DEF Handled
<1>3. CASE o \in Ok([x.app EXCEPT !.sel = 1])
  <2> DEFINE y == [x.app EXCEPT !.sel = 1]
  <2>1. AppOK(y) /\ SameModes(y, a)
    BY <1>1
  <2>2. o \in Ok(y)
    BY <1>3
  <2> HIDE DEF y
  <2>3. o.app = y
    BY <2>2 DEF Ok
  <2>4. QED
    BY <2>1, <2>3 DEF Handled
<1>4. QED
  BY <1>2, <1>3

LEMMA GoUpKeeps ==
  ASSUME RowsOK, NEW a, AppOK(a), NEW o \in GoUp(a)
  PROVE  Handled(o, a)
<1>1. CASE a.current_partition = None
  <2>1. o \in Ok(a)
    BY <1>1 DEF GoUp
  <2>2. QED
    BY <2>1, OkKeeps
<1>2. CASE a.current_partition # None /\ a.current_path \in {a.partition_root, <<>>}
  <2> DEFINE c == [a EXCEPT !.current_partition = None, !.partition_root = <<>>,
                            !.current_path = <<>>]
  <2>1. PICK x \in LoadPartitions(c) : o = x \/ o \in Ok([x.app EXCEPT !.sel = 1])
    BY <1>2 DEF GoUp, Then
  <2>2. Shape(a)
    BY DEF AppOK
  <2>3. /\ Shape(c) /\ SameTree(c, a) /\ SameModes(c, a)
        /\ c.preview_focused = a.preview_focused /\ c.end = a.end
        /\ c.partition_root = <<>> /\ c.current_path = <<>>
    BY <2>2 DEF Shape, Fields, SameTree, SameModes
  <2> HIDE DEF c
  <2>4. PathOK(c)
    BY <2>3, EmptyIsSeq, PrefixFacts DEF PathOK
  <2>5. QED
    BY <2>1, <2>3, <2>4, FirstIsSelected
<1>3. CASE a.current_partition # None /\ a.current_path \notin {a.partition_root, <<>>}
  <2> DEFINE c == [a EXCEPT !.current_path = Front(@)]
  <2>1. PICK x \in LoadDirectory(c) : o = x \/ o \in Ok([x.app EXCEPT !.sel = 1])
    BY <1>3 DEF GoUp, Then
  <2>2. Shape(a) /\ PathOK(a)
    BY DEF AppOK
  <2>3. /\ Shape(c) /\ SameTree(c, a) /\ SameModes(c, a)
        /\ c.preview_focused = a.preview_focused /\ c.end = a.end
        /\ c.partition_root = a.partition_root /\ c.current_path = Front(a.current_path)
        /\ c.current_partition = a.current_partition
    BY <2>2 DEF Shape, Fields, SameTree, SameModes
  <2> HIDE DEF c
  <2>4. PathOK(c)
    BY <1>3, <2>2, <2>3, PrefixFacts DEF PathOK
  <2>5. QED
    BY <2>1, <2>3, <2>4, FirstIsSelected
<1>4. QED
  BY <1>1, <1>2, <1>3

LEMMA EnterKeeps ==
  ASSUME RowsOK, NEW a, AppOK(a), NEW o \in EnterSelected(a)
  PROVE  Handled(o, a)
<1> DEFINE e == a.entries[a.sel]
           c == IF a.current_partition = None
                THEN [a EXCEPT !.current_partition = e.name, !.partition_root = <<>>,
                               !.current_path = <<>>]
                ELSE [a EXCEPT !.current_path = Append(@, e.name)]
<1>1. CASE o \in Ok(a)
  BY <1>1, OkKeeps
<1>2. CASE o \in Panic(a)
  BY <1>2, PanicKeeps
<1>3. CASE o \in GoUp(a)
  BY <1>3, GoUpKeeps
<1>4. CASE \E x \in LoadDirectory(c) : o = x \/ o \in Ok([x.app EXCEPT !.sel = 1])
  <2>1. Shape(a) /\ PathOK(a)
    BY DEF AppOK
  <2>2. CASE a.current_partition = None
    <3> DEFINE p == e.name
    <3> HIDE DEF p
    <3>1. c = [a EXCEPT !.current_partition = p, !.partition_root = <<>>, !.current_path = <<>>]
      BY <2>2 DEF p
    <3> HIDE DEF c
    <3>2. /\ Shape(c) /\ SameTree(c, a) /\ SameModes(c, a)
          /\ c.preview_focused = a.preview_focused /\ c.end = a.end
          /\ c.partition_root = <<>> /\ c.current_path = <<>>
      BY <2>1, <3>1 DEF Shape, Fields, SameTree, SameModes
    <3>3. PathOK(c)
      BY <3>2, EmptyIsSeq, PrefixFacts DEF PathOK
    <3>4. QED
      BY <1>4, <3>2, <3>3, FirstIsSelected
  <2>3. CASE a.current_partition # None
    <3> DEFINE n == e.name
    <3> HIDE DEF n
    <3>1. c = [a EXCEPT !.current_path = Append(@, n)]
      BY <2>3 DEF n
    <3> HIDE DEF c
    <3>2. /\ Shape(c) /\ SameTree(c, a) /\ SameModes(c, a)
          /\ c.preview_focused = a.preview_focused /\ c.end = a.end
          /\ c.partition_root = a.partition_root /\ c.current_path = Append(a.current_path, n)
          /\ c.current_partition = a.current_partition
      BY <2>1, <3>1 DEF Shape, Fields, SameTree, SameModes
    <3>3. PathOK(c)
      <4>1. /\ IsSeq(a.partition_root) /\ IsSeq(a.current_path)
            /\ IsPrefixPath(a.partition_root, a.current_path)
        BY <2>1 DEF PathOK
      <4>2. /\ IsSeq(Append(a.current_path, n))
            /\ IsPrefixPath(a.partition_root, Append(a.current_path, n))
        BY <4>1, AppendIsSeq, PrefixFacts
      <4>3. QED
        BY <2>3, <3>2, <4>1, <4>2 DEF PathOK
    <3>4. QED
      BY <1>4, <3>2, <3>3, FirstIsSelected
  <2>4. QED
    BY <2>2, <2>3
<1>5. QED
  BY <1>1, <1>2, <1>3, <1>4 DEF EnterSelected, Then

LEMMA MovesStayIn ==
  ASSUME NEW n \in Nat, NEW sel \in 1 .. n, NEW i \in Moved(sel, n)
  PROVE  i \in 1 .. n
<1>1. Min({sel + 1, n}) \in {sel + 1, n} /\ Min({sel + 1, n}) <= n
  <2>1. \E m \in {sel + 1, n} : \A y \in {sel + 1, n} : m <= y
    <3>1. CASE sel + 1 <= n
      BY <3>1
    <3>2. CASE n <= sel + 1
      BY <3>2
    <3>3. QED
      BY <3>1, <3>2
  <2>2. QED
    BY <2>1 DEF Min
<1>2. Max({sel - 1, 1}) \in {sel - 1, 1} /\ 1 <= Max({sel - 1, 1})
  <2>1. \E m \in {sel - 1, 1} : \A y \in {sel - 1, 1} : y <= m
    <3>1. CASE sel - 1 <= 1
      BY <3>1
    <3>2. CASE 1 <= sel - 1
      BY <3>2
    <3>3. QED
      BY <3>1, <3>2
  <2>2. QED
    BY <2>1 DEF Max
<1>3. QED
  BY <1>1, <1>2 DEF Moved

LEMMA TreeMovesKeeps ==
  ASSUME RowsOK, NEW a, AppOK(a), a.end = "no", NEW o \in TreeMoves(a)
  PROVE  Handled(o, a)
<1> DEFINE c == a.columns[a.active]
<1>1. CASE o \in Ok(a)
  BY <1>1, OkKeeps
<1>2. CASE o \in TreeUpdatePreview(a)
  BY <1>2, PreviewFollows, TreeHandled DEF AppOK, ActiveOK
<1>3. CASE a.columns # <<>> /\ c.entries # <<>>
           /\ \E i \in Moved(c.sel, Len(c.entries)) : o \in TreeSelect(a, i)
  <2>1. PICK i \in Moved(c.sel, Len(c.entries)) : o \in TreeSelect(a, i)
    BY <1>3
  <2> DEFINE n == a.active
             b == [a EXCEPT !.columns[n].sel = i]
  <2>2. n \in DOMAIN a.columns /\ n \in Nat \ {0} /\ Chain(a.columns) /\ Shape(a)
    BY <1>3 DEF AppOK, ActiveOK
  <2>3. c.sel \in DOMAIN c.entries /\ IsSeq(c.entries)
    BY <1>3, <2>2 DEF Chain, ColumnOK, SelectionOK
  <2>4. i \in DOMAIN c.entries
    BY <2>1, <2>3, SeqFacts, MovesStayIn
  <2>5. o \in TreeUpdatePreview(b)
    BY <2>1 DEF TreeSelect
  <2>6. /\ TreeLoaded(b, a) /\ b.active = n /\ b.end = a.end
        /\ b.preview_focused = a.preview_focused
        /\ Chain(Truncate(b.columns, n)) /\ Len(Truncate(b.columns, n)) = n
    BY <2>2, <2>4, SelectionMoves
  <2> HIDE DEF b, n
  <2>7. Len(Truncate(b.columns, b.active)) <= b.active
    BY <2>2, <2>6
  <2>8. Reached(o, b)
    BY <2>2, <2>5, <2>6, <2>7, PreviewUpdates DEF TreeLoaded
  <2>9. TreeLoaded(o.app, a) /\ TreeOK(o.app)
    BY <2>2, <2>6, <2>8, TreeLoadedTrans DEF Reached, TreeOK, ActiveOK
  <2>10. QED
    BY <2>9, TreeHandled
<1>4. QED
  BY <1>1, <1>2, <1>3 DEF TreeMoves

LEMMA TreeRightKeeps ==
  ASSUME RowsOK, NEW a, AppOK(a), NEW o \in TreeRight(a)
  PROVE  Handled(o, a)
<1>1. CASE o \in Ok(a)
  BY <1>1, OkKeeps
<1>2. CASE o \in TreeUpdatePreview([a EXCEPT !.active = @ + 1])
  <2> DEFINE n == a.active + 1
             b == [a EXCEPT !.active = n]
  <2>1. Shape(a) /\ Chain(a.columns) /\ n \in Nat \ {0}
    BY DEF AppOK, ActiveOK
  <2>2. o \in TreeUpdatePreview(b)
    <3>1. [a EXCEPT !.active = @ + 1] = b
      OBVIOUS
    <3>2. QED
      BY <1>2, <3>1
  <2> HIDE DEF n
  <2>3. /\ TreeLoaded(b, a) /\ b.columns = a.columns /\ b.active = n
    BY <2>1, ActiveChanges
  <2> HIDE DEF b
  <2>4. TreeLoaded(o.app, b) /\ TreeOK(o.app)
    BY <2>1, <2>2, <2>3, PreviewFollows DEF TreeLoaded
  <2>5. QED
    BY <2>3, <2>4, TreeLoadedTrans, TreeHandled
<1>3. QED
  BY <1>1, <1>2 DEF TreeRight

LEMMA TreeLeftKeeps ==
  ASSUME NEW a, AppOK(a), NEW o \in TreeLeft(a)
  PROVE  Handled(o, a)
<1>1. CASE ~(a.active > 1)
  <2>1. o \in Ok(a)
    BY <1>1 DEF TreeLeft
  <2>2. QED
    BY <2>1, OkKeeps
<1>2. CASE a.active > 1
  <2> DEFINE n == a.active - 1
             cols == Truncate(a.columns, a.active)
             b == [a EXCEPT !.active = n, !.columns = cols]
  <2>1. /\ Shape(a) /\ Chain(a.columns) /\ a.active \in Nat \ {0} /\ n \in Nat \ {0}
        /\ ~a.preview_focused /\ a.active = n + 1
    BY <1>2 DEF AppOK, ActiveOK
  <2>2. o.app = b
    <3>1. [a EXCEPT !.active = @ - 1, !.columns = Truncate(@, a.active)] = b
      BY DEF AppOK, Shape, Fields
    <3>2. o \in Ok([a EXCEPT !.active = @ - 1, !.columns = Truncate(@, a.active)])
      BY <1>2 DEF TreeLeft
    <3>3. o \in Ok(b)
      BY <3>1, <3>2
    <3> HIDE DEF b
    <3>4. QED
      BY <3>3 DEF Ok
  <2> HIDE DEF n, cols
  <2>3. /\ TreeLoaded(b, a) /\ b.columns = cols /\ b.active = n /\ b.end = a.end
        /\ b.preview_focused = a.preview_focused
    BY <2>1 DEF Shape, Fields, TreeLoaded, SameModes, SamePlace
  <2> HIDE DEF b
  <2>4. /\ Chain(cols) /\ (cols = <<>> => a.columns = <<>>)
        /\ Len(cols) = IF a.active < Len(a.columns) THEN a.active ELSE Len(a.columns)
    BY <2>1, ChainCut DEF cols
  <2>5. a.end = "no" /\ cols # <<>> => n \in DOMAIN cols /\ Len(cols) <= n + 1
    <3> SUFFICES ASSUME a.end = "no", cols # <<>>
                 PROVE  n \in DOMAIN cols /\ Len(cols) <= n + 1
      OBVIOUS
    <3>1. a.columns # <<>>
      <4>1. CASE a.columns = <<>>
        <5>1. ~(a.active < Len(<<>>))
          BY <2>1, EmptyIsSeq
        <5>2. cols = <<>>
          BY <4>1, <5>1 DEF cols, Truncate
        <5>3. QED
          BY <5>2
      <4>2. QED
        BY <4>1
    <3>2. a.active \in DOMAIN a.columns
      BY <3>1 DEF AppOK, ActiveOK
    <3>3. Len(a.columns) \in Nat /\ a.active <= Len(a.columns)
      BY <2>1, <3>2, SeqFacts DEF Chain
    <3>4. Len(cols) = n + 1
      BY <2>1, <2>4, <3>3
    <3>5. DOMAIN cols = 1 .. Len(cols)
      BY <2>4, SeqFacts DEF Chain
    <3>6. QED
      BY <2>1, <3>4, <3>5
  <2>6. TreeOK(b)
    BY <2>1, <2>3, <2>4, <2>5 DEF TreeOK, ActiveOK
  <2>7. QED
    BY <2>2, <2>3, <2>6, TreeHandled
<1>3. QED
  BY <1>1, <1>2

-----------------------------------------------------------------------------
(* Steps.                                                                  *)

ModesOK(a) ==
  /\ (a.input_mode = "ListPreview") <=> (a.list_preview # None)
  /\ a.list_preview # None => a.view_mode = "List"
  /\ a.preview_focused =>
       a.view_mode = "Tree" /\ a.file_preview # None /\ a.input_mode = "Normal"

AppInv(a) == Shape(a) /\ PathOK(a) /\ Chain(a.columns) /\ ActiveOK(a) /\ ModesOK(a)

ViewInv == rows \in Indexes /\ AppInv(app)

LEMMA RowsAreOK == ASSUME ViewOK, ViewInv PROVE RowsOK
  BY DEF ViewOK, ViewInv, RowsOK

LEMMA KeyStarts ==
  ASSUME ViewInv, NEW mode, NEW outcomes, Key(mode, outcomes), mode # "ListPreview"
  PROVE  /\ AppOK(app) /\ app.end = "no" /\ app.input_mode = mode /\ app.list_preview = None
         /\ ~app.preview_focused
  BY DEF ViewInv, AppInv, ModesOK, Key, AppOK

LEMMA KeyEnds ==
  ASSUME ViewInv, NEW mode, NEW outcomes, Key(mode, outcomes), \A o \in outcomes : AppInv(o.app)
  PROVE  ViewInv'
  BY DEF ViewInv, Key

\* Most keys end in a mode without an overlay.
LEMMA HandledKeeps ==
  ASSUME NEW o, NEW c, Handled(o, c), c.input_mode # "ListPreview", c.list_preview = None
  PROVE  AppInv(o.app)
  BY DEF Handled, AppOK, AppInv, ModesOK, SameModes

\* They begin with a change of the settings only.
LEMMA SettingsChange ==
  ASSUME NEW a, AppOK(a), NEW x, NEW f \in {"filters", "sort_mode", "pending_sort", "sel"}
  PROVE  AppOK([a EXCEPT ![f] = x]) /\ SameModes([a EXCEPT ![f] = x], a)
         /\ [a EXCEPT ![f] = x].end = a.end
<1>1. Beside([a EXCEPT ![f] = x], a) /\ SameModes([a EXCEPT ![f] = x], a)
  BY DEF AppOK, Shape, Fields, Beside, SamePlace, SameTree, SameModes
<1>2. QED
  BY <1>1, BesideKeeps DEF Beside

LEMMA InputModeChanges ==
  ASSUME NEW a, AppOK(a), NEW m
  PROVE  LET b == [a EXCEPT !.input_mode = m] IN
         /\ AppOK(b) /\ b.input_mode = m /\ b.list_preview = a.list_preview
         /\ b.view_mode = a.view_mode /\ b.end = a.end
<1> DEFINE b == [a EXCEPT !.input_mode = m]
<1>1. /\ Beside(b, a) /\ b.input_mode = m /\ b.list_preview = a.list_preview
      /\ b.view_mode = a.view_mode
  BY DEF AppOK, Shape, Fields, Beside, SamePlace, SameTree
<1>2. QED
  BY <1>1, BesideKeeps DEF Beside

LEMMA ViewModeChanges ==
  ASSUME NEW a, AppOK(a), NEW m
  PROVE  LET b == [a EXCEPT !.view_mode = m] IN
         AppOK(b) /\ b.input_mode = a.input_mode /\ b.list_preview = a.list_preview
         /\ b.end = a.end
<1> DEFINE b == [a EXCEPT !.view_mode = m]
<1>1. Beside(b, a) /\ b.input_mode = a.input_mode /\ b.list_preview = a.list_preview
  BY DEF AppOK, Shape, Fields, Beside, SamePlace, SameTree
<1>2. QED
  BY <1>1, BesideKeeps DEF Beside

LEMMA KeyKeeps ==
  ASSUME ViewInv, NEW mode, NEW outcomes, Key(mode, outcomes),
         NEW c, c.input_mode # "ListPreview", c.list_preview = None,
         \A o \in outcomes : Handled(o, c)
  PROVE  ViewInv'
<1>1. \A o \in outcomes : AppInv(o.app)
  BY HandledKeeps
<1>2. QED
  BY <1>1, KeyEnds

LEMMA QuitKeeps == ViewInv /\ Quit => ViewInv'
<1> SUFFICES ASSUME ViewInv, Quit PROVE ViewInv'
  OBVIOUS
<1> DEFINE a == [AppNew EXCEPT !.end = "quit"]
<1>1. Key("Normal", Ok(a))
  BY DEF Quit
<1>2. AppInv(a)
  <2>1. /\ Shape(a) /\ a.partition_root = <<>> /\ a.current_path = <<>> /\ a.columns = <<>>
        /\ a.active = 1 /\ a.end = "quit" /\ a.input_mode = "Normal"
        /\ a.list_preview = None /\ a.preview_focused = FALSE
    BY DEF AppNew, Shape, Fields
  <2> HIDE DEF a
  <2>2. PathOK(a)
    BY <2>1, EmptyIsSeq, PrefixFacts DEF PathOK
  <2>3. Chain(a.columns)
    BY <2>1, EmptyChain
  <2>4. QED
    BY <2>1, <2>2, <2>3 DEF AppInv, ActiveOK, ModesOK
<1> HIDE DEF a
<1>3. \A o \in Ok(a) : AppInv(o.app)
  BY <1>2 DEF Ok
<1>4. QED
  BY <1>1, <1>3, KeyEnds

LEMMA ToggleKeeps == ViewOK /\ ViewInv /\ Toggle => ViewInv'
<1> SUFFICES ASSUME ViewOK, ViewInv, Toggle PROVE ViewInv'
  OBVIOUS
<1>1. Key("Normal", ToggleViewMode(app)) /\ RowsOK
  BY RowsAreOK DEF Toggle
<1>2. /\ AppOK(app) /\ app.end = "no" /\ app.input_mode = "Normal" /\ app.list_preview = None
  BY <1>1, KeyStarts
<1>3. CASE app.view_mode = "List"
  <2> DEFINE c == [app EXCEPT !.view_mode = "Tree"]
  <2>1. /\ AppOK(c) /\ c.input_mode = app.input_mode /\ c.list_preview = app.list_preview
        /\ c.end = app.end
    BY <1>2, ViewModeChanges
  <2>2. ToggleViewMode(app) = InitTreeFromListPosition(c)
    BY <1>3 DEF ToggleViewMode
  <2> HIDE DEF c
  <2>3. \A o \in InitTreeFromListPosition(c) : Handled(o, c)
    BY <1>1, <1>2, <2>1, FromListPositionKeeps, TreeHandled DEF AppOK
  <2>4. QED
    BY <1>1, <1>2, <2>1, <2>2, <2>3, KeyKeeps
<1>4. CASE app.view_mode # "List"
  <2> DEFINE c == [app EXCEPT !.view_mode = "List"]
  <2>1. /\ AppOK(c) /\ c.input_mode = app.input_mode /\ c.list_preview = app.list_preview
        /\ c.end = app.end
    BY <1>2, ViewModeChanges
  <2>2. ToggleViewMode(app) = RestoreListFromTreePosition(c)
    BY <1>4 DEF ToggleViewMode
  <2> HIDE DEF c
  <2>3. \A o \in RestoreListFromTreePosition(c) : Handled(o, c)
    BY <1>1, <2>1, RestoreKeeps
  <2>4. QED
    BY <1>1, <1>2, <2>1, <2>2, <2>3, KeyKeeps
<1>5. QED
  BY <1>3, <1>4

LEMMA SettingsKeep ==
  ViewOK /\ ViewInv /\ (ClearFilters \/ SortSelectNext \/ SortSelectPrev) => ViewInv'
<1> SUFFICES ASSUME ViewOK, ViewInv, ClearFilters \/ SortSelectNext \/ SortSelectPrev
             PROVE  ViewInv'
  OBVIOUS
<1>1. RowsOK
  BY RowsAreOK
<1>2. CASE ClearFilters
  <2> DEFINE c == [app EXCEPT !.filters = NoFilters]
  <2>1. Key("Normal", Reload(c))
    BY <1>2 DEF ClearFilters
  <2>2. AppOK(app) /\ app.input_mode = "Normal" /\ app.list_preview = None
    BY <2>1, KeyStarts
  <2>3. AppOK(c) /\ SameModes(c, app)
    BY <2>2, SettingsChange
  <2> HIDE DEF c
  <2>4. \A o \in Reload(c) : Handled(o, c)
    BY <1>1, <2>3, ReloadKeeps
  <2>5. QED
    BY <2>1, <2>2, <2>3, <2>4, KeyKeeps DEF SameModes
<1>3. ASSUME NEW m, Key("SortSelect", Ok([app EXCEPT !.pending_sort = m])) PROVE ViewInv'
  <2> DEFINE c == [app EXCEPT !.pending_sort = m]
  <2>1. Key("SortSelect", Ok(c))
    BY <1>3
  <2>2. AppOK(app) /\ app.input_mode = "SortSelect" /\ app.list_preview = None
    BY <2>1, KeyStarts
  <2>3. AppOK(c) /\ SameModes(c, app)
    BY <2>2, SettingsChange
  <2> HIDE DEF c
  <2>4. \A o \in Ok(c) : Handled(o, c)
    BY <2>3, OkKeeps
  <2>5. QED
    BY <2>1, <2>2, <2>3, <2>4, KeyKeeps DEF SameModes
<1>4. CASE SortSelectNext
  BY <1>3, <1>4 DEF SortSelectNext
<1>5. CASE SortSelectPrev
  BY <1>3, <1>5 DEF SortSelectPrev
<1>6. QED
  BY <1>2, <1>4, <1>5

\* A key that enters or leaves a prompt or the sort selector.
LEMMA ModeKeeps ==
  ASSUME ViewInv, NEW mode, mode # "ListPreview", NEW f \in {"sort_mode", "pending_sort"},
         NEW x, NEW m, m # "ListPreview"
  PROVE  LET c == [[app EXCEPT ![f] = x] EXCEPT !.input_mode = m] IN
         /\ Key(mode, Ok(c)) => ViewInv'
         /\ RowsOK /\ Key(mode, Reload(c)) => ViewInv'
<1> DEFINE b == [app EXCEPT ![f] = x]
           c == [b EXCEPT !.input_mode = m]
<1>1. ASSUME AppOK(app), app.list_preview = None
      PROVE  AppOK(c) /\ c.input_mode = m /\ c.list_preview = None
  <2>1. AppOK(b) /\ SameModes(b, app)
    BY <1>1, SettingsChange
  <2> HIDE DEF b
  <2>2. /\ AppOK(c) /\ c.input_mode = m /\ c.list_preview = b.list_preview
    BY <2>1, InputModeChanges
  <2>3. QED
    BY <1>1, <2>1, <2>2 DEF SameModes
<1> HIDE DEF c
<1>2. ASSUME Key(mode, Ok(c)) PROVE ViewInv'
  <2>1. AppOK(c) /\ c.input_mode = m /\ c.list_preview = None
    BY <1>1, <1>2, KeyStarts
  <2>2. \A o \in Ok(c) : Handled(o, c)
    BY <2>1, OkKeeps
  <2>3. QED
    BY <1>2, <2>1, <2>2, KeyKeeps
<1>3. ASSUME RowsOK, Key(mode, Reload(c)) PROVE ViewInv'
  <2>1. AppOK(c) /\ c.input_mode = m /\ c.list_preview = None
    BY <1>1, <1>3, KeyStarts
  <2>2. \A o \in Reload(c) : Handled(o, c)
    BY <1>3, <2>1, ReloadKeeps
  <2>3. QED
    BY <1>3, <2>1, <2>2, KeyKeeps
<1>4. QED
  BY <1>2, <1>3 DEF c

LEMMA SortKeeps ==
  ViewOK /\ ViewInv /\ (StartSortSelect \/ ConfirmSort \/ CancelSort) => ViewInv'
<1> SUFFICES ASSUME ViewOK, ViewInv, StartSortSelect \/ ConfirmSort \/ CancelSort
             PROVE  ViewInv'
  OBVIOUS
<1> DEFINE C(f, x, m) == [[app EXCEPT ![f] = x] EXCEPT !.input_mode = m]
<1>1. CASE StartSortSelect
  <2>1. Key("Normal", Ok(C("pending_sort", app.sort_mode, "SortSelect")))
    BY <1>1 DEF StartSortSelect
  <2>2. QED
    BY <2>1, ModeKeeps
<1>2. CASE ConfirmSort
  <2>1. Key("SortSelect", Reload(C("sort_mode", app.pending_sort, "Normal"))) /\ RowsOK
    BY <1>2, RowsAreOK DEF ConfirmSort
  <2>2. QED
    BY <2>1, ModeKeeps
<1>3. CASE CancelSort
  <2>1. Key("SortSelect", Ok(C("pending_sort", app.sort_mode, "Normal")))
    BY <1>3 DEF CancelSort
  <2>2. QED
    BY <2>1, ModeKeeps
<1>4. QED
  BY <1>1, <1>2, <1>3

LEMMA InputKeeps ==
  ViewOK /\ ViewInv /\ (StartInput \/ CancelInput \/ FinishInput) => ViewInv'
<1> SUFFICES ASSUME ViewOK, ViewInv, StartInput \/ CancelInput \/ FinishInput
             PROVE  ViewInv'
  OBVIOUS
<1>1. RowsOK /\ \A m \in DOMAIN Typed : m # "ListPreview"
  BY RowsAreOK DEF ViewOK, Prompts
<1>2. ASSUME NEW mode, mode # "ListPreview", NEW m, m # "ListPreview",
             Key(mode, Ok([app EXCEPT !.input_mode = m]))
      PROVE  ViewInv'
  <2> DEFINE c == [app EXCEPT !.input_mode = m]
  <2>1. AppOK(app) /\ app.list_preview = None
    BY <1>2, KeyStarts
  <2>2. AppOK(c) /\ c.input_mode = m /\ c.list_preview = None
    BY <2>1, InputModeChanges
  <2>3. Key(mode, Ok(c))
    BY <1>2
  <2> HIDE DEF c
  <2>4. \A o \in Ok(c) : Handled(o, c)
    BY <2>2, OkKeeps
  <2>5. QED
    BY <1>2, <2>2, <2>3, <2>4, KeyKeeps
<1>3. CASE StartInput
  BY <1>1, <1>2, <1>3 DEF StartInput
<1>4. CASE CancelInput
  BY <1>1, <1>2, <1>4 DEF CancelInput
<1>5. CASE FinishInput
  <2>1. PICK m \in DOMAIN Typed : Key(m, ConfirmInput(app))
    BY <1>5 DEF FinishInput
  <2> DEFINE c == [app EXCEPT !.input_mode = "Normal"]
             v(x) == [c EXCEPT !.filters[app.input_mode] = x]
  <2>2. AppOK(app) /\ app.list_preview = None
    BY <1>1, <2>1, KeyStarts
  <2>3. AppOK(c) /\ c.input_mode = "Normal" /\ c.list_preview = None
    BY <2>2, InputModeChanges
  <2>4. ConfirmInput(app) =
          Ok(c) \cup UNION {Reload(v(x)) : x \in Typed[app.input_mode] \cup {None}}
    BY DEF ConfirmInput
  <2> HIDE DEF c
  <2>5. \A o \in Ok(c) : AppInv(o.app)
    BY <2>3, OkKeeps, HandledKeeps
  <2>6. \A x : \A o \in Reload(v(x)) : AppInv(o.app)
    <3> SUFFICES ASSUME NEW x, NEW o \in Reload(v(x)) PROVE AppInv(o.app)
      OBVIOUS
    <3> DEFINE fs == [c.filters EXCEPT ![app.input_mode] = x]
               b == [c EXCEPT !.filters = fs]
    <3>1. v(x) = b
      BY <2>3 DEF AppOK, Shape, Fields
    <3> HIDE DEF fs
    <3>2. AppOK(b) /\ SameModes(b, c)
      BY <2>3, SettingsChange
    <3> HIDE DEF b
    <3>3. Handled(o, b)
      BY <1>1, <3>1, <3>2, ReloadKeeps
    <3>4. QED
      BY <2>3, <3>2, <3>3, HandledKeeps DEF SameModes
  <2> HIDE DEF v
  <2>7. \A o \in ConfirmInput(app) : AppInv(o.app)
    BY <2>4, <2>5, <2>6
  <2>8. QED
    BY <2>1, <2>7, KeyEnds
<1>6. QED
  BY <1>3, <1>4, <1>5

\* A key of either view that leaves the modes alone.
LEMMA NormalKeeps ==
  ASSUME ViewInv, NEW outcomes, Key("Normal", outcomes),
         AppOK(app) /\ app.end = "no" => \A o \in outcomes : Handled(o, app)
  PROVE  ViewInv'
<1>1. /\ AppOK(app) /\ app.end = "no" /\ app.input_mode = "Normal"
      /\ app.list_preview = None
  BY KeyStarts
<1>2. QED
  BY <1>1, KeyKeeps

LEMMA ListKeeps == ViewOK /\ ViewInv /\ (ListMove \/ Enter \/ Back) => ViewInv'
<1> SUFFICES ASSUME ViewOK, ViewInv, ListMove \/ Enter \/ Back PROVE ViewInv'
  OBVIOUS
<1>1. RowsOK
  BY RowsAreOK
<1>2. CASE ListMove
  <2> DEFINE I == IF app.entries = <<>> THEN {1} ELSE Moved(app.sel, Len(app.entries))
             moves == UNION {Ok(Select(app, i)) : i \in I}
  <2>1. Key("Normal", moves)
    BY <1>2 DEF ListMove, ListKey
  <2>2. ASSUME AppOK(app), NEW o \in moves PROVE Handled(o, app)
    <3> HIDE DEF I
    <3>1. PICK i \in I : o \in Ok(Select(app, i))
      OBVIOUS
    <3> DEFINE j == IF app.entries = <<>> THEN app.sel ELSE i
               b == [app EXCEPT !.sel = j]
    <3>2. Select(app, i) = b
      BY DEF Select
    <3> HIDE DEF j
    <3>3. AppOK(b) /\ SameModes(b, app)
      BY <2>2, SelectionIsBeside, BesideKeeps DEF AppOK
    <3> HIDE DEF b
    <3>4. o.app = b
      BY <3>1, <3>2 DEF Ok
    <3>5. QED
      BY <3>3, <3>4 DEF Handled
  <2> HIDE DEF moves
  <2>3. QED
    BY <2>1, <2>2, NormalKeeps
<1>3. CASE Enter
  BY <1>1, <1>3, EnterKeeps, NormalKeeps DEF Enter, ListKey
<1>4. CASE Back
  BY <1>1, <1>4, GoUpKeeps, NormalKeeps DEF Back, ListKey
<1>5. QED
  BY <1>2, <1>3, <1>4

LEMMA OverlayKeeps == ViewInv /\ (OpenListPreview \/ CloseListPreview) => ViewInv'
<1> SUFFICES ASSUME ViewInv, OpenListPreview \/ CloseListPreview PROVE ViewInv'
  OBVIOUS
<1> DEFINE e == SelectedIn(app)
<1>1. CASE OpenListPreview /\ (e = None \/ e.is_dir)
  <2>1. Key("Normal", Ok(app))
    BY <1>1, Zenon DEF OpenListPreview, ListKey
  <2>2. QED
    BY <2>1, OkKeeps, NormalKeeps
<1>2. CASE OpenListPreview /\ e # None /\ ~e.is_dir
  <2> DEFINE b == [app EXCEPT !.list_preview = e, !.input_mode = "ListPreview"]
  <2> HIDE DEF e
  <2>1. Key("Normal", Ok(b)) /\ app.view_mode = "List"
    BY <1>2 DEF OpenListPreview, ListKey, e
  <2>2. AppOK(app) /\ app.end = "no"
    BY <2>1, KeyStarts
  <2>3. /\ Beside(b, app) /\ b.list_preview = e /\ b.input_mode = "ListPreview"
        /\ b.view_mode = "List"
    BY <2>1, <2>2 DEF AppOK, Shape, Fields, Beside, SamePlace, SameTree
  <2> HIDE DEF b
  <2>4. AppInv(b)
    BY <1>2, <2>2, <2>3, BesideKeeps DEF AppOK, AppInv, ModesOK
  <2>5. \A o \in Ok(b) : AppInv(o.app)
    BY <2>4 DEF Ok
  <2>6. QED
    BY <2>1, <2>5, KeyEnds
<1>3. CASE CloseListPreview
  <2> DEFINE b == [app EXCEPT !.list_preview = None, !.input_mode = "Normal"]
  <2>1. Key("ListPreview", Ok(b))
    BY <1>3 DEF CloseListPreview
  <2>2. AppOK(app)
    BY <2>1 DEF Key, ViewInv, AppInv, AppOK
  <2>3. Beside(b, app) /\ b.list_preview = None /\ b.input_mode = "Normal"
    BY <2>2 DEF AppOK, Shape, Fields, Beside, SamePlace, SameTree
  <2> HIDE DEF b
  <2>4. AppInv(b)
    BY <2>2, <2>3, BesideKeeps DEF AppOK, AppInv, ModesOK
  <2>5. \A o \in Ok(b) : AppInv(o.app)
    BY <2>4 DEF Ok
  <2>6. QED
    BY <2>1, <2>5, KeyEnds
<1>4. QED
  BY <1>1, <1>2, <1>3

LEMMA TreeKeeps == ViewOK /\ ViewInv /\ (TreeMove \/ TreeIn \/ TreeOut) => ViewInv'
<1> SUFFICES ASSUME ViewOK, ViewInv, TreeMove \/ TreeIn \/ TreeOut PROVE ViewInv'
  OBVIOUS
<1>1. RowsOK
  BY RowsAreOK
<1>2. CASE TreeMove
  BY <1>1, <1>2, TreeMovesKeeps, NormalKeeps DEF TreeMove, TreeKey
<1>3. CASE TreeOut
  BY <1>3, TreeLeftKeeps, NormalKeeps DEF TreeOut, TreeKey
<1>4. CASE TreeIn /\ app.file_preview = None
  BY <1>1, <1>4, TreeRightKeeps, NormalKeeps DEF TreeIn, TreeKey
<1>5. CASE TreeIn /\ app.file_preview # None
  <2> DEFINE b == [app EXCEPT !.preview_focused = TRUE]
  <2>1. Key("Normal", Ok(b)) /\ app.view_mode = "Tree"
    BY <1>5 DEF TreeIn, TreeKey
  <2>2. AppOK(app) /\ app.input_mode = "Normal" /\ app.list_preview = None
    BY <2>1, KeyStarts
  <2>3. /\ Shape(b) /\ SamePlace(b, app) /\ SameTree(b, app) /\ SameModes(b, app)
        /\ b.file_preview = app.file_preview /\ b.end = app.end
    BY <2>2 DEF AppOK, Shape, Fields, SamePlace, SameTree, SameModes
  <2> HIDE DEF b
  <2>4. AppInv(b)
    <3>1. PathOK(b) /\ Chain(b.columns) /\ ActiveOK(b)
      BY <2>2, <2>3 DEF AppOK, PathOK, ActiveOK, SamePlace, SameTree
    <3>2. ModesOK(b)
      BY <1>5, <2>1, <2>2, <2>3 DEF ModesOK, SameModes
    <3>3. QED
      BY <2>3, <3>1, <3>2 DEF AppInv
  <2>5. \A o \in Ok(b) : AppInv(o.app)
    BY <2>4 DEF Ok
  <2>6. QED
    BY <2>1, <2>5, KeyEnds
<1>6. QED
  BY <1>2, <1>3, <1>4, <1>5

LEMMA LeavePagerKeeps == ViewInv /\ LeavePager => ViewInv'
<1> SUFFICES ASSUME ViewInv, LeavePager PROVE ViewInv'
  OBVIOUS
<1> DEFINE b == [app EXCEPT !.preview_focused = FALSE]
<1>1. AppInv(app) /\ app' = b /\ rows' = rows /\ rows \in Indexes
  BY DEF LeavePager, ViewInv
<1>2. /\ Shape(b) /\ SamePlace(b, app) /\ SameTree(b, app) /\ SameModes(b, app)
      /\ b.preview_focused = FALSE /\ b.end = app.end
  BY <1>1 DEF AppInv, Shape, Fields, SamePlace, SameTree, SameModes
<1> HIDE DEF b
<1>3. PathOK(b) /\ Chain(b.columns) /\ ActiveOK(b)
  BY <1>1, <1>2 DEF AppInv, PathOK, ActiveOK, SamePlace, SameTree
<1>4. ModesOK(b)
  BY <1>1, <1>2 DEF AppInv, ModesOK, SameModes
<1>5. QED
  BY <1>1, <1>2, <1>3, <1>4 DEF ViewInv, AppInv

LEMMA ViewStarts == ViewOK /\ ViewInit => ViewInv
<1> SUFFICES ASSUME ViewOK, ViewInit PROVE ViewInv
  OBVIOUS
<1>1. rows \in Indexes /\ RowsOK
  BY DEF ViewInit, ViewOK, RowsOK
<1>2. PICK p \in Argument :
        \E o \in IF p = None THEN LoadPartitions([AppNew EXCEPT !.current_partition = p])
                 ELSE LoadDirectory([AppNew EXCEPT !.current_partition = p]) :
          app = Select(o.app, 1)
  BY DEF ViewInit
<1> DEFINE a == [AppNew EXCEPT !.current_partition = p]
<1>3. PICK o \in LoadPartitions(a) \cup LoadDirectory(a) : app = Select(o.app, 1)
  BY <1>2
<1>4. /\ Shape(a) /\ a.partition_root = <<>> /\ a.current_path = <<>> /\ a.columns = <<>>
      /\ a.active = 1 /\ a.input_mode = "Normal" /\ a.end = "no"
      /\ a.list_preview = None /\ a.preview_focused = FALSE
  BY DEF AppNew, Shape, Fields
<1> HIDE DEF a
<1>5. PathOK(a)
  BY <1>4, EmptyIsSeq, PrefixFacts DEF PathOK
<1>6. AppOK(a)
  BY <1>4, <1>5, EmptyChain DEF AppOK, ActiveOK
<1>7. \A i : /\ AppOK(o.app) /\ SameModes(o.app, a)
             /\ AppOK([o.app EXCEPT !.sel = i]) /\ SameModes([o.app EXCEPT !.sel = i], a)
  BY <1>1, <1>3, <1>4, <1>5, <1>6, ListLoads DEF SameTree, SameModes
<1>8. \E i : app = [o.app EXCEPT !.sel = i]
  BY <1>3 DEF Select
<1>9. AppOK(app) /\ SameModes(app, a)
  BY <1>7, <1>8
<1>10. AppInv(app)
  BY <1>4, <1>9 DEF AppOK, AppInv, ModesOK, SameModes
<1>11. QED
  BY <1>1, <1>10 DEF ViewInv

LEMMA ViewSteps == ViewOK /\ ViewInv /\ [ViewNext]_viewVars => ViewInv'
<1> SUFFICES ASSUME ViewOK, ViewInv, [ViewNext]_viewVars PROVE ViewInv'
  OBVIOUS
<1>1. CASE Quit
  BY <1>1, QuitKeeps
<1>2. CASE Toggle
  BY <1>2, ToggleKeeps
<1>3. CASE ClearFilters \/ SortSelectNext \/ SortSelectPrev
  BY <1>3, SettingsKeep
<1>4. CASE StartSortSelect \/ ConfirmSort \/ CancelSort
  BY <1>4, SortKeeps
<1>5. CASE StartInput \/ CancelInput \/ FinishInput
  BY <1>5, InputKeeps
<1>6. CASE ListMove \/ Enter \/ Back
  BY <1>6, ListKeeps
<1>7. CASE OpenListPreview \/ CloseListPreview
  BY <1>7, OverlayKeeps
<1>8. CASE TreeMove \/ TreeIn \/ TreeOut
  BY <1>8, TreeKeeps
<1>9. CASE LeavePager
  BY <1>9, LeavePagerKeeps
<1>10. CASE Recrawl
  BY <1>10 DEF Recrawl, ViewInv
<1>11. CASE UNCHANGED viewVars
  BY <1>11 DEF viewVars, ViewInv
<1>12. QED
  BY <1>1, <1>2, <1>3, <1>4, <1>5, <1>6, <1>7, <1>8, <1>9, <1>10, <1>11 DEF ViewNext

-----------------------------------------------------------------------------
(* What is on the screen while no query fails and the index stays.         *)

Calm == RowsOK /\ ~faults /\ rows # {}

\* Fresh, for an app that a handler leaves; and a place that can be loaded.
FreshIn(a, p, path) ==
  IF p = None THEN Sorted(Partitions(rows, a.filters) \cup RootFiles(rows, a.filters),
                          a.sort_mode)
  ELSE Sorted(Directory(rows, p, path, a.filters), a.sort_mode)

Loadable(p) == p # None => Readable(rows, p)

ListFresh(a) ==
  /\ Loadable(a.current_partition)
  /\ a.entries = (IF a.current_partition = None THEN <<>> ELSE <<DotDot>>)
                   \o FreshIn(a, a.current_partition, a.current_path)

ColumnFresh(c, a) == Loadable(c.partition) /\ c.entries = FreshIn(a, c.partition, c.path)
ColumnsFresh(cols, a) == \A i \in DOMAIN cols : ColumnFresh(cols[i], a)
TreeFresh(a) == ColumnsFresh(a.columns, a)

\* A handler of the tree that did not stop half way.
Done(o) == (o.ok \/ o.app.end = "panic") /\ TreeFresh(o.app)

\* A directory among the partitions is a partition of the index.
LEMMA TopDirsAreLoadable ==
  ASSUME RowsOK, NEW a, NEW path, NEW i \in DOMAIN FreshIn(a, None, path),
         FreshIn(a, None, path)[i].is_dir
  PROVE  Readable(rows, FreshIn(a, None, path)[i].name)
<1> DEFINE s == Sorted(Partitions(rows, a.filters) \cup RootFiles(rows, a.filters), a.sort_mode)
           e == s[i]
<1>1. FreshIn(a, None, path) = s
  BY DEF FreshIn
<1>2. e \in Partitions(rows, a.filters) \cup RootFiles(rows, a.filters) /\ e.is_dir
  BY <1>1, ListsAreSeqs
<1> HIDE DEF s, e
<1>3. e \notin RootFiles(rows, a.filters)
  <2>1. \A r : ~Entry(Last(r.path), r.path, FALSE, {r}).is_dir
    BY DEF Entry
  <2>2. QED
    BY <1>2, <2>1 DEF RootFiles
<1>4. PICK q \in {r.partition : r \in {x \in rows : Matches(a.filters, x)}} \ {Root} :
        e = PartitionEntry(rows, q, a.filters)
  BY <1>2, <1>3 DEF Partitions
<1>5. e.name = q
  BY <1>4 DEF PartitionEntry, Entry
<1>6. Readable(rows, q)
  BY DEF Readable, RowsOf
<1>7. QED
  BY <1>1, <1>5, <1>6 DEF e

LEMMA FreshIsSeq ==
  ASSUME RowsOK, NEW a, NEW p, NEW path, IsSeq(path)
  PROVE  IsSeq(FreshIn(a, p, path))
  BY ListsAreSeqs DEF FreshIn

\* Only these fields are on the screen.
SameShown(b, a) ==
  /\ b.entries = a.entries /\ b.columns = a.columns
  /\ b.filters = a.filters /\ b.sort_mode = a.sort_mode
  /\ b.current_partition = a.current_partition /\ b.current_path = a.current_path

LEMMA ShownStaysFresh ==
  ASSUME NEW a, NEW b, SameShown(b, a)
  PROVE  (ListFresh(a) => ListFresh(b)) /\ (TreeFresh(a) => TreeFresh(b))
  BY DEF SameShown, ListFresh, TreeFresh, ColumnsFresh, ColumnFresh, FreshIn

-----------------------------------------------------------------------------
(* What the list shows.                                                    *)

LEMMA LoadPartitionsFresh ==
  ASSUME Calm, NEW a, Shape(a), a.current_partition = None, NEW o \in LoadPartitions(a)
  PROVE  o.ok /\ ListFresh(o.app)
<1> DEFINE all == Partitions(rows, a.filters) \cup RootFiles(rows, a.filters)
           es == Sorted(all, a.sort_mode)
           b == [a EXCEPT !.entries = es]
<1>1. o \in {[ok |-> TRUE, app |-> b]}
  <2> DEFINE After(parts) == QueryRootFiles([a EXCEPT !.entries = Sorted(parts, a.sort_mode)],
                                LAMBDA files :
                                  Ok([a EXCEPT !.entries = Sorted(parts \cup files, a.sort_mode)]))
  <2>1. ~faults /\ PartitionAnswers(a) = {Partitions(rows, a.filters)}
    BY DEF Calm, PartitionAnswers
  <2>2. o \in After(Partitions(rows, a.filters))
    <3> HIDE DEF After
    <3>1. LoadPartitions(a) = Query([a EXCEPT !.entries = <<>>], PartitionAnswers(a), After)
      BY DEF LoadPartitions, After
    <3>2. QED
      BY <2>1, <3>1 DEF Query
  <2>3. [a EXCEPT !.entries = Sorted(Partitions(rows, a.filters), a.sort_mode)].filters = a.filters
    BY DEF Shape, Fields
  <2>4. QED
    BY <2>1, <2>2, <2>3 DEF QueryRootFiles, Ok
<1>2. o.ok /\ o.app = b
  BY <1>1
<1>3. /\ b.entries = es /\ b.filters = a.filters /\ b.sort_mode = a.sort_mode
      /\ b.current_partition = None
  BY DEF Shape, Fields
<1> HIDE DEF b
<1>4. IsSeq(es)
  BY ListsAreSeqs DEF Calm
<1>5. es = FreshIn(b, None, b.current_path)
  BY <1>3 DEF FreshIn
<1> HIDE DEF es
<1>6. <<>> \o es = es
  <2>1. PICK S : es \in Seq(S)
    BY <1>4 DEF IsSeq
  <2>2. QED
    BY <2>1, ConcatEmptySeq
<1>7. QED
  BY <1>2, <1>3, <1>5, <1>6 DEF ListFresh, Loadable

LEMMA ListDirectoryFresh ==
  ASSUME Calm, NEW a, Shape(a), a.current_partition # None, Loadable(a.current_partition),
         NEW o \in ListDirectory(a)
  PROVE  o.ok /\ ListFresh(o.app)
<1> DEFINE p == a.current_partition
           es == Sorted(Directory(rows, p, a.current_path, a.filters), a.sort_mode)
           b == [a EXCEPT !.entries = <<DotDot>> \o es]
<1>1. o \in {[ok |-> TRUE, app |-> b]}
  <2>1. ~faults /\ DirectoryAnswers(a, p, a.current_path) = {es}
    BY DEF Calm, DirectoryAnswers, Loadable
  <2>2. QED
    BY <2>1 DEF ListDirectory, Query, Ok
<1>2. o.ok /\ o.app = b
  BY <1>1
<1>3. /\ b.entries = <<DotDot>> \o es /\ b.filters = a.filters /\ b.sort_mode = a.sort_mode
      /\ b.current_partition = p /\ b.current_path = a.current_path
  BY DEF Shape, Fields
<1> HIDE DEF b
<1>4. es = FreshIn(b, p, b.current_path)
  BY <1>3 DEF FreshIn
<1> HIDE DEF es
<1>5. QED
  BY <1>2, <1>3, <1>4 DEF ListFresh

LEMMA LoadDirectoryFresh ==
  ASSUME Calm, NEW a, Shape(a), a.current_partition # None, Loadable(a.current_partition),
         NEW o \in LoadDirectory(a)
  PROVE  o.ok /\ ListFresh(o.app)
<1>1. CASE a.partition_root # <<>>
  <2>1. o \in ListDirectory(a)
    BY <1>1 DEF LoadDirectory
  <2>2. QED
    BY <2>1, ListDirectoryFresh
<1>2. CASE a.partition_root = <<>>
  <2>1. ~faults /\ PartitionRoots(rows, a.current_partition) # {}
    BY RootsAreFound DEF Calm, Loadable
  <2>2. PICK r : o \in ListDirectory([a EXCEPT !.partition_root = r, !.current_path = r])
    BY <1>2, <2>1 DEF LoadDirectory, Query
  <2> DEFINE b == [a EXCEPT !.partition_root = r, !.current_path = r]
  <2>3. Shape(b) /\ b.current_partition = a.current_partition /\ o \in ListDirectory(b)
    BY <2>2, RootEntered DEF ListLoaded
  <2> HIDE DEF b
  <2>4. QED
    BY <2>3, ListDirectoryFresh
<1>3. QED
  BY <1>1, <1>2

\* The list can be loaded wherever it stands, and any entry then selected.
Loads(a) == IF a.current_partition = None THEN LoadPartitions(a) ELSE LoadDirectory(a)

LEMMA LoadsFresh ==
  ASSUME Calm, NEW a, Shape(a), Loadable(a.current_partition), NEW o \in Loads(a)
  PROVE  /\ o.ok /\ ListFresh(o.app) /\ \A i : ListFresh([o.app EXCEPT !.sel = i])
         /\ Shape(o.app) /\ o.app.view_mode = a.view_mode
<1>1. o.ok /\ ListFresh(o.app)
  BY LoadPartitionsFresh, LoadDirectoryFresh DEF Loads
<1>2. Shape(o.app) /\ o.app.view_mode = a.view_mode
  <2>1. CASE a.current_partition = None
    BY <2>1, LoadPartitionsKeeps DEF Loads, ListLoaded, SameModes
  <2>2. CASE a.current_partition # None
    <3>1. CASE a.partition_root # <<>>
      <4>1. o \in ListDirectory(a)
        BY <2>2, <3>1 DEF Loads, LoadDirectory
      <4>2. QED
        BY <4>1, ListDirectoryKeeps DEF ListLoaded, SameModes
    <3>2. CASE a.partition_root = <<>>
      <4>1. ~faults /\ PartitionRoots(rows, a.current_partition) # {}
        BY <2>2, RootsAreFound DEF Calm, Loadable
      <4>2. PICK r : o \in ListDirectory([a EXCEPT !.partition_root = r, !.current_path = r])
        BY <2>2, <3>2, <4>1 DEF Loads, LoadDirectory, Query
      <4> DEFINE b == [a EXCEPT !.partition_root = r, !.current_path = r]
      <4>3. ListLoaded(b, a) /\ o \in ListDirectory(b)
        BY <4>2, RootEntered
      <4> HIDE DEF b
      <4>4. ListLoaded(o.app, b)
        BY <4>3, ListDirectoryKeeps DEF ListLoaded
      <4>5. QED
        BY <4>3, <4>4 DEF ListLoaded, SameModes
    <3>3. QED
      BY <3>1, <3>2
  <2>3. QED
    BY <2>1, <2>2
<1>3. ASSUME NEW i PROVE ListFresh([o.app EXCEPT !.sel = i])
  <2> DEFINE b == [o.app EXCEPT !.sel = i]
  <2>1. SameShown(b, o.app)
    BY <1>2 DEF Shape, Fields, SameShown
  <2> HIDE DEF b
  <2>2. ListFresh(b)
    BY <1>1, <2>1, ShownStaysFresh
  <2>3. QED
    BY <2>2 DEF b
<1>4. QED
  BY <1>1, <1>2, <1>3

-----------------------------------------------------------------------------
(* What the tree shows.                                                    *)

LEMMA ColumnsStayFresh ==
  ASSUME NEW a, NEW b, NEW cols, ColumnsFresh(cols, a),
         b.filters = a.filters, b.sort_mode = a.sort_mode
  PROVE  ColumnsFresh(cols, b)
  BY DEF ColumnsFresh, ColumnFresh, FreshIn

LEMMA DirectoryColumnFresh ==
  ASSUME Calm, NEW a, Shape(a), IsSeq(a.columns), TreeFresh(a),
         NEW p, p # None, Readable(rows, p), NEW root, NEW path,
         NEW o \in MakeDirectoryColumn(a, p, root, path)
  PROVE  Done(o)
<1> DEFINE es == Sorted(Directory(rows, p, path, a.filters), a.sort_mode)
           c == ColumnOf(p, root, path, es)
           cols == Append(a.columns, c)
           b == [a EXCEPT !.columns = cols]
<1>1. o \in {[ok |-> TRUE, app |-> b]}
  <2>1. ~faults /\ DirectoryAnswers(a, p, path) = {es}
    BY DEF Calm, DirectoryAnswers
  <2>2. [a EXCEPT !.columns = Append(@, c)] = b
    BY DEF Shape, Fields
  <2>3. QED
    BY <2>1, <2>2 DEF MakeDirectoryColumn, Query, Ok
<1>2. o.ok /\ o.app = b
  BY <1>1
<1>3. c.partition = p /\ c.path = path /\ c.entries = es
  BY DEF ColumnOf
<1>4. es = FreshIn(a, p, path)
  BY DEF FreshIn
<1> HIDE DEF c, es
<1>5. ColumnFresh(c, a)
  BY <1>3, <1>4 DEF ColumnFresh, Loadable
<1>6. /\ IsSeq(cols) /\ Len(cols) = Len(a.columns) + 1 /\ cols[Len(a.columns) + 1] = c
      /\ \A i \in 1 .. Len(a.columns) : cols[i] = a.columns[i]
  BY AppendIsSeq
<1> HIDE DEF cols
<1>7. ColumnsFresh(cols, a)
  <2> SUFFICES ASSUME NEW i \in DOMAIN cols PROVE ColumnFresh(cols[i], a)
    BY DEF ColumnsFresh
  <2>1. Len(a.columns) \in Nat /\ i \in 1 .. Len(a.columns) + 1 /\ DOMAIN a.columns = 1 .. Len(a.columns)
    BY <1>6, SeqFacts
  <2>2. CASE i = Len(a.columns) + 1
    BY <1>5, <1>6, <2>2
  <2>3. CASE i # Len(a.columns) + 1
    <3>1. i \in DOMAIN a.columns /\ cols[i] = a.columns[i]
      BY <1>6, <2>1, <2>3
    <3>2. QED
      BY <3>1 DEF TreeFresh, ColumnsFresh
  <2>4. QED
    BY <2>2, <2>3
<1>8. b.columns = cols /\ b.filters = a.filters /\ b.sort_mode = a.sort_mode
  BY ColumnsChange DEF TreeLoaded
<1> HIDE DEF b
<1>9. QED
  BY <1>2, <1>7, <1>8, ColumnsStayFresh DEF Done, TreeFresh

LEMMA PreviewFresh ==
  ASSUME Calm, NEW a0, Shape(a0), a0.active \in Nat \ {0},
         Chain(Truncate(a0.columns, a0.active)), ColumnsFresh(Truncate(a0.columns, a0.active), a0),
         NEW o \in TreeUpdatePreview(a0)
  PROVE  Done(o)
<1> DEFINE a == [a0 EXCEPT !.columns = Truncate(@, a0.active), !.file_preview = None,
                      !.preview_focused = FALSE]
           cols == Truncate(a0.columns, a0.active)
           c == a.columns[a.active]
           e == SelectedIn(c)
<1>1. /\ Shape(a) /\ a.columns = cols /\ a.active = a0.active
      /\ a.filters = a0.filters /\ a.sort_mode = a0.sort_mode
  BY DEF Shape, Fields
<1>2. o \in IF a.active \notin DOMAIN a.columns THEN Panic(a)
            ELSE IF e = None THEN Ok(a)
            ELSE IF ~e.is_dir THEN Ok([a EXCEPT !.file_preview = e])
            ELSE IF c.partition = None THEN MakePartitionRootColumn(a, e.name)
            ELSE MakeDirectoryColumn(a, c.partition, c.partition_root, Append(c.path, e.name))
  BY Zenon DEF TreeUpdatePreview
<1> HIDE DEF a, cols
<1>3. Chain(a.columns) /\ TreeFresh(a)
  BY <1>1, ColumnsStayFresh DEF cols, TreeFresh
<1>4. IsSeq(a.columns)
  BY <1>3 DEF Chain
<1>5. CASE a.active \notin DOMAIN a.columns
  <2>1. o.app = [a EXCEPT !.end = "panic"]
    BY <1>2, <1>5 DEF Panic, Err
  <2>2. SameShown(o.app, a) /\ o.app.end = "panic"
    BY <1>1, <2>1 DEF Shape, Fields, SameShown
  <2>3. QED
    BY <1>3, <2>2, ShownStaysFresh DEF Done
<1>6. CASE a.active \in DOMAIN a.columns /\ e = None
  BY <1>2, <1>3, <1>6 DEF Ok, Done
<1>7. CASE a.active \in DOMAIN a.columns /\ e # None /\ ~e.is_dir
  <2>1. o.ok /\ o.app = [a EXCEPT !.file_preview = e]
    BY <1>2, <1>7 DEF Ok
  <2>2. SameShown(o.app, a)
    BY <1>1, <2>1 DEF Shape, Fields, SameShown
  <2>3. QED
    BY <1>3, <2>1, <2>2, ShownStaysFresh DEF Done
<1>8. CASE a.active \in DOMAIN a.columns /\ e # None /\ e.is_dir
  <2>1. ColumnFresh(c, a)
    BY <1>3, <1>8 DEF TreeFresh, ColumnsFresh
  <2>2. CASE c.partition = None
    <3> DEFINE p == e.name
    <3>1. o \in MakePartitionRootColumn(a, p)
      BY <1>2, <1>8, <2>2
    <3>2. Readable(rows, p)
      <4>1. c.entries = FreshIn(a, None, c.path)
        BY <2>1, <2>2 DEF ColumnFresh
      <4>2. c.sel \in DOMAIN c.entries /\ e = c.entries[c.sel]
        BY <1>8 DEF SelectedIn
      <4> HIDE DEF e, c
      <4>3. c.sel \in DOMAIN FreshIn(a, None, c.path) /\ FreshIn(a, None, c.path)[c.sel].is_dir
              /\ p = FreshIn(a, None, c.path)[c.sel].name
        BY <1>8, <4>1, <4>2
      <4> HIDE DEF p
      <4>4. QED
        BY <4>3, TopDirsAreLoadable DEF Calm
    <3> HIDE DEF p
    <3>3. ~faults /\ PartitionRoots(rows, p) # {}
      BY <3>2, RootsAreFound DEF Calm
    <3>4. PICK r \in PartitionRoots(rows, p) : o \in MakeDirectoryColumn(a, p, r, r)
      BY <3>1, <3>3 DEF MakePartitionRootColumn, Query
    <3>5. p # None
      BY RootsArePaths DEF Calm
    <3>6. QED
      BY <1>1, <1>3, <1>4, <3>2, <3>4, <3>5, DirectoryColumnFresh
  <2>3. CASE c.partition # None
    <3>1. o \in MakeDirectoryColumn(a, c.partition, c.partition_root, Append(c.path, e.name))
      BY <1>2, <1>8, <2>3
    <3>2. Readable(rows, c.partition)
      BY <2>1, <2>3 DEF ColumnFresh, Loadable
    <3>3. QED
      BY <1>1, <1>3, <1>4, <2>3, <3>1, <3>2, DirectoryColumnFresh
  <2>4. QED
    BY <2>2, <2>3
<1>9. QED
  BY <1>5, <1>6, <1>7, <1>8

\* Of columns that are fresh none is changed by cutting the tree short.
LEMMA CutFresh ==
  ASSUME NEW a, Chain(a.columns), TreeFresh(a), NEW n \in Nat \ {0}
  PROVE  Chain(Truncate(a.columns, n)) /\ ColumnsFresh(Truncate(a.columns, n), a)
<1> DEFINE t == Truncate(a.columns, n)
<1>1. /\ Chain(t) /\ Len(t) = IF n < Len(a.columns) THEN n ELSE Len(a.columns)
      /\ \A i \in 1 .. n : i <= Len(a.columns) => t[i] = a.columns[i]
  BY ChainCut
<1> HIDE DEF t
<1>2. /\ DOMAIN t = 1 .. Len(t) /\ DOMAIN a.columns = 1 .. Len(a.columns)
      /\ Len(a.columns) \in Nat
  BY <1>1, SeqFacts DEF Chain
<1>3. \A i \in DOMAIN t : i \in DOMAIN a.columns /\ t[i] = a.columns[i]
  BY <1>1, <1>2
<1>4. ColumnsFresh(t, a)
  BY <1>3 DEF TreeFresh, ColumnsFresh
<1>5. QED
  BY <1>1, <1>4 DEF t

LEMMA PreviewFollowsFresh ==
  ASSUME Calm, NEW a, Shape(a), Chain(a.columns), TreeFresh(a), a.active \in Nat \ {0},
         NEW o \in TreeUpdatePreview(a)
  PROVE  Done(o)
  BY CutFresh, PreviewFresh

\* The same with another entry selected.
LEMMA SelectionFresh ==
  ASSUME Calm, NEW a, Shape(a), Chain(a.columns), TreeFresh(a), a.active \in Nat \ {0},
         a.active \in DOMAIN a.columns, NEW i \in DOMAIN a.columns[a.active].entries,
         NEW o \in TreeUpdatePreview([a EXCEPT !.columns[a.active].sel = i])
  PROVE  Done(o)
<1> DEFINE n == a.active
           b == [a EXCEPT !.columns[n].sel = i]
           d == [a.columns[n] EXCEPT !.sel = i]
<1>1. n \in DOMAIN a.columns /\ n \in Nat \ {0} /\ i \in DOMAIN a.columns[n].entries
  OBVIOUS
<1>2. o \in TreeUpdatePreview(b)
  OBVIOUS
<1>3. /\ b.columns = [a.columns EXCEPT ![n] = d]
      /\ b.filters = a.filters /\ b.sort_mode = a.sort_mode
  BY DEF Shape, Fields
<1>4. /\ d.partition = a.columns[n].partition /\ d.path = a.columns[n].path
      /\ d.entries = a.columns[n].entries
  <2>1. DOMAIN a.columns[n] = ColumnFields
    BY DEF Chain, ColumnOK
  <2>2. QED
    BY <2>1 DEF ColumnFields
<1> HIDE DEF n, d, b
<1>5. /\ TreeLoaded(b, a) /\ b.active = a.active
      /\ Chain(Truncate(b.columns, n)) /\ Len(Truncate(b.columns, n)) = n
  BY <1>1, SelectionMoves DEF b
<1>6. ColumnsFresh(b.columns, b)
  <2>1. DOMAIN b.columns = DOMAIN a.columns
    BY <1>3
  <2>2. ASSUME NEW j \in DOMAIN b.columns PROVE ColumnFresh(b.columns[j], a)
    <3>1. ColumnFresh(a.columns[j], a)
      BY <2>1 DEF TreeFresh, ColumnsFresh
    <3>2. CASE j = n
      BY <1>1, <1>3, <1>4, <3>1, <3>2 DEF ColumnFresh
    <3>3. CASE j # n
      BY <1>3, <2>1, <3>1, <3>3
    <3>4. QED
      BY <3>2, <3>3
  <2>3. ColumnsFresh(b.columns, a)
    BY <2>2 DEF ColumnsFresh
  <2>4. QED
    BY <1>3, <2>3, ColumnsStayFresh
<1>7. ColumnsFresh(Truncate(b.columns, n), b)
  <2>1. IsSeq(b.columns) /\ Len(b.columns) \in Nat /\ DOMAIN b.columns = 1 .. Len(b.columns)
    <3>1. b.columns \in [1 .. Len(a.columns) -> Range(a.columns) \cup {d}]
      <4>1. a.columns \in [1 .. Len(a.columns) -> Range(a.columns)]
        BY SeqFacts DEF Chain
      <4>2. QED
        BY <1>3, <4>1
    <3>2. \A m \in Nat : \A S0, q : q \in [1 .. m -> S0] => q \in Seq(S0)
      OBVIOUS
    <3>3. Len(a.columns) \in Nat
      BY SeqFacts DEF Chain
    <3>4. IsSeq(b.columns)
      BY <3>1, <3>2, <3>3, Zenon DEF IsSeq
    <3>5. QED
      BY <3>4, SeqFacts
  <2>2. \A j \in DOMAIN Truncate(b.columns, n) :
          j \in DOMAIN b.columns /\ Truncate(b.columns, n)[j] = b.columns[j]
    <3>1. CASE n < Len(b.columns)
      <4>1. n \in 0 .. Len(b.columns)
        BY <1>1, <2>1, <3>1
      <4> DEFINE u == SubSeq(b.columns, 1, n)
      <4>2. IsSeq(u) /\ Len(u) = n /\ \A j \in 1 .. n : u[j] = b.columns[j]
        BY <2>1, <4>1, SubSeqIsSeq
      <4>3. Truncate(b.columns, n) = u
        BY <3>1 DEF Truncate
      <4> HIDE DEF u
      <4>4. DOMAIN u = 1 .. n
        BY <4>2, SeqFacts
      <4>5. QED
        BY <1>1, <2>1, <3>1, <4>2, <4>3, <4>4
    <3>2. CASE ~(n < Len(b.columns))
      BY <3>2 DEF Truncate
    <3>3. QED
      BY <3>1, <3>2
  <2>3. QED
    BY <1>6, <2>2 DEF ColumnsFresh
<1>8. b.active = n
  BY <1>5 DEF n
<1>9. QED
  BY <1>1, <1>2, <1>5, <1>7, <1>8, PreviewFresh DEF TreeLoaded

LEMMA StartTreeFresh ==
  ASSUME Calm, NEW a0, Shape(a0), NEW o \in StartTree(a0)
  PROVE  o.ok /\ TreeFresh(o.app)
<1> DEFINE a == [a0 EXCEPT !.columns = <<>>, !.active = 1]
           all == Partitions(rows, a.filters) \cup RootFiles(rows, a.filters)
           c == ColumnOf(None, <<>>, <<>>, Sorted(all, a.sort_mode))
           b == [a EXCEPT !.columns = <<c>>]
           With(x) == Ok([a EXCEPT !.columns = <<x>>])
           After(parts) == QueryRootFiles(a, LAMBDA files :
             With(ColumnOf(None, <<>>, <<>>, Sorted(parts \cup files, a.sort_mode))))
<1>1. Shape(a)
  BY DEF Shape, Fields
<1>2. o \in With(c)
  <2>1. o \in MakePartitionColumn(a, With)
    BY Zenon DEF StartTree
  <2> HIDE DEF a, With
  <2>2. ~faults /\ PartitionAnswers(a) = {Partitions(rows, a.filters)}
    BY DEF Calm, PartitionAnswers
  <2>3. o \in After(Partitions(rows, a.filters))
    <3> HIDE DEF After
    <3>1. MakePartitionColumn(a, With) = Query(a, PartitionAnswers(a), After)
      BY DEF MakePartitionColumn, After
    <3>2. QED
      BY <2>1, <2>2, <3>1 DEF Query
  <2>4. QED
    BY <2>2, <2>3 DEF QueryRootFiles
<1> HIDE DEF a
<1>3. o.ok /\ o.app = b
  BY <1>2 DEF Ok
<1>4. ColumnFresh(c, a)
  BY DEF ColumnOf, ColumnFresh, Loadable, FreshIn
<1> HIDE DEF c
<1> DEFINE cols == <<c>>
<1>5. ColumnsFresh(cols, a)
  <2>1. DOMAIN cols = {1} /\ cols[1] = c
    OBVIOUS
  <2> HIDE DEF cols
  <2>2. QED
    BY <1>4, <2>1 DEF ColumnsFresh
<1> HIDE DEF cols
<1>6. b.columns = cols /\ b.filters = a.filters /\ b.sort_mode = a.sort_mode
  BY <1>1 DEF Shape, Fields, cols
<1> HIDE DEF b
<1>7. QED
  BY <1>3, <1>5, <1>6, ColumnsStayFresh DEF TreeFresh

LEMMA InitTreeFresh ==
  ASSUME Calm, NEW a, Shape(a), NEW o \in InitTree(a)
  PROVE  Done(o)
<1>1. PICK s \in StartTree(a) : (s.ok /\ o \in TreeUpdatePreview(s.app)) \/ (~s.ok /\ o = s)
  BY DEF InitTree, Then
<1>2. s.ok /\ TreeFresh(s.app)
  BY StartTreeFresh
<1>3. Shape(s.app) /\ s.app.active = 1 /\ Chain(s.app.columns)
  BY <1>2, StartTreeMakes, ChainStarts DEF Calm, TreeLoaded
<1>4. QED
  BY <1>1, <1>2, <1>3, PreviewFollowsFresh

-----------------------------------------------------------------------------
(* What the tree shows that is opened from the list.                       *)

LEMMA WalkStepFresh ==
  ASSUME Calm, NEW a, NEW outcomes, \A s \in outcomes : WalkOK(s, a) /\ Done(s),
         NEW name, NEW o \in WalkStep(outcomes, name)
  PROVE  WalkOK(o, a) /\ Done(o)
<1> DEFINE Step(s) ==
             IF ~s.ok \/ s.app.end = "walked" THEN {s}
             ELSE IF s.app.active \notin DOMAIN s.app.columns THEN Panic(s.app)
             ELSE LET b == s.app
                      i == IndexOf(b.columns[b.active].entries, name)
                  IN  IF i = 0 THEN Ok([b EXCEPT !.end = "walked"])
                      ELSE Then(TreeUpdatePreview([b EXCEPT !.columns[b.active].sel = i]),
                             LAMBDA x : Ok([x EXCEPT !.active =
                               IF @ < Len(x.columns) THEN @ + 1 ELSE @]))
<1>1. PICK s \in outcomes : o \in Step(s)
  BY DEF WalkStep
<1>2. WalkOK(s, a) /\ Done(s) /\ WalkOK(o, a)
  BY WalkStepKeeps DEF Calm
<1> DEFINE b == s.app
           i == IndexOf(b.columns[b.active].entries, name)
<1>3. Shape(b) /\ Chain(b.columns) /\ b.active \in Nat \ {0} /\ TreeFresh(b)
  BY <1>2 DEF WalkOK, TreeLoaded, Done
<1>4. CASE ~s.ok \/ b.end = "walked"
  BY <1>1, <1>2, <1>4
<1>5. ASSUME NEW e, o.app = [b EXCEPT !.end = e], o.ok \/ e = "panic" PROVE Done(o)
  <2>1. SameShown(o.app, b) /\ o.app.end = e
    BY <1>3, <1>5 DEF Shape, Fields, SameShown
  <2>2. QED
    BY <1>3, <1>5, <2>1, ShownStaysFresh DEF Done
<1>6. CASE s.ok /\ b.end # "walked" /\ b.active \notin DOMAIN b.columns
  BY <1>1, <1>2, <1>5, <1>6 DEF Panic, Err
<1>7. CASE s.ok /\ b.end # "walked" /\ b.active \in DOMAIN b.columns /\ i = 0
  <2> HIDE DEF i
  <2>1. o \in Ok([b EXCEPT !.end = "walked"])
    BY <1>1, <1>7 DEF i
  <2>2. o.ok /\ o.app = [b EXCEPT !.end = "walked"]
    BY <2>1 DEF Ok
  <2>3. QED
    BY <1>2, <1>5, <2>2
<1>8. CASE s.ok /\ b.end # "walked" /\ b.active \in DOMAIN b.columns /\ i # 0
  <2>1. PICK t \in TreeUpdatePreview([b EXCEPT !.columns[b.active].sel = i]) :
          (t.ok /\ o \in Ok([t.app EXCEPT !.active =
                               IF @ < Len(t.app.columns) THEN @ + 1 ELSE @]))
          \/ (~t.ok /\ o = t)
    BY <1>1, <1>8 DEF Then
  <2>2. i \in DOMAIN b.columns[b.active].entries
    BY <1>3, <1>8, IndexIsIn DEF Chain, ColumnOK
  <2> HIDE DEF i
  <2>3. Done(t)
    BY <1>3, <1>8, <2>1, <2>2, SelectionFresh
  <2>4. CASE ~t.ok
    BY <1>2, <2>1, <2>3, <2>4
  <2>5. CASE t.ok
    <3>1. o.ok /\ \E n : o.app = [t.app EXCEPT !.active = n]
      BY <2>1, <2>5 DEF Ok
    <3>2. PICK n : o.app = [t.app EXCEPT !.active = n]
      BY <3>1
    <3>3. o.app.columns = t.app.columns /\ o.app.filters = t.app.filters
            /\ o.app.sort_mode = t.app.sort_mode
      BY <3>2
    <3>4. QED
      BY <1>2, <2>3, <3>1, <3>3, ColumnsStayFresh DEF Done, TreeFresh
  <2>6. QED
    BY <2>4, <2>5
<1>9. QED
  BY <1>2, <1>4, <1>6, <1>7, <1>8

LEMMA WalkFresh ==
  ASSUME Calm, NEW a, NEW names, Len(names) \in Nat, \A s \in Ok(a) : WalkOK(s, a) /\ Done(s),
         NEW o \in WalkDown(a, names)
  PROVE  WalkOK(o, a) /\ Done(o)
<1>1. PICK reached :
        /\ WalkDown(a, names) = reached[Len(names)]
        /\ \A k \in 0 .. Len(names) :
             reached[k] = IF k = 0 THEN Ok(a) ELSE WalkStep(reached[k - 1], names[k])
  BY WalkUnfolds
<1> DEFINE Bad == {k \in 0 .. Len(names) : ~\A s \in reached[k] : WalkOK(s, a) /\ Done(s)}
<1>2. Bad = {}
  <2> SUFFICES ASSUME Bad # {} PROVE FALSE
    OBVIOUS
  <2>1. PICK k \in Bad : \A x \in Bad : k <= x
    <3>1. Bad \in SUBSET Nat
      OBVIOUS
    <3>2. QED
      BY <3>1, NatMin
  <2>2. k \in 0 .. Len(names) /\ ~\A s \in reached[k] : WalkOK(s, a) /\ Done(s)
    OBVIOUS
  <2>3. CASE k = 0
    BY <1>1, <2>2, <2>3
  <2>4. CASE k # 0
    <3>1. k - 1 \in 0 .. Len(names) /\ k - 1 \notin Bad
      BY <2>1, <2>2, <2>4
    <3>2. \A s \in reached[k - 1] : WalkOK(s, a) /\ Done(s)
      BY <3>1
    <3>3. reached[k] = WalkStep(reached[k - 1], names[k])
      BY <1>1, <2>2, <2>4
    <3>4. \A s \in reached[k] : WalkOK(s, a) /\ Done(s)
      BY <3>2, <3>3, WalkStepFresh
    <3>5. QED
      BY <2>2, <3>4
  <2>5. QED
    BY <2>3, <2>4
<1>3. QED
  BY <1>1, <1>2

LEMMA WalkToFresh ==
  ASSUME Calm, NEW a, Shape(a), Chain(a.columns), a.active \in Nat \ {0}, TreeFresh(a),
         a.end = "no", ~a.preview_focused, IsSeq(a.partition_root),
         NEW path, IsSeq(path), NEW o \in WalkTo(a, path)
  PROVE  Done(o)
<1> DEFINE names == Below(a.partition_root, path)
<1>1. Len(names) \in Nat
  BY BelowIsSeq
<1> HIDE DEF names
<1>2. \A s \in Ok(a) : WalkOK(s, a) /\ Done(s)
  BY DEF Ok, WalkOK, Done, TreeLoaded, SameModes, SamePlace
<1>3. PICK s \in WalkDown(a, names) :
        (s.ok /\ o \in Ok([s.app EXCEPT !.end = "no"])) \/ (~s.ok /\ o = s)
  BY DEF WalkTo, Then, names
<1>4. Done(s)
  BY <1>1, <1>2, WalkFresh
<1>5. CASE ~s.ok
  BY <1>3, <1>4, <1>5
<1>6. CASE s.ok
  <2>1. o.ok /\ o.app = [s.app EXCEPT !.end = "no"]
    BY <1>3, <1>6 DEF Ok
  <2>2. o.app.columns = s.app.columns /\ o.app.filters = s.app.filters
          /\ o.app.sort_mode = s.app.sort_mode
    BY <2>1
  <2>3. QED
    BY <1>4, <2>1, <2>2, ColumnsStayFresh DEF Done, TreeFresh
<1>7. QED
  BY <1>5, <1>6

\* The partition of the list is selected, where there is one, and opened.
LEMMA PartitionOpensFresh ==
  ASSUME Calm, NEW a, Shape(a), Chain(a.columns), TreeFresh(a), Len(a.columns) = 1,
         a.active = 1, a.end = "no", NEW n,
         NEW t \in TreeUpdatePreview(IF IndexOf(a.columns[1].entries, n) = 0 THEN a
                     ELSE [a EXCEPT !.columns[1].sel = IndexOf(a.columns[1].entries, n)])
  PROVE  Done(t) /\ Chain(t.app.columns) /\ TreeLoaded(t.app, a) /\ (t.ok => t.app.end = "no")
         /\ ~t.app.preview_focused
<1> DEFINE i == IndexOf(a.columns[1].entries, n)
<1>1. 1 \in DOMAIN a.columns /\ ColumnOK(a.columns[1]) /\ a.active \in Nat \ {0}
  BY SeqFacts DEF Chain
<1>2. CASE i = 0
  <2>1. t \in TreeUpdatePreview(a)
    BY <1>2
  <2>2. Done(t)
    BY <1>1, <2>1, PreviewFollowsFresh
  <2>3. Reached(t, a)
    BY <1>1, <2>1, PreviewFollows DEF Calm
  <2>4. QED
    BY <2>2, <2>3 DEF Reached
<1>3. CASE i # 0
  <2>1. i \in DOMAIN a.columns[1].entries
    BY <1>1, <1>3, IndexIsIn DEF ColumnOK
  <2>2. t \in TreeUpdatePreview([a EXCEPT !.columns[1].sel = i])
    BY <1>3
  <2> HIDE DEF i
  <2>3. PICK j : j = i
    OBVIOUS
  <2>4. PICK k : k = 1
    OBVIOUS
  <2> DEFINE b == [a EXCEPT !.columns[k].sel = j]
  <2>5. k \in DOMAIN a.columns /\ j \in DOMAIN a.columns[k].entries
    BY <1>1, <2>1, <2>3, <2>4
  <2>6. t \in TreeUpdatePreview(b) /\ k = a.active /\ k \in Nat \ {0}
    BY <2>2, <2>3, <2>4
  <2>7. Done(t)
    <3>1. /\ a.active \in DOMAIN a.columns /\ j \in DOMAIN a.columns[a.active].entries
          /\ t \in TreeUpdatePreview([a EXCEPT !.columns[a.active].sel = j])
      BY <2>5, <2>6, Zenon
    <3>2. QED
      BY <1>1, <3>1, SelectionFresh
  <2>8. /\ TreeLoaded(b, a) /\ b.active = a.active /\ b.end = a.end
        /\ b.preview_focused = a.preview_focused
        /\ Chain(Truncate(b.columns, k)) /\ Len(Truncate(b.columns, k)) = k
    BY <2>5, SelectionMoves
  <2> HIDE DEF b
  <2>9. Chain(Truncate(b.columns, b.active)) /\ Len(Truncate(b.columns, b.active)) <= b.active
    <3>1. b.active = k
      BY <2>6, <2>8
    <3>2. \A y, z : y = z /\ z \in Nat => y <= z
      OBVIOUS
    <3>3. Len(Truncate(b.columns, k)) <= k
      BY <2>6, <2>8, <3>2
    <3>4. QED
      BY <2>8, <3>1, <3>3, Zenon
  <2>10. Reached(t, b)
    BY <2>6, <2>8, <2>9, PreviewUpdates DEF TreeLoaded, Calm
  <2>11. QED
    BY <2>7, <2>8, <2>10, TreeLoadedTrans DEF Reached
<1>4. QED
  BY <1>2, <1>3

LEMMA FromListPositionFresh ==
  ASSUME Calm, NEW a0, Shape(a0), PathOK(a0), a0.end = "no", ~a0.preview_focused,
         NEW o \in InitTreeFromListPosition(a0)
  PROVE  TreeFresh(o.app)
<1> DEFINE First(a) == LET i == IndexOf(a.columns[1].entries, a.current_partition)
                       IN  IF i = 0 THEN a ELSE [a EXCEPT !.columns[1].sel = i]
           Walk(x) == Then(WalkTo([x EXCEPT !.active = 2], x.current_path), TreeUpdatePreview)
           Rest(a) == IF a.current_partition = None THEN TreeUpdatePreview(a)
                      ELSE Then(TreeUpdatePreview(First(a)), Walk)
<1>1. PICK s \in StartTree(a0) : (s.ok /\ o \in Rest(s.app)) \/ (~s.ok /\ o = s)
  BY DEF InitTreeFromListPosition, Then
<1> DEFINE a == s.app
<1>2. s.ok /\ TreeFresh(a)
  BY StartTreeFresh
<1>3. /\ TreeLoaded(a, a0) /\ a.active = 1 /\ a.end = "no" /\ Shape(a)
      /\ Chain(a.columns) /\ Len(a.columns) = 1
  BY <1>2, StartTreeMakes, ChainStarts DEF TreeLoaded, Calm
<1>4. o \in Rest(a)
  BY <1>1, <1>2
<1> HIDE DEF a
<1>5. CASE a.current_partition = None
  <2>1. o \in TreeUpdatePreview(a)
    BY <1>4, <1>5
  <2>2. QED
    BY <1>2, <1>3, <2>1, PreviewFollowsFresh DEF Done
<1>6. CASE a.current_partition # None
  <2>1. o \in Then(TreeUpdatePreview(First(a)), Walk)
    BY <1>4, <1>6
  <2> HIDE DEF Walk
  <2>2. PICK t \in TreeUpdatePreview(First(a)) :
          (t.ok /\ o \in Walk(t.app)) \/ (~t.ok /\ o = t)
    BY <2>1 DEF Then
  <2>3. /\ Done(t) /\ Chain(t.app.columns) /\ TreeLoaded(t.app, a)
        /\ (t.ok => t.app.end = "no") /\ ~t.app.preview_focused
    BY <1>2, <1>3, PartitionOpensFresh
  <2> HIDE DEF First
  <2>4. CASE ~t.ok
    BY <2>2, <2>3, <2>4 DEF Done
  <2>5. CASE t.ok
    <3> DEFINE x == [t.app EXCEPT !.active = 2]
    <3>1. /\ TreeLoaded(x, t.app) /\ x.columns = t.app.columns /\ x.active = 2
          /\ x.end = "no" /\ ~x.preview_focused
      BY <2>3, <2>5, ActiveChanges DEF TreeLoaded
    <3>2. PICK w \in WalkTo(x, t.app.current_path) :
            (w.ok /\ o \in TreeUpdatePreview(w.app)) \/ (~w.ok /\ o = w)
      BY <2>2, <2>5 DEF Walk, Then
    <3> HIDE DEF x
    <3>3. /\ Shape(x) /\ Chain(x.columns)
          /\ IsSeq(x.partition_root) /\ IsSeq(t.app.current_path)
      BY <1>3, <2>3, <3>1 DEF TreeLoaded, SamePlace, PathOK
    <3>4. TreeFresh(x)
      BY <2>3, <3>1, ColumnsStayFresh DEF Done, TreeFresh, TreeLoaded
    <3>5. Done(w)
      BY <3>1, <3>2, <3>3, <3>4, WalkToFresh
    <3>6. WalkOK(w, x)
      BY <3>1, <3>2, <3>3, WalkToKeeps DEF Calm
    <3>7. CASE ~w.ok
      BY <3>2, <3>5, <3>7 DEF Done
    <3>8. CASE w.ok
      BY <3>2, <3>5, <3>6, <3>8, PreviewFollowsFresh DEF Done, WalkOK, TreeLoaded
    <3>9. QED
      BY <3>7, <3>8
  <2>6. QED
    BY <2>4, <2>5
<1>7. QED
  BY <1>5, <1>6

-----------------------------------------------------------------------------
(* What the handlers show.                                                 *)

Shown(a) == IF a.view_mode = "List" THEN ListFresh(a) ELSE TreeFresh(a)
Current(a) == a.view_mode \in {"List", "Tree"} /\ (a.end = "no" => Shown(a))

LEMMA ReloadFresh ==
  ASSUME Calm, NEW a, AppOK(a), a.view_mode \in {"List", "Tree"},
         a.view_mode = "List" => Loadable(a.current_partition), NEW o \in Reload(a)
  PROVE  Current(o.app)
<1>1. o.app.view_mode = a.view_mode
  BY ReloadKeeps DEF Handled, SameModes, Calm
<1>2. CASE a.view_mode = "Tree"
  <2>1. o \in InitTree(a)
    BY <1>2 DEF Reload
  <2>2. QED
    BY <1>1, <1>2, <2>1, InitTreeFresh DEF Done, AppOK, Current, Shown
<1>3. CASE a.view_mode = "List"
  <2>1. PICK x \in Loads(a) : (x.ok /\ o \in Ok(Clamp(x.app))) \/ (~x.ok /\ o = x)
    BY <1>3 DEF Reload, Then, Loads
  <2>2. x.ok /\ \A i : ListFresh([x.app EXCEPT !.sel = i])
    BY <1>3, LoadsFresh DEF AppOK
  <2>3. o.app = Clamp(x.app)
    BY <2>1, <2>2 DEF Ok
  <2>4. \E i : Clamp(x.app) = [x.app EXCEPT !.sel = i]
    BY DEF Clamp
  <2>5. ListFresh(o.app)
    BY <2>2, <2>3, <2>4
  <2>6. QED
    BY <1>1, <1>3, <2>5 DEF Current, Shown
<1>4. QED
  BY <1>2, <1>3

\* The list is loaded at another place, and its first entry selected.
LEMMA ArrivesFresh ==
  ASSUME Calm, NEW c, Shape(c), Loadable(c.current_partition), NEW x \in Loads(c),
         NEW o, (x.ok /\ o \in Ok([x.app EXCEPT !.sel = 1])) \/ (~x.ok /\ o = x)
  PROVE  ListFresh(o.app)
<1>1. x.ok /\ ListFresh([x.app EXCEPT !.sel = 1])
  BY LoadsFresh
<1>2. o.app = [x.app EXCEPT !.sel = 1]
  BY <1>1 DEF Ok
<1>3. QED
  BY <1>1, <1>2

LEMMA GoUpFresh ==
  ASSUME Calm, NEW a, AppOK(a), ListFresh(a), NEW o \in GoUp(a)
  PROVE  ListFresh(o.app)
<1>1. CASE a.current_partition = None
  <2>1. o \in Ok(a)
    BY <1>1 DEF GoUp
  <2>2. QED
    BY <2>1 DEF Ok
<1>2. CASE a.current_partition # None /\ a.current_path \in {a.partition_root, <<>>}
  <2> DEFINE c == [a EXCEPT !.current_partition = None, !.partition_root = <<>>,
                            !.current_path = <<>>]
  <2>1. Shape(c) /\ c.current_partition = None
    BY DEF AppOK, Shape, Fields
  <2>2. PICK x \in LoadPartitions(c) :
          (x.ok /\ o \in Ok([x.app EXCEPT !.sel = 1])) \/ (~x.ok /\ o = x)
    BY <1>2 DEF GoUp, Then
  <2> HIDE DEF c
  <2>3. x \in Loads(c) /\ Loadable(c.current_partition)
    BY <2>1, <2>2 DEF Loads, Loadable
  <2>4. QED
    BY <2>1, <2>2, <2>3, ArrivesFresh
<1>3. CASE a.current_partition # None /\ a.current_path \notin {a.partition_root, <<>>}
  <2> DEFINE c == [a EXCEPT !.current_path = Front(@)]
  <2>1. Shape(c) /\ c.current_partition = a.current_partition
    BY DEF AppOK, Shape, Fields
  <2>2. PICK x \in LoadDirectory(c) :
          (x.ok /\ o \in Ok([x.app EXCEPT !.sel = 1])) \/ (~x.ok /\ o = x)
    BY <1>3 DEF GoUp, Then
  <2> HIDE DEF c
  <2>3. x \in Loads(c) /\ Loadable(c.current_partition)
    BY <1>3, <2>1, <2>2 DEF Loads, ListFresh
  <2>4. QED
    BY <2>1, <2>2, <2>3, ArrivesFresh
<1>4. QED
  BY <1>1, <1>2, <1>3

LEMMA EnterFresh ==
  ASSUME Calm, NEW a, AppOK(a), ListFresh(a), NEW o \in EnterSelected(a)
  PROVE  o.app.end = "panic" \/ ListFresh(o.app)
<1> DEFINE e == a.entries[a.sel]
           c == IF a.current_partition = None
                THEN [a EXCEPT !.current_partition = e.name, !.partition_root = <<>>,
                               !.current_path = <<>>]
                ELSE [a EXCEPT !.current_path = Append(@, e.name)]
<1>1. CASE o \in Ok(a)
  BY <1>1 DEF Ok
<1>2. CASE o \in Panic(a)
  BY <1>2 DEF Panic, Err, AppOK, Shape, Fields
<1>3. CASE o \in GoUp(a)
  BY <1>3, GoUpFresh
<1>4. CASE /\ a.sel \in DOMAIN a.entries /\ e.is_dir
           /\ \E x \in LoadDirectory(c) :
                (x.ok /\ o \in Ok([x.app EXCEPT !.sel = 1])) \/ (~x.ok /\ o = x)
  <2>1. Shape(a)
    BY DEF AppOK
  <2>2. CASE a.current_partition = None
    <3> DEFINE p == e.name
    <3>1. p # None /\ Readable(rows, p)
      <4>1. a.entries = FreshIn(a, None, a.current_path)
        <5>1. a.entries = <<>> \o FreshIn(a, None, a.current_path)
          BY <2>2 DEF ListFresh
        <5>2. PICK S : FreshIn(a, None, a.current_path) \in Seq(S)
          BY ListsAreSeqs DEF FreshIn, IsSeq, Calm
        <5>3. QED
          BY <5>1, <5>2, ConcatEmptySeq
      <4>2. Readable(rows, p)
        BY <1>4, <4>1, TopDirsAreLoadable DEF Calm
      <4>3. QED
        BY <4>2, RootsAreFound, RootsArePaths DEF Calm
    <3> HIDE DEF p
    <3>2. c = [a EXCEPT !.current_partition = p, !.partition_root = <<>>, !.current_path = <<>>]
      BY <2>2 DEF p
    <3> HIDE DEF c
    <3>3. Shape(c) /\ c.current_partition = p
      BY <2>1, <3>2 DEF Shape, Fields
    <3>4. Loads(c) = LoadDirectory(c) /\ Loadable(c.current_partition)
      BY <3>1, <3>3 DEF Loads, Loadable
    <3>5. QED
      BY <1>4, <3>3, <3>4, ArrivesFresh
  <2>3. CASE a.current_partition # None
    <3> DEFINE n == e.name
    <3> HIDE DEF n
    <3>1. c = [a EXCEPT !.current_path = Append(@, n)]
      BY <2>3 DEF n
    <3> HIDE DEF c
    <3>2. Shape(c) /\ c.current_partition = a.current_partition
      BY <2>1, <3>1 DEF Shape, Fields
    <3>3. Loads(c) = LoadDirectory(c) /\ Loadable(c.current_partition)
      BY <2>3, <3>2 DEF Loads, ListFresh
    <3>4. QED
      BY <1>4, <3>2, <3>3, ArrivesFresh
  <2>4. QED
    BY <2>2, <2>3
<1>5. QED
  BY <1>1, <1>2, <1>3, <1>4 DEF EnterSelected, Then

LEMMA TreeMovesFresh ==
  ASSUME Calm, NEW a, AppOK(a), a.end = "no", TreeFresh(a), NEW o \in TreeMoves(a)
  PROVE  TreeFresh(o.app)
<1> DEFINE c == a.columns[a.active]
<1>1. Shape(a) /\ Chain(a.columns) /\ a.active \in Nat \ {0}
  BY DEF AppOK, ActiveOK
<1>2. CASE o \in Ok(a)
  BY <1>2 DEF Ok
<1>3. CASE o \in TreeUpdatePreview(a)
  BY <1>1, <1>3, PreviewFollowsFresh DEF Done
<1>4. CASE a.columns # <<>> /\ c.entries # <<>>
           /\ \E i \in Moved(c.sel, Len(c.entries)) : o \in TreeSelect(a, i)
  <2>1. PICK i \in Moved(c.sel, Len(c.entries)) : o \in TreeSelect(a, i)
    BY <1>4
  <2>2. a.active \in DOMAIN a.columns
    BY <1>4 DEF AppOK, ActiveOK
  <2>3. c.sel \in DOMAIN c.entries /\ IsSeq(c.entries)
    BY <1>1, <1>4, <2>2 DEF Chain, ColumnOK, SelectionOK
  <2>4. i \in DOMAIN c.entries
    BY <2>1, <2>3, SeqFacts, MovesStayIn
  <2>5. o \in TreeUpdatePreview([a EXCEPT !.columns[a.active].sel = i])
    BY <2>1 DEF TreeSelect
  <2>6. QED
    BY <1>1, <2>2, <2>4, <2>5, SelectionFresh DEF Done
<1>5. QED
  BY <1>2, <1>3, <1>4 DEF TreeMoves

LEMMA TreeRightFresh ==
  ASSUME Calm, NEW a, AppOK(a), TreeFresh(a), NEW o \in TreeRight(a)
  PROVE  TreeFresh(o.app)
<1>1. CASE o \in Ok(a)
  BY <1>1 DEF Ok
<1>2. CASE o \in TreeUpdatePreview([a EXCEPT !.active = @ + 1])
  <2> DEFINE n == a.active + 1
             b == [a EXCEPT !.active = n]
  <2>1. Shape(a) /\ Chain(a.columns) /\ n \in Nat \ {0}
    BY DEF AppOK, ActiveOK
  <2>2. o \in TreeUpdatePreview(b)
    <3>1. [a EXCEPT !.active = @ + 1] = b
      OBVIOUS
    <3>2. QED
      BY <1>2, <3>1
  <2> HIDE DEF n
  <2>3. TreeLoaded(b, a) /\ b.columns = a.columns /\ b.active = n
    BY <2>1, ActiveChanges
  <2> HIDE DEF b
  <2>4. TreeFresh(b)
    BY <2>3, ColumnsStayFresh DEF TreeFresh, TreeLoaded
  <2>5. QED
    BY <2>1, <2>2, <2>3, <2>4, PreviewFollowsFresh DEF TreeLoaded, Done
<1>3. QED
  BY <1>1, <1>2 DEF TreeRight

LEMMA TreeLeftFresh ==
  ASSUME NEW a, AppOK(a), TreeFresh(a), NEW o \in TreeLeft(a)
  PROVE  TreeFresh(o.app)
<1>1. CASE ~(a.active > 1)
  <2>1. o \in Ok(a)
    BY <1>1 DEF TreeLeft
  <2>2. QED
    BY <2>1 DEF Ok
<1>2. CASE a.active > 1
  <2> DEFINE cols == Truncate(a.columns, a.active)
             b == [a EXCEPT !.active = @ - 1, !.columns = Truncate(@, a.active)]
  <2>1. o \in Ok(b)
    BY <1>2 DEF TreeLeft
  <2>2. b.columns = cols /\ b.filters = a.filters /\ b.sort_mode = a.sort_mode
    BY DEF AppOK, Shape, Fields
  <2> HIDE DEF b, cols
  <2>3. ColumnsFresh(cols, a)
    BY CutFresh DEF AppOK, ActiveOK, cols
  <2>4. o.app = b
    BY <2>1 DEF Ok
  <2>5. QED
    BY <2>2, <2>3, <2>4, ColumnsStayFresh DEF TreeFresh
<1>3. QED
  BY <1>1, <1>2

LEMMA RestoreFresh ==
  ASSUME Calm, NEW a, AppOK(a), TreeFresh(a), NEW o \in RestoreListFromTreePosition(a)
  PROVE  o.app.end = "panic" \/ ListFresh(o.app)
<1> DEFINE c == IF a.columns = <<>> THEN ColumnOf(None, <<>>, <<>>, <<>>)
                ELSE a.columns[a.active]
           e == SelectedIn(c)
           b == [a EXCEPT !.current_partition = c.partition,
                          !.partition_root = c.partition_root, !.current_path = c.path]
           j(x) == IF e = None THEN 0 ELSE IndexOf(x.entries, e.name)
<1>1. CASE a.columns # <<>> /\ a.active \notin DOMAIN a.columns
  <2>1. o \in Panic(a)
    BY <1>1 DEF RestoreListFromTreePosition
  <2>2. QED
    BY <2>1 DEF Panic, Err, AppOK, Shape, Fields
<1>2. CASE a.columns = <<>> \/ a.active \in DOMAIN a.columns
  <2>1. o \in Then(IF b.current_partition = None THEN LoadPartitions(b) ELSE LoadDirectory(b),
                   LAMBDA x : Ok(Select(x, IF j(x) = 0 THEN 1 ELSE j(x))))
    BY <1>2, Zenon DEF RestoreListFromTreePosition
  <2>2. Loadable(c.partition)
    <3>1. CASE a.columns = <<>>
      BY <3>1 DEF ColumnOf, Loadable
    <3>2. CASE a.columns # <<>>
      BY <1>2, <3>2 DEF TreeFresh, ColumnsFresh, ColumnFresh
    <3>3. QED
      BY <3>1, <3>2
  <2>3. Shape(b) /\ b.current_partition = c.partition
    <3> HIDE DEF c
    <3>1. QED
      BY DEF AppOK, Shape, Fields
  <2> HIDE DEF b, c, e, j
  <2>4. PICK x \in Loads(b) :
          \/ x.ok /\ o \in Ok(Select(x.app, IF j(x.app) = 0 THEN 1 ELSE j(x.app)))
          \/ ~x.ok /\ o = x
    BY <2>1 DEF Then, Loads
  <2>5. /\ x.ok /\ ListFresh(x.app) /\ \A i : ListFresh([x.app EXCEPT !.sel = i])
    BY <2>2, <2>3, LoadsFresh
  <2>6. \E i : o.app = [x.app EXCEPT !.sel = i]
    <3>1. \A i : \E k : Select(x.app, i) = [x.app EXCEPT !.sel = k]
      BY DEF Select
    <3>2. \E i : o.app = Select(x.app, i)
      BY <2>4, <2>5 DEF Ok
    <3>3. QED
      BY <3>1, <3>2
  <2>7. QED
    BY <2>5, <2>6
<1>3. QED
  BY <1>1, <1>2

-----------------------------------------------------------------------------
(* What the keys show.                                                     *)

\* ShownIsCurrent as an invariant: what is shown stays current because the places of
\* the list and of every column can be loaded again, over an index with rows.
FreshInv == recrawls \in Nat /\ (Undisturbed => rows # {} /\ Current(app))

\* A key need only be followed where nothing disturbs the session.
LEMMA KeyShows ==
  ASSUME ViewOK, ViewInv, FreshInv, NEW mode, NEW outcomes, Key(mode, outcomes),
         Calm /\ Current(app) /\ app.end = "no" /\ Shown(app)
           => \A o \in outcomes : Current(o.app)
  PROVE  FreshInv'
<1>1. PICK o \in outcomes : app' = o.app
  BY DEF Key
<1>2. app.end = "no" /\ rows' = rows /\ faults' = faults /\ recrawls' = recrawls
  BY DEF Key
<1>3. SUFFICES ASSUME Undisturbed PROVE Current(app)'
  <2>1. Undisturbed' <=> Undisturbed
    BY <1>2 DEF Undisturbed
  <2>2. QED
    BY <1>2, <1>3, <2>1 DEF FreshInv
<1>4. Calm /\ Current(app) /\ Shown(app)
  BY <1>2, <1>3, RowsAreOK DEF FreshInv, Undisturbed, Calm, Current
<1>5. Current(o.app)
  BY <1>2, <1>4
<1>6. QED
  BY <1>1, <1>2, <1>5
     DEF Current, Shown, ListFresh, TreeFresh, ColumnsFresh, ColumnFresh, Loadable, FreshIn

LEMMA StillCurrent ==
  ASSUME NEW a, Current(a), NEW b, SameShown(b, a), b.view_mode = a.view_mode, b.end = a.end
  PROVE  Current(b)
  BY ShownStaysFresh DEF Current, Shown

\* Keys that change what is not on the screen.
Aside == {"sel", "pending_sort", "input_mode", "list_preview", "preview_focused"}

LEMMA AsideIsNotShown ==
  ASSUME NEW a, Shape(a), Current(a), NEW f \in Aside, NEW g \in Aside, NEW x, NEW y,
         NEW o \in Ok([[a EXCEPT ![f] = x] EXCEPT ![g] = y])
  PROVE  Current(o.app)
<1> DEFINE b == [[a EXCEPT ![f] = x] EXCEPT ![g] = y]
<1>1. SameShown(b, a) /\ b.view_mode = a.view_mode /\ b.end = a.end
  BY DEF Shape, Fields, SameShown, Aside
<1> HIDE DEF b
<1>2. o.app = b
  <2>1. o \in Ok(b)
    BY DEF b
  <2>2. QED
    BY <2>1 DEF Ok
<1>3. QED
  BY <1>1, <1>2, StillCurrent

LEMMA AsideShows ==
  ASSUME ViewOK, ViewInv, FreshInv, NEW mode, NEW f \in Aside, NEW g \in Aside, NEW x, NEW y,
         Key(mode, Ok([[app EXCEPT ![f] = x] EXCEPT ![g] = y]))
  PROVE  FreshInv'
<1> DEFINE outcomes == Ok([[app EXCEPT ![f] = x] EXCEPT ![g] = y])
<1>1. Shape(app)
  BY DEF ViewInv, AppInv
<1>2. Current(app) => \A o \in outcomes : Current(o.app)
  BY <1>1, AsideIsNotShown
<1> HIDE DEF outcomes
<1>3. Key(mode, outcomes)
  BY DEF outcomes
<1>4. QED
  BY <1>2, <1>3, KeyShows

\* Keys that load again what is shown, after a change of what it is shown by.
LEMMA ReloadShows ==
  ASSUME Calm, Shown(app), NEW c, AppOK(c), c.view_mode = app.view_mode,
         c.current_partition = app.current_partition, Current(app), NEW o \in Reload(c)
  PROVE  Current(o.app)
<1>1. c.view_mode \in {"List", "Tree"}
  BY DEF Current
<1>2. c.view_mode = "List" => Loadable(c.current_partition)
  BY DEF Shown, ListFresh
<1>3. QED
  BY <1>1, <1>2, ReloadFresh

LEMMA QuitShows == ViewOK /\ ViewInv /\ FreshInv /\ Quit => FreshInv'
<1> SUFFICES ASSUME ViewOK, ViewInv, FreshInv, Quit PROVE FreshInv'
  OBVIOUS
<1> DEFINE a == [AppNew EXCEPT !.end = "quit"]
<1>1. Key("Normal", Ok(a))
  BY DEF Quit
<1>2. a.end = "quit" /\ a.view_mode = "List"
  BY DEF AppNew
<1> HIDE DEF a
<1>3. \A o \in Ok(a) : Current(o.app)
  BY <1>2 DEF Ok, Current
<1>4. QED
  BY <1>1, <1>3, KeyShows

LEMMA ToggleShows == ViewOK /\ ViewInv /\ FreshInv /\ Toggle => FreshInv'
<1> SUFFICES ASSUME ViewOK, ViewInv, FreshInv, Toggle PROVE FreshInv'
  OBVIOUS
<1>1. Key("Normal", ToggleViewMode(app)) /\ RowsOK
  BY RowsAreOK DEF Toggle
<1>2. AppOK(app) /\ app.end = "no"
  BY <1>1, KeyStarts
<1>3. ASSUME Calm, Current(app), Shown(app), NEW o \in ToggleViewMode(app)
      PROVE  Current(o.app)
  <2>1. CASE app.view_mode = "List"
    <3> DEFINE c == [app EXCEPT !.view_mode = "Tree"]
    <3>1. AppOK(c) /\ c.end = "no"
      BY <1>2, ViewModeChanges
    <3>2. o \in InitTreeFromListPosition(c)
      BY <1>3, <2>1 DEF ToggleViewMode
    <3>3. c.view_mode = "Tree"
      BY <1>2 DEF AppOK, Shape, Fields
    <3> HIDE DEF c
    <3>4. TreeFresh(o.app)
      BY <1>3, <3>1, <3>2, FromListPositionFresh DEF AppOK
    <3>5. o.app.view_mode = "Tree"
      BY <1>1, <3>1, <3>2, <3>3, FromListPositionKeeps DEF AppOK, TreeLoaded, SameModes
    <3>6. QED
      BY <3>4, <3>5 DEF Current, Shown
  <2>2. CASE app.view_mode # "List"
    <3> DEFINE c == [app EXCEPT !.view_mode = "List"]
    <3>1. AppOK(c)
      BY <1>2, ViewModeChanges
    <3>2. o \in RestoreListFromTreePosition(c)
      BY <1>3, <2>2 DEF ToggleViewMode
    <3>3. c.view_mode = "List" /\ SameShown(c, app)
      BY <1>2 DEF AppOK, Shape, Fields, SameShown
    <3> HIDE DEF c
    <3>4. TreeFresh(c)
      BY <1>3, <2>2, <3>3, ShownStaysFresh DEF Shown
    <3>5. o.app.end = "panic" \/ ListFresh(o.app)
      BY <1>3, <3>1, <3>2, <3>4, RestoreFresh
    <3>6. o.app.view_mode = "List"
      BY <1>1, <3>1, <3>2, <3>3, RestoreKeeps DEF Handled, SameModes
    <3>7. QED
      BY <3>5, <3>6 DEF Current, Shown
  <2>3. QED
    BY <2>1, <2>2
<1>4. QED
  BY <1>1, <1>3, KeyShows

LEMMA SettingsShow ==
  ViewOK /\ ViewInv /\ FreshInv
    /\ (ClearFilters \/ StartSortSelect \/ SortSelectNext \/ SortSelectPrev \/ ConfirmSort
          \/ CancelSort) => FreshInv'
<1> SUFFICES ASSUME ViewOK, ViewInv, FreshInv,
                    ClearFilters \/ StartSortSelect \/ SortSelectNext \/ SortSelectPrev
                      \/ ConfirmSort \/ CancelSort
             PROVE  FreshInv'
  OBVIOUS
<1>1. Shape(app)
  BY DEF ViewInv, AppInv
<1>2. "pending_sort" \in Aside /\ "input_mode" \in Aside
  BY DEF Aside
<1>3. CASE ClearFilters
  <2> DEFINE c == [app EXCEPT !.filters = NoFilters]
  <2>1. Key("Normal", Reload(c))
    BY <1>3 DEF ClearFilters
  <2>2. AppOK(c) /\ SameModes(c, app)
    BY <2>1, KeyStarts, SettingsChange
  <2>3. c.current_partition = app.current_partition
    BY <1>1 DEF Shape, Fields
  <2> HIDE DEF c
  <2>4. Calm /\ Current(app) /\ Shown(app) => \A o \in Reload(c) : Current(o.app)
    BY <2>2, <2>3, ReloadShows DEF SameModes
  <2>5. QED
    BY <2>1, <2>4, KeyShows
<1>4. CASE ConfirmSort
  <2> DEFINE b == [app EXCEPT !.sort_mode = app.pending_sort]
             c == [b EXCEPT !.input_mode = "Normal"]
  <2>1. Key("SortSelect", Reload(c))
    BY <1>4 DEF ConfirmSort
  <2>2. AppOK(b) /\ b.view_mode = app.view_mode
    BY <2>1, KeyStarts, SettingsChange DEF SameModes
  <2>3. b.current_partition = app.current_partition
    BY <1>1 DEF Shape, Fields
  <2> HIDE DEF b
  <2>4. AppOK(c) /\ c.view_mode = app.view_mode
    BY <2>2, InputModeChanges
  <2>5. c.current_partition = app.current_partition
    BY <2>2, <2>3 DEF AppOK, Shape, Fields
  <2> HIDE DEF c
  <2>6. Calm /\ Current(app) /\ Shown(app) => \A o \in Reload(c) : Current(o.app)
    BY <2>4, <2>5, ReloadShows
  <2>7. QED
    BY <2>1, <2>6, KeyShows
<1>5. ASSUME NEW mode, NEW x, NEW m,
             Key(mode, Ok([app EXCEPT !.pending_sort = x, !.input_mode = m]))
      PROVE  FreshInv'
  <2> DEFINE C(f, g) == [[app EXCEPT ![f] = x] EXCEPT ![g] = m]
  <2>1. Key(mode, Ok(C("pending_sort", "input_mode")))
    BY <1>5
  <2>2. QED
    BY <1>2, <2>1, AsideShows
<1>6. ASSUME NEW mode, NEW x, Key(mode, Ok([app EXCEPT !.pending_sort = x])) PROVE FreshInv'
  <2> DEFINE C(f, g) == [[app EXCEPT ![f] = x] EXCEPT ![g] = x]
  <2>1. C("pending_sort", "pending_sort") = [app EXCEPT !.pending_sort = x]
    BY <1>1 DEF Shape, Fields
  <2>2. Key(mode, Ok(C("pending_sort", "pending_sort")))
    BY <1>6, <2>1
  <2>3. QED
    BY <1>2, <2>2, AsideShows
<1>7. CASE StartSortSelect
  BY <1>5, <1>7 DEF StartSortSelect
<1>8. CASE CancelSort
  BY <1>5, <1>8 DEF CancelSort
<1>9. CASE SortSelectNext
  BY <1>6, <1>9 DEF SortSelectNext
<1>10. CASE SortSelectPrev
  BY <1>6, <1>10 DEF SortSelectPrev
<1>11. QED
  BY <1>3, <1>4, <1>7, <1>8, <1>9, <1>10

LEMMA InputShows ==
  ViewOK /\ ViewInv /\ FreshInv /\ (StartInput \/ CancelInput \/ FinishInput) => FreshInv'
<1> SUFFICES ASSUME ViewOK, ViewInv, FreshInv, StartInput \/ CancelInput \/ FinishInput
             PROVE  FreshInv'
  OBVIOUS
<1>1. Shape(app) /\ \A m \in DOMAIN Typed : m # "ListPreview"
  BY DEF ViewInv, AppInv, ViewOK, Prompts
<1>2. ASSUME NEW mode, NEW m, Key(mode, Ok([app EXCEPT !.input_mode = m])) PROVE FreshInv'
  <2> DEFINE C(f, g) == [[app EXCEPT ![f] = m] EXCEPT ![g] = m]
  <2>1. C("input_mode", "input_mode") = [app EXCEPT !.input_mode = m]
    BY <1>1 DEF Shape, Fields
  <2>2. Key(mode, Ok(C("input_mode", "input_mode")))
    BY <1>2, <2>1
  <2>3. QED
    BY <2>2, AsideShows DEF Aside
<1>3. CASE StartInput
  BY <1>2, <1>3 DEF StartInput
<1>4. CASE CancelInput
  BY <1>2, <1>4 DEF CancelInput
<1>5. CASE FinishInput
  <2>1. PICK m \in DOMAIN Typed : Key(m, ConfirmInput(app))
    BY <1>5 DEF FinishInput
  <2> DEFINE c == [app EXCEPT !.input_mode = "Normal"]
             v(x) == [c EXCEPT !.filters[app.input_mode] = x]
  <2>2. AppOK(app)
    BY <1>1, <2>1, KeyStarts
  <2>3. /\ AppOK(c) /\ c.view_mode = app.view_mode /\ c.end = app.end
        /\ SameShown(c, app)
    <3>1. AppOK(c) /\ c.view_mode = app.view_mode /\ c.end = app.end
      BY <2>2, InputModeChanges
    <3>2. SameShown(c, app)
      BY <1>1 DEF Shape, Fields, SameShown
    <3>3. QED
      BY <3>1, <3>2
  <2>4. ConfirmInput(app) =
          Ok(c) \cup UNION {Reload(v(x)) : x \in Typed[app.input_mode] \cup {None}}
    BY DEF ConfirmInput
  <2> HIDE DEF c
  <2>5. Current(app) => \A o \in Ok(c) : Current(o.app)
    BY <2>3, StillCurrent DEF Ok
  <2>6. Calm /\ Current(app) /\ Shown(app) => \A x : \A o \in Reload(v(x)) : Current(o.app)
    <3> SUFFICES ASSUME Calm, Current(app), Shown(app), NEW x, NEW o \in Reload(v(x))
                 PROVE  Current(o.app)
      OBVIOUS
    <3> DEFINE fs == [c.filters EXCEPT ![app.input_mode] = x]
               b == [c EXCEPT !.filters = fs]
    <3>1. v(x) = b
      BY <2>3 DEF AppOK, Shape, Fields
    <3> HIDE DEF fs
    <3>2. AppOK(b) /\ b.view_mode = app.view_mode
      BY <2>3, SettingsChange DEF SameModes
    <3>3. b.current_partition = app.current_partition
      BY <2>3 DEF AppOK, Shape, Fields, SameShown
    <3> HIDE DEF b
    <3>4. o \in Reload(b)
      BY <3>1
    <3>5. QED
      BY <3>2, <3>3, <3>4, ReloadShows
  <2> HIDE DEF v
  <2>7. Calm /\ Current(app) /\ Shown(app) => \A o \in ConfirmInput(app) : Current(o.app)
    BY <2>4, <2>5, <2>6
  <2>8. QED
    BY <2>1, <2>7, KeyShows
<1>6. QED
  BY <1>3, <1>4, <1>5

LEMMA ListShows ==
  ViewOK /\ ViewInv /\ FreshInv /\ (ListMove \/ Enter \/ Back) => FreshInv'
<1> SUFFICES ASSUME ViewOK, ViewInv, FreshInv, ListMove \/ Enter \/ Back PROVE FreshInv'
  OBVIOUS
<1>1. app.view_mode = "List" /\ RowsOK
  BY RowsAreOK DEF ListMove, Enter, Back, ListKey
<1>2. CASE ListMove
  <2> DEFINE I == IF app.entries = <<>> THEN {1} ELSE Moved(app.sel, Len(app.entries))
             moves == UNION {Ok(Select(app, i)) : i \in I}
  <2>1. Key("Normal", moves)
    BY <1>2 DEF ListMove, ListKey
  <2>2. Shape(app)
    BY DEF ViewInv, AppInv
  <2>3. ASSUME Current(app), NEW o \in moves PROVE Current(o.app)
    <3> HIDE DEF I
    <3>1. PICK i \in I : o \in Ok(Select(app, i))
      OBVIOUS
    <3> DEFINE j == IF app.entries = <<>> THEN app.sel ELSE i
               b == [app EXCEPT !.sel = j]
    <3>2. Select(app, i) = b
      BY DEF Select
    <3> HIDE DEF j
    <3>3. SameShown(b, app) /\ b.view_mode = app.view_mode /\ b.end = app.end
      BY <2>2 DEF Shape, Fields, SameShown
    <3> HIDE DEF b
    <3>4. o.app = b
      BY <3>1, <3>2 DEF Ok
    <3>5. QED
      BY <2>3, <3>3, <3>4, StillCurrent
  <2> HIDE DEF moves
  <2>4. QED
    BY <2>1, <2>3, KeyShows
<1>3. CASE Enter
  <2>1. Key("Normal", EnterSelected(app))
    BY <1>3 DEF Enter, ListKey
  <2>2. AppOK(app)
    BY <2>1, KeyStarts
  <2>3. ASSUME Calm, Shown(app), NEW o \in EnterSelected(app) PROVE Current(o.app)
    <3>1. o.app.view_mode = "List"
      BY <1>1, <2>2, <2>3, EnterKeeps DEF Handled, SameModes
    <3>2. o.app.end = "panic" \/ ListFresh(o.app)
      BY <1>1, <2>2, <2>3, EnterFresh DEF Shown
    <3>3. QED
      BY <3>1, <3>2 DEF Current, Shown
  <2>4. QED
    BY <2>1, <2>3, KeyShows
<1>4. CASE Back
  <2>1. Key("Normal", GoUp(app))
    BY <1>4 DEF Back, ListKey
  <2>2. AppOK(app)
    BY <2>1, KeyStarts
  <2>3. ASSUME Calm, Shown(app), NEW o \in GoUp(app) PROVE Current(o.app)
    <3>1. o.app.view_mode = "List"
      BY <1>1, <2>2, <2>3, GoUpKeeps DEF Handled, SameModes
    <3>2. ListFresh(o.app)
      BY <1>1, <2>2, <2>3, GoUpFresh DEF Shown
    <3>3. QED
      BY <3>1, <3>2 DEF Current, Shown
  <2>4. QED
    BY <2>1, <2>3, KeyShows
<1>5. QED
  BY <1>2, <1>3, <1>4

LEMMA OverlayShows ==
  ViewOK /\ ViewInv /\ FreshInv /\ (OpenListPreview \/ CloseListPreview) => FreshInv'
<1> SUFFICES ASSUME ViewOK, ViewInv, FreshInv, OpenListPreview \/ CloseListPreview
             PROVE  FreshInv'
  OBVIOUS
<1> DEFINE e == SelectedIn(app)
           C(f, g, x, y) == [[app EXCEPT ![f] = x] EXCEPT ![g] = y]
<1>1. "list_preview" \in Aside /\ "input_mode" \in Aside
  BY DEF Aside
<1>2. CASE OpenListPreview /\ (e = None \/ e.is_dir)
  <2>1. Key("Normal", Ok(app))
    BY <1>2, Zenon DEF OpenListPreview, ListKey
  <2>2. Current(app) => \A o \in Ok(app) : Current(o.app)
    BY DEF Ok
  <2>3. QED
    BY <2>1, <2>2, KeyShows
<1>3. CASE OpenListPreview /\ e # None /\ ~e.is_dir
  <2> HIDE DEF e
  <2>1. Key("Normal", Ok([app EXCEPT !.list_preview = e, !.input_mode = "ListPreview"]))
    BY <1>3 DEF OpenListPreview, ListKey, e
  <2>2. Key("Normal", Ok(C("list_preview", "input_mode", e, "ListPreview")))
    BY <2>1
  <2>3. QED
    BY <1>1, <2>2, AsideShows
<1>4. CASE CloseListPreview
  <2>1. Key("ListPreview", Ok(C("list_preview", "input_mode", None, "Normal")))
    BY <1>4 DEF CloseListPreview
  <2>2. QED
    BY <1>1, <2>1, AsideShows
<1>5. QED
  BY <1>2, <1>3, <1>4

LEMMA TreeShows ==
  ViewOK /\ ViewInv /\ FreshInv /\ (TreeMove \/ TreeIn \/ TreeOut) => FreshInv'
<1> SUFFICES ASSUME ViewOK, ViewInv, FreshInv, TreeMove \/ TreeIn \/ TreeOut PROVE FreshInv'
  OBVIOUS
<1>1. app.view_mode = "Tree" /\ RowsOK
  BY RowsAreOK DEF TreeMove, TreeIn, TreeOut, TreeKey
<1>2. ASSUME NEW outcomes, Key("Normal", outcomes),
             \A o \in outcomes : AppOK(app) /\ app.end = "no" => Handled(o, app),
             \A o \in outcomes : Calm /\ AppOK(app) /\ app.end = "no" /\ TreeFresh(app)
                                   => TreeFresh(o.app)
      PROVE  FreshInv'
  <2>1. AppOK(app) /\ app.end = "no"
    BY <1>2, KeyStarts
  <2>2. ASSUME Calm, Shown(app), NEW o \in outcomes PROVE Current(o.app)
    <3>1. o.app.view_mode = "Tree"
      BY <1>1, <1>2, <2>1 DEF Handled, SameModes
    <3>2. TreeFresh(o.app)
      BY <1>1, <1>2, <2>1, <2>2 DEF Shown
    <3>3. QED
      BY <3>1, <3>2 DEF Current, Shown
  <2>3. QED
    BY <1>2, <2>2, KeyShows
<1>3. CASE TreeMove
  BY <1>1, <1>2, <1>3, TreeMovesKeeps, TreeMovesFresh DEF TreeMove, TreeKey
<1>4. CASE TreeOut
  BY <1>2, <1>4, TreeLeftKeeps, TreeLeftFresh DEF TreeOut, TreeKey
<1>5. CASE TreeIn /\ app.file_preview = None
  BY <1>1, <1>2, <1>5, TreeRightKeeps, TreeRightFresh DEF TreeIn, TreeKey
<1>6. CASE TreeIn /\ app.file_preview # None
  <2> DEFINE C(f, g) == [[app EXCEPT ![f] = TRUE] EXCEPT ![g] = TRUE]
  <2>1. C("preview_focused", "preview_focused") = [app EXCEPT !.preview_focused = TRUE]
    BY DEF ViewInv, AppInv, Shape, Fields
  <2>2. Key("Normal", Ok(C("preview_focused", "preview_focused")))
    BY <1>6, <2>1 DEF TreeIn, TreeKey
  <2>3. QED
    BY <2>2, AsideShows DEF Aside
<1>7. QED
  BY <1>3, <1>4, <1>5, <1>6

LEMMA LeavePagerShows == ViewInv /\ FreshInv /\ LeavePager => FreshInv'
<1> SUFFICES ASSUME ViewInv, FreshInv, LeavePager PROVE FreshInv'
  OBVIOUS
<1> DEFINE b == [app EXCEPT !.preview_focused = FALSE]
<1>1. /\ app' = b /\ rows' = rows /\ faults' = faults /\ recrawls' = recrawls /\ Shape(app)
  BY DEF LeavePager, ViewInv, AppInv
<1>2. SameShown(b, app) /\ b.view_mode = app.view_mode /\ b.end = app.end
  BY <1>1 DEF Shape, Fields, SameShown
<1> HIDE DEF b
<1>3. Undisturbed' = Undisturbed
  BY <1>1 DEF Undisturbed
<1>4. ASSUME Undisturbed PROVE Current(app)'
  <2>1. Current(b)
    BY <1>2, <1>4, StillCurrent DEF FreshInv
  <2>2. QED
    BY <1>1, <2>1
       DEF Current, Shown, ListFresh, TreeFresh, ColumnsFresh, ColumnFresh, Loadable, FreshIn
<1>5. QED
  BY <1>1, <1>3, <1>4 DEF FreshInv

LEMMA RecrawlShows == FreshInv /\ Recrawl => FreshInv'
  BY DEF FreshInv, Recrawl, Undisturbed

LEMMA FreshStarts == ViewOK /\ ViewInit => FreshInv
<1> SUFFICES ASSUME ViewOK, ViewInit PROVE FreshInv
  OBVIOUS
<1>1. recrawls \in Nat /\ RowsOK
  BY DEF ViewInit, ViewOK, RowsOK
<1>2. SUFFICES ASSUME ~faults PROVE rows # {} /\ Current(app)
  BY <1>1 DEF FreshInv, Undisturbed
<1>3. PICK p \in Argument :
        \E o \in IF p = None THEN LoadPartitions([AppNew EXCEPT !.current_partition = p])
                 ELSE LoadDirectory([AppNew EXCEPT !.current_partition = p]) :
          o.ok /\ app = Select(o.app, 1)
  BY DEF ViewInit
<1> DEFINE a == [AppNew EXCEPT !.current_partition = p]
<1>4. /\ Shape(a) /\ a.current_partition = p /\ a.partition_root = <<>>
      /\ a.view_mode = "List"
  BY DEF AppNew, Shape, Fields
<1>5. PICK o \in Loads(a) : o.ok /\ app = Select(o.app, 1)
  BY <1>3, <1>4 DEF Loads
<1> HIDE DEF a
<1>6. rows # {} /\ Loadable(p)
  <2>1. CASE p = None
    <3>1. o \in LoadPartitions(a)
      BY <1>4, <2>1, <1>5 DEF Loads
    <3>2. rows # {}
      <4> SUFFICES ASSUME rows = {} PROVE FALSE
        OBVIOUS
      <4>1. o \in Err([a EXCEPT !.entries = <<>>])
        BY <1>2, <3>1 DEF LoadPartitions, PartitionAnswers, Query
      <4>2. QED
        BY <1>5, <4>1 DEF Err
    <3>3. QED
      BY <2>1, <3>2 DEF Loadable
  <2>2. CASE p # None
    <3>1. o \in LoadDirectory(a)
      BY <1>4, <1>5, <2>2 DEF Loads
    <3>2. PartitionRoots(rows, p) # {}
      <4> SUFFICES ASSUME PartitionRoots(rows, p) = {} PROVE FALSE
        OBVIOUS
      <4>1. o \in Err(a)
        BY <1>2, <1>4, <3>1 DEF LoadDirectory, Query
      <4>2. QED
        BY <1>5, <4>1 DEF Err
    <3>3. RowsOf(rows, p) # {} /\ Readable(rows, p)
      BY <3>2 DEF PartitionRoots, Readable
    <3>4. QED
      BY <3>3 DEF Loadable, RowsOf
  <2>3. QED
    BY <2>1, <2>2
<1>7. Calm
  BY <1>1, <1>2, <1>6 DEF Calm
<1>8. /\ ListFresh(o.app) /\ \A i : ListFresh([o.app EXCEPT !.sel = i])
      /\ Shape(o.app) /\ o.app.view_mode = "List"
  BY <1>4, <1>5, <1>6, <1>7, LoadsFresh
<1>9. PICK i : app = [o.app EXCEPT !.sel = i]
  BY <1>5 DEF Select
<1>10. ListFresh(app) /\ app.view_mode = "List"
  BY <1>8, <1>9 DEF Shape, Fields
<1>11. QED
  BY <1>6, <1>10 DEF Current, Shown

LEMMA FreshSteps == ViewOK /\ ViewInv /\ FreshInv /\ [ViewNext]_viewVars => FreshInv'
<1> SUFFICES ASSUME ViewOK, ViewInv, FreshInv, [ViewNext]_viewVars PROVE FreshInv'
  OBVIOUS
<1>1. CASE Quit
  BY <1>1, QuitShows
<1>2. CASE Toggle
  BY <1>2, ToggleShows
<1>3. CASE ClearFilters \/ StartSortSelect \/ SortSelectNext \/ SortSelectPrev \/ ConfirmSort
             \/ CancelSort
  BY <1>3, SettingsShow
<1>4. CASE StartInput \/ CancelInput \/ FinishInput
  BY <1>4, InputShows
<1>5. CASE ListMove \/ Enter \/ Back
  BY <1>5, ListShows
<1>6. CASE OpenListPreview \/ CloseListPreview
  BY <1>6, OverlayShows
<1>7. CASE TreeMove \/ TreeIn \/ TreeOut
  BY <1>7, TreeShows
<1>8. CASE LeavePager
  BY <1>8, LeavePagerShows
<1>9. CASE Recrawl
  BY <1>9, RecrawlShows
<1>10. CASE UNCHANGED viewVars
  BY <1>10 DEF viewVars, FreshInv, Undisturbed, Current, Shown, ListFresh, TreeFresh,
               ColumnsFresh, ColumnFresh, Loadable, FreshIn
<1>11. QED
  BY <1>1, <1>2, <1>3, <1>4, <1>5, <1>6, <1>7, <1>8, <1>9, <1>10 DEF ViewNext

LEMMA FreshInvShows == FreshInv => ShownIsCurrent
<1> SUFFICES ASSUME FreshInv, Undisturbed, Running PROVE
      IF app.view_mode = "List"
      THEN app.entries = (IF app.current_partition = None THEN <<>> ELSE <<DotDot>>)
                           \o Fresh(app.current_partition, app.current_path)
      ELSE \A i \in Columns : LET c == app.columns[i] IN c.entries = Fresh(c.partition, c.path)
  BY DEF ShownIsCurrent
<1>1. Shown(app)
  BY DEF FreshInv, Current, Running
<1>2. \A p, path : Fresh(p, path) = FreshIn(app, p, path)
  BY DEF Fresh, FreshIn
<1>3. QED
  BY <1>1, <1>2 DEF Shown, ListFresh, TreeFresh, ColumnsFresh, ColumnFresh, Columns

-----------------------------------------------------------------------------
(* What a frame shows of the tree.                                         *)

LEMMA MaxOfTwo ==
  ASSUME NEW a \in Int, NEW b \in Int
  PROVE  Max({a, b}) = IF a >= b THEN a ELSE b
<1> DEFINE m == IF a >= b THEN a ELSE b
<1>1. m \in {a, b} /\ \A y \in {a, b} : m >= y
  OBVIOUS
<1>2. \A x \in {a, b} : (\A y \in {a, b} : x >= y) => x = m
  OBVIOUS
<1>3. Max({a, b}) \in {a, b} /\ \A y \in {a, b} : Max({a, b}) >= y
  BY <1>1 DEF Max
<1>4. QED
  BY <1>2, <1>3

LEMMA MinOfTwo ==
  ASSUME NEW a \in Int, NEW b \in Int
  PROVE  Min({a, b}) = IF a <= b THEN a ELSE b
<1> DEFINE m == IF a <= b THEN a ELSE b
<1>1. m \in {a, b} /\ \A y \in {a, b} : m <= y
  OBVIOUS
<1>2. \A x \in {a, b} : (\A y \in {a, b} : x <= y) => x = m
  OBVIOUS
<1>3. Min({a, b}) \in {a, b} /\ \A y \in {a, b} : Min({a, b}) <= y
  BY <1>1 DEF Min
<1>4. QED
  BY <1>2, <1>3

LEMMA LeastOfThree ==
  ASSUME NEW a \in Int, NEW b \in Int, NEW c \in Int
  PROVE  /\ Min({a, b, c}) \in {a, b, c}
         /\ Min({a, b, c}) <= a /\ Min({a, b, c}) <= b /\ Min({a, b, c}) <= c
<1>1. \E x \in {a, b, c} : \A y \in {a, b, c} : x <= y
  <2>1. CASE a <= b /\ a <= c
    BY <2>1
  <2>2. CASE b <= a /\ b <= c
    BY <2>2
  <2>3. CASE c <= a /\ c <= b
    BY <2>3
  <2>4. QED
    BY <2>1, <2>2, <2>3
<1>2. Min({a, b, c}) \in {a, b, c} /\ \A y \in {a, b, c} : Min({a, b, c}) <= y
  BY <1>1 DEF Min
<1>3. QED
  BY <1>2

\* Twice the least width of a column is room for two.
LEMMA TwoFit ==
  ASSUME NEW w \in Nat, NEW m \in Nat \ {0}, w >= 2 * m
  PROVE  w \div m \in Nat /\ w \div m >= 2
<1>1. w \div m \in Nat
  BY SMT
<1>2. w < (w \div m + 1) * m
  BY SMT
<1>3. QED
  BY <1>1, <1>2, SMT

\* The slots up to the active column and its preview, Wanted of them, are among the panes.
Wanted == screen.tree.active - 1 + SlotsAfterActive

LEMMA PanesOfATree ==
  ASSUME LayoutOK, screen.tree \in Trees
  PROVE  /\ screen.tree.active \in Nat \ {0}
         /\ Wanted = screen.tree.active + (IF HasPreviewPane THEN 1 ELSE 0)
         /\ TotalPanes \in Nat /\ TotalPanes >= Wanted
<1>1. screen.tree.columns \in Nat /\ screen.tree.active \in Nat \ {0}
  BY DEF Trees, LayoutOK
<1>2. screen.tree.columns \in screen.tree.active .. screen.tree.active + 1
  BY DEF Trees
<1>3. QED
  BY <1>1, <1>2 DEF Wanted, SlotsAfterActive, TotalPanes, HasPreviewPane, NeedExtraSlot

\* On the screen are at least two panes where there are two, and of those wanted the
\* last ones.
LEMMA WantedIsVisible ==
  ASSUME LayoutOK, width \in Nat, width >= 2 * MinColumnWidth, screen.tree \in Trees
  PROVE  /\ NumVisible \in 1 .. TotalPanes
         /\ TotalPanes >= 2 => NumVisible >= 2
         /\ Visible = IF Wanted > NumVisible THEN (Wanted - NumVisible + 1) .. Wanted
                      ELSE 1 .. NumVisible
<1> DEFINE n == NumVisible
           p == TotalPanes
           e == Wanted
           fit == width \div MinColumnWidth
           least == Min({p, MaxVisible, fit})
<1>1. p \in Nat \ {0} /\ e \in Nat /\ e <= p
  BY PanesOfATree
<1>2. fit \in Nat /\ fit >= 2 /\ MaxVisible \in Nat \ {0, 1}
  BY TwoFit DEF LayoutOK
<1>3. FirstPane = 1 + IF e > n THEN Min({e - n, Max({0, p - n})}) ELSE 0
  BY DEF FirstPane, Wanted
<1>4. Visible = FirstPane .. Min({FirstPane - 1 + n, p})
  BY DEF Visible
<1>5. NumVisible = Max({1, least})
  BY DEF NumVisible
<1> HIDE DEF p, fit, e
<1>6. least \in {p, MaxVisible, fit} /\ least <= p
  <2>1. p \in Int /\ MaxVisible \in Int /\ fit \in Int
    BY <1>1, <1>2
  <2>2. QED
    BY <2>1, LeastOfThree, Zenon
<1> HIDE DEF least
<1>7. n = least
  <2>1. least \in Int /\ least >= 1
    BY <1>1, <1>2, <1>6
  <2>2. QED
    BY <1>5, <2>1, MaxOfTwo
<1> HIDE DEF n
<1>8. n \in 1 .. p /\ (p >= 2 => n >= 2)
  BY <1>1, <1>2, <1>6, <1>7
<1>9. FirstPane = 1 + IF e > n THEN e - n ELSE 0
  <2>1. p - n \in Nat /\ e - n \in Int /\ e - n <= p - n
    BY <1>1, <1>8
  <2>2. Max({0, p - n}) = p - n
    BY <2>1, MaxOfTwo
  <2>3. Min({e - n, p - n}) = e - n
    BY <2>1, MinOfTwo
  <2>4. QED
    BY <1>3, <2>2, <2>3, Zenon
<1>10. FirstPane - 1 + n \in Int /\ FirstPane - 1 + n <= p
  BY <1>1, <1>8, <1>9
<1>11. Min({FirstPane - 1 + n, p}) = FirstPane - 1 + n
  BY <1>1, <1>10, MinOfTwo
<1>12. Visible = FirstPane .. FirstPane - 1 + n
  BY <1>4, <1>11, Zenon
<1>13. Visible = IF e > n THEN (e - n + 1) .. e ELSE 1 .. n
  BY <1>1, <1>8, <1>9, <1>12
<1>14. QED
  BY <1>8, <1>13 DEF p, n, e

-----------------------------------------------------------------------------
(* Theorems.                                                               *)

\* Whatever keys are pressed, whichever queries fail and however the index changes
\* under it, the state of xdu-view is well formed: the list's path lies below the root
\* of its partition, the tree's columns are a chain, and no mode has the state of
\* another.
THEOREM ViewInvariant == ASSUME ViewOK PROVE ViewSpec => []ViewInv
<1>1. ViewInit => ViewInv
  BY ViewStarts
<1>2. ViewInv /\ [ViewNext]_viewVars => ViewInv'
  BY ViewSteps
<1>3. QED
  BY <1>1, <1>2, PTL DEF ViewSpec

\* The overlay is a list's and has a file exactly while its mode lasts; the pager has
\* the focus only over a tree with a file, and never under a prompt.
THEOREM ModesStayApart == ASSUME ViewOK PROVE ViewSpec => []ModesApart
<1>1. ViewInv => ModesApart
  BY DEF ViewInv, AppInv, ModesOK, ModesApart
<1>2. QED
  BY <1>1, ViewInvariant, PTL

\* While the program runs the tree is a chain of directories, each the selection of its
\* left neighbour, in an active column that exists: however loads failed half way and
\* wherever the walk down to the list's path ended.
THEOREM ColumnsStayAChain == ASSUME ViewOK PROVE ViewSpec => []ColumnsAreAChain
<1>1. ViewInv => ColumnsAreAChain
  <2> SUFFICES ASSUME ViewInv, Running, app.columns # <<>> PROVE ColumnsAreAChain
    BY DEF ColumnsAreAChain
  <2>1. Chain(app.columns) /\ ActiveOK(app) /\ app.end = "no"
    BY DEF ViewInv, AppInv, Running
  <2>2. app.active \in Columns /\ Len(app.columns) <= app.active + 1
    BY <2>1 DEF ActiveOK, Columns
  <2>3. app.columns[1].partition = None
    BY <2>1 DEF Chain
  <2>4. \A i \in Columns : SelectionOK(app.columns[i])
    BY <2>1 DEF Chain, ColumnOK, Columns
  <2>5. \A i \in Columns \ {1} : ChildOf(app.columns[i], app.columns[i - 1])
    BY <2>1 DEF Chain, Columns
  <2>6. QED
    BY <2>2, <2>3, <2>4, <2>5, Zenon DEF ColumnsAreAChain, SelectionOK, ChildOf
<1>2. QED
  BY <1>1, ViewInvariant, PTL

\* In the list and in every column the path lies below the root its partition was
\* entered by, and outside a partition there is no path: going up meets the root and
\* never climbs past it.
THEOREM PathStaysUnderRoot == ASSUME ViewOK PROVE ViewSpec => []PathUnderRoot
<1>1. ViewInv => PathUnderRoot
  BY DEF ViewInv, AppInv, PathOK, Chain, ColumnOK, PathUnderRoot, Columns
<1>2. QED
  BY <1>1, ViewInvariant, PTL

\* What is on the screen is what the index holds under the filters and the order in
\* force, in the list and in every column of the tree, after any keys: as long as the
\* index is not crawled again and no statement fails that could be answered.  A key of
\* xdu-view that changes the filters, the order, the place or the view and does not load
\* again all that it changes would break this.
THEOREM WhatIsShownIsCurrent == ASSUME ViewOK PROVE ViewSpec => []ShownIsCurrent
<1>1. ViewInit => ViewInv /\ FreshInv
  BY ViewStarts, FreshStarts
<1>2. ViewInv /\ FreshInv /\ [ViewNext]_viewVars => (ViewInv /\ FreshInv)'
  BY ViewSteps, FreshSteps
<1>3. ViewInv /\ FreshInv => ShownIsCurrent
  BY FreshInvShows
<1>4. QED
  BY <1>1, <1>2, <1>3, PTL DEF ViewSpec

\* In a terminal of any width that holds two columns, with a tree of any depth and the
\* preview of any file still loaded, the active column and what it previews are on the
\* screen (render_tree).
THEOREM ActiveIsShown ==
  ASSUME LayoutOK
  PROVE  LayoutSpec => []ActiveAndPreviewShown
<1> DEFINE ScreenOK == width \in Widths /\ screen \in Screens
<1>1. LayoutInit => ScreenOK
  BY DEF LayoutInit
<1>2. ScreenOK /\ [LayoutNext]_layoutVars => ScreenOK'
  BY DEF LayoutNext, Resize, layoutVars, Screens, Trees, Kinds, LeastStats
<1>3. ScreenOK => ActiveAndPreviewShown
  <2> SUFFICES ASSUME ScreenOK, width >= 2 * MinColumnWidth
               PROVE  /\ screen.tree.active \in Visible
                      /\ HasPreviewPane => screen.tree.active + 1 \in Visible
    BY DEF ActiveAndPreviewShown
  <2>1. width \in Nat /\ screen.tree \in Trees
    BY DEF LayoutOK, Screens
  <2>2. /\ NumVisible \in 1 .. TotalPanes
        /\ TotalPanes >= 2 => NumVisible >= 2
        /\ Visible = IF Wanted > NumVisible THEN (Wanted - NumVisible + 1) .. Wanted
                     ELSE 1 .. NumVisible
    BY <2>1, WantedIsVisible
  <2>3. /\ screen.tree.active \in Nat \ {0}
        /\ Wanted = screen.tree.active + (IF HasPreviewPane THEN 1 ELSE 0)
        /\ TotalPanes \in Nat /\ TotalPanes >= Wanted
    BY <2>1, PanesOfATree
  <2>4. QED
    BY <2>2, <2>3
<1>4. QED
  BY <1>1, <1>2, <1>3, PTL DEF LayoutSpec
===============================================================================
