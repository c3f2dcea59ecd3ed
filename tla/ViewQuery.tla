------------------------------ MODULE ViewQuery ------------------------------
(***************************************************************************)
(* The queries behind xdu-view's list and tree (view_query.rs), as what    *)
(* their SQL computes from the rows of an index.                           *)
(*                                                                         *)
(* A path is the sequence of its components below the crawled directory;   *)
(* <<>> stands for the empty string.  Characters appear in two places      *)
(* only, because the SQL looks at them there: LIKE, whose "_" matches any  *)
(* character, and length(path).  A "%" in a directory name, and a "_" that *)
(* matches a "/", are left out.                                            *)
(***************************************************************************)
EXTENDS Integers, FiniteSets, Sequences, FiniteSetsExt, SequencesExt

CONSTANTS
  NameOrder,  \* every file and directory name, in alphabetical order
  NameLen,    \* name -> its length in characters
  Wild,       \* <<m, n>>: n is m but for the characters where m has a "_"
  None        \* Option::None

Names == Range(NameOrder)

NamesOK ==
  /\ NameOrder \in Seq(Names)
  /\ NameLen \in [Names -> Nat \ {0}]
  /\ Wild \subseteq Names \X Names
  /\ \A w \in Wild : NameLen[w[1]] = NameLen[w[2]]

Root == "__root__"

\* A row is [partition, path, size, atime], its partition that of its chunk.
\* The source a statement reads: parquet_source fails when no chunk matches
\* its glob, and no chunk is ever written without a row.
RowsOf(rows, p)     == {r \in rows : r.partition = p}
Readable(rows, p)   == RowsOf(rows, p) # {}

(***************************************************************************)
(* The filters the interface can set; a pattern is the set of paths its    *)
(* regular expression matches.                                             *)
(***************************************************************************)
NoFilters == [Pattern |-> None, OlderThan |-> None, NewerThan |-> None,
              MinSize |-> None, MaxSize |-> None]

Matches(f, r) ==
  /\ f.Pattern   # None => r.path \in f.Pattern
  /\ f.MinSize   # None => r.size >= f.MinSize
  /\ f.MaxSize   # None => r.size <= f.MaxSize
  /\ f.OlderThan # None => r.atime < f.OlderThan
  /\ f.NewerThan # None => r.atime >= f.NewerThan

-----------------------------------------------------------------------------
(* Sorting.  Entries the database may return in any order are taken in the *)
(* order of their names.                                                   *)

SortModes == <<"Name", "SizeDesc", "SizeAsc", "CountDesc", "CountAsc",
               "AgeDesc", "AgeAsc">>

ModeIndex(m) == CHOOSE i \in DOMAIN SortModes : SortModes[i] = m
NextMode(m)  == SortModes[(ModeIndex(m) % Len(SortModes)) + 1]
PrevMode(m)  == SortModes[((ModeIndex(m) + Len(SortModes) - 2) % Len(SortModes)) + 1]

Rank(n) == CHOOSE i \in DOMAIN NameOrder : NameOrder[i] = n

SortKey(e, mode) ==
  CASE mode = "Name"      -> IF e.is_dir THEN 0 ELSE 1
    [] mode = "SizeDesc"  -> -e.total_size
    [] mode = "SizeAsc"   -> e.total_size
    [] mode = "CountDesc" -> -e.file_count
    [] mode = "CountAsc"  -> e.file_count
    [] mode = "AgeDesc"   -> e.latest_atime
    [] OTHER              -> -e.latest_atime   \* "AgeAsc"

Before(a, b, mode) ==
  \/ SortKey(a, mode) < SortKey(b, mode)
  \/ SortKey(a, mode) = SortKey(b, mode) /\ Rank(a.name) < Rank(b.name)

\* The entries, none of them after one that it comes before.
Sorted(entries, mode) ==
  CHOOSE s \in [1 .. Cardinality(entries) -> entries] :
    \A i, j \in DOMAIN s : i < j => s[i] # s[j] /\ ~Before(s[j], s[i], mode)

-----------------------------------------------------------------------------
(* The statements.                                                         *)

SumSizes(rows) == SumFunction([r \in rows |-> r.size])
LatestAtime(rows) == Max({r.atime : r \in rows})

Entry(name, path, is_dir, rows) ==
  [name |-> name, path |-> path, is_dir |-> is_dir, total_size |-> SumSizes(rows),
   file_count |-> Cardinality(rows), latest_atime |-> LatestAtime(rows)]

\* The files of __root__, each an entry of its own.
RootFiles(rows, f) ==
  {Entry(Last(r.path), r.path, FALSE, {r}) :
     r \in {x \in RowsOf(rows, Root) : Matches(f, x)}}

\* MAX(CASE WHEN the filters match THEN atime ELSE 0 END): a row the filters leave
\* out counts as one of 1970, which is later than a time before 1970.
LatestShown(rows, f) == Max({IF Matches(f, r) THEN r.atime ELSE 0 : r \in rows})

\* A partition, with the size and the number of its matching rows.
PartitionEntry(rows, p, f) ==
  [Entry(p, <<p>>, TRUE, {r \in RowsOf(rows, p) : Matches(f, r)})
     EXCEPT !.latest_atime = LatestShown(RowsOf(rows, p), f)]

\* A slip: the totals of the whole partition, whatever the filters.
Partitions_Unfiltered(rows, f) ==
  {PartitionEntry(rows, p, NoFilters) :
     p \in {r.partition : r \in {x \in rows : Matches(f, x)}} \ {Root}}

\* Every other partition that has a matching row.
Partitions(rows, f) ==
  {PartitionEntry(rows, p, f) :
     p \in {r.partition : r \in {x \in rows : Matches(f, x)}} \ {Root}}

PathLen(path) == SumFunction([i \in DOMAIN path |-> NameLen[path[i]] + 1])

\* The directories partition_root may return: that of a shortest path, any one
\* of them when several are as short.
PartitionRoots(rows, p) ==
  {Front(r.path) : r \in {x \in RowsOf(rows, p) :
     \A y \in RowsOf(rows, p) : PathLen(x.path) <= PathLen(y.path)}}

\* path LIKE '<dir>/%'
Like(path, dir) ==
  /\ Len(path) > Len(dir)
  /\ \A i \in DOMAIN dir : dir[i] = path[i] \/ <<dir[i], path[i]>> \in Wild

\* The entries under dir: one per component that follows the prefix; a
\* directory when some path goes on beyond it.  The list and the tree send the
\* same statement in two layouts.
Directory(rows, p, dir, f) ==
  LET files == {r \in RowsOf(rows, p) : Like(r.path, dir) /\ Matches(f, r)}
      At(n) == {r \in files : r.path[Len(dir) + 1] = n}
  IN  {Entry(n, Append(dir, n), \E r \in At(n) : Len(r.path) > Len(dir) + 1, At(n)) :
         n \in {r.path[Len(dir) + 1] : r \in files}}
=============================================================================
