-------------------------------- MODULE TopLevel --------------------------------
(***************************************************************************)
(* What xdu makes of the entries of the directory it crawls: the checks a  *)
(* run passes before it touches the index, the work queue, and the keys    *)
(* that partitions are stored under and readers look for them by.          *)
(*                                                                         *)
(* Crawl says how a run over a queue goes, and what becomes of one that is *)
(* interrupted; here every partition is written in one step and no run     *)
(* dies.                                                                   *)
(***************************************************************************)
EXTENDS Integers, Sequences, SequencesExt

CONSTANTS
  EntryNames,  \* that top-level entries can have
  Lossy,       \* name -> the text it is stored as; its own but for one not UTF-8
  Encoded,     \* text -> what the S3 client makes of it in a key
  Expands,     \* text -> the names a glob of it matches
  Sources,     \* what can be there: name -> its type
  Filters,     \* sets of --partition values, which are text; {} for none
  Elsewhere,   \* texts that lead to a directory that is no entry: a path, ".", ""
  Locators,    \* of an S3 index: sequences of segments
  MaxRuns      \* bound: runs

ROOT_PARTITION == "__root__"
RESERVED_INDEX_NAMES == {ROOT_PARTITION, ".xdu-complete"}

Types == {"none", "dir", "file", "link to dir", "link to file"}

\* The name of the code's own partition is the same in a key and in a glob.
ASSUME TopLevelOK ==
  /\ DOMAIN Lossy = EntryNames
  /\ \A s \in Sources : s \in [EntryNames -> Types]
  /\ \A chosen \in Filters : \A n \in chosen \cap EntryNames : Lossy[n] = n
  /\ Locators \subseteq Seq(DOMAIN Encoded)
  /\ Encoded[ROOT_PARTITION] = ROOT_PARTITION /\ Expands[ROOT_PARTITION] = {ROOT_PARTITION}
  /\ MaxRuns \in Nat

VARIABLES
  transport, prefix,  \* of the index; prefix is <<>> for a local one
  source,             \* the directory, as it is during a run
  filter,             \* --partition
  pc, runs,
  queue, walked,      \* the run's work items, still to walk and done
  index,              \* chunks: what they are of, and the directory they are in
  marker
vars == <<transport, prefix, source, filter, pc, runs, queue, walked, index, marker>>

Go(label) == pc' = label
Refuse    == pc' = "refused"
Only(check, next) == IF check THEN Go(next) ELSE Refuse
Checks    == UNCHANGED <<transport, prefix, source, filter, runs, queue, walked, index, marker>>

-----------------------------------------------------------------------------
(* Names.                                                                  *)

\* survives_as_key_segment
Survives(text) == text # "" /\ Encoded[text] = text

\* GLOB_METACHARACTERS: a glob of the text can match something else.
Globs(text) == Expands[text] # {text}

\* A slip: what a glob expands is let through.
NamesAPartition_Globs(n) == Lossy[n] = n /\ Survives(n)

\* s3_partition_name_problem finds none.
NamesAPartition(n) == Lossy[n] = n /\ ~Globs(n) /\ Survives(n)

\* The sink's directory for a partition, and what the readers' glob says of one.
ChunkDirectory(partition) ==
  IF transport = "s3" THEN [i \in 1 .. Len(prefix) |-> Encoded[prefix[i]]] \o <<Encoded[partition]>>
  ELSE <<partition>>

\* S3Locator::parse leaves no slash at the end.
Trimmed(p) ==
  LET kept == {i \in 1 .. Len(p) : p[i] # ""} IN
  IF kept = {} THEN <<>> ELSE SubSeq(p, 1, CHOOSE i \in kept : \A j \in kept : j <= i)

-----------------------------------------------------------------------------
(* The checks, in the order of the run.                                    *)

\* Between runs anything may become of the source.
Begin ==
  /\ pc = "idle" /\ runs < MaxRuns
  /\ source' \in Sources /\ filter' \in Filters
  /\ runs' = runs + 1 /\ walked' = {}
  /\ Go("connect")
  /\ UNCHANGED <<transport, prefix, queue, index, marker>>

\* S3Locator::parse and S3Sink::with_store
Connect ==
  /\ pc = "connect"
  /\ Only(\A i \in 1 .. Len(prefix) : ~Globs(prefix[i]) /\ Survives(prefix[i]), "filter")
  /\ Checks

\* top_dir.join(n).is_dir(), which takes paths and follows links.
LeadsToDir(n) == n \in Elsewhere \/ (n \in EntryNames /\ source[n] \in {"dir", "link to dir"})

CheckFilter ==
  /\ pc = "filter"
  /\ Only(\A n \in filter : LeadsToDir(n), "preflight")
  /\ Checks

\* The prefix is listed once, and that may fail.
Preflight ==
  /\ pc = "preflight"
  /\ Go("names") \/ (transport = "s3" /\ Refuse)
  /\ Checks

Dirs == {n \in EntryNames : source[n] = "dir"}

CheckTopLevel ==
  /\ pc = "names"
  /\ Only(transport = "s3" => \A n \in Dirs : NamesAPartition(n), "queue")
  /\ Checks

Item(partition, from) == [partition |-> partition, from |-> from]
RootItem == Item(ROOT_PARTITION, "loose files")
Selected == {Item(Lossy[n], n) : n \in {d \in Dirs : filter = {} \/ Lossy[d] \in filter}}
WorkItems == Selected \cup IF \E n \in EntryNames : source[n] = "file" THEN {RootItem} ELSE {}

\* A slip: names that are stored alike are no matter.
Queueable_Collide == {Lossy[n] : n \in Dirs} \cap RESERVED_INDEX_NAMES = {} /\ WorkItems # {}

Queueable ==
  /\ {Lossy[n] : n \in Dirs} \cap RESERVED_INDEX_NAMES = {}
  /\ WorkItems # {}
  /\ \A a, b \in WorkItems : a.partition = b.partition => a = b

BuildWorkQueue ==
  /\ pc = "queue"
  /\ IF Queueable THEN queue' = WorkItems /\ Go("clear")
     ELSE Refuse /\ UNCHANGED queue
  /\ UNCHANGED <<transport, prefix, source, filter, runs, walked, index, marker>>

-----------------------------------------------------------------------------
(* The run.                                                                *)

ClearMarker ==
  /\ pc = "clear"
  /\ marker' = FALSE /\ Go("walk")
  /\ UNCHANGED <<transport, prefix, source, filter, runs, queue, walked, index>>

\* A partition's chunks replace those in its directory.  The loose files are first in
\* the queue; the order of the directories makes no difference here.
Walk(item) ==
  /\ pc = "walk" /\ item \in queue
  /\ RootItem \in queue => item = RootItem
  /\ index' = {c \in index : c.dir # ChunkDirectory(item.partition)}
                \cup {[of |-> item, dir |-> ChunkDirectory(item.partition)]}
  /\ queue' = queue \ {item} /\ walked' = walked \cup {item}
  /\ UNCHANGED <<transport, prefix, source, filter, pc, runs, marker>>

Attest ==
  /\ pc = "walk" /\ queue = {}
  /\ marker' = TRUE /\ Go("idle")
  /\ UNCHANGED <<transport, prefix, source, filter, runs, queue, walked, index>>

Refused ==
  /\ pc = "refused" /\ Go("idle")
  /\ Checks

Init ==
  /\ transport \in {"local", "s3"}
  /\ prefix \in IF transport = "s3" THEN {Trimmed(p) : p \in Locators} ELSE {<<>>}
  /\ source \in Sources /\ filter = {}
  /\ pc = "idle" /\ runs = 0 /\ queue = {} /\ walked = {}
  /\ index = {} /\ marker = FALSE

Next ==
  \/ Begin \/ Connect \/ CheckFilter \/ Preflight \/ CheckTopLevel \/ BuildWorkQueue
  \/ ClearMarker \/ (\E item \in queue : Walk(item)) \/ Attest \/ Refused

Spec == Init /\ [][Next]_vars

-----------------------------------------------------------------------------
(* Readers and properties.                                                 *)

\* index_glob_tail: what a reader scoped to one partition, or to none, finds.
Found(partition) ==
  {c \in index : Len(c.dir) = Len(prefix) + 1 /\ SubSeq(c.dir, 1, Len(prefix)) = prefix
                   /\ Last(c.dir) \in Expands[partition]}
FoundByAll == {c \in index : Len(c.dir) = Len(prefix) + 1 /\ SubSeq(c.dir, 1, Len(prefix)) = prefix}

Attested == pc = "idle" /\ marker

Indexed == {item.partition : item \in walked}

\* "Reject instead of corrupting": every directory a finished run walked, and the
\* loose files, are in the index and readers find them, none in the place of another;
\* and "index only specific partitions (top-level subdirectory names)": of what was
\* named, the top-level directories have been walked.  Links, and paths to what is no
\* entry, pass the check of the names as well; the queue takes neither, and the run
\* goes on without them.
EveryItemFound ==
  Attested =>
    /\ walked \subseteq {c.of : c \in FoundByAll}
    /\ walked # {} => filter \cap Dirs \subseteq Indexed

\* "optionally scoped to a single partition": its chunks, and nobody else's, but for
\* a local partition whose name is a glob of others.
ScopedToOne ==
  Attested => \A item \in walked :
    transport = "s3" \/ ~Globs(item.partition) =>
      {c.of.partition : c \in Found(item.partition)} = {item.partition}
===============================================================================
