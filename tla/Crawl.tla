-------------------------------- MODULE Crawl --------------------------------
(***************************************************************************)
(* One xdu crawl after another over one index.                             *)
(*                                                                         *)
(* A run checks everything that can still refuse it, clears the completion *)
(* marker, lets `jobs` driver threads drain a queue of partitions into an  *)
(* index sink, joins them, and writes the marker only if none failed and   *)
(* every read error was tolerated.  The process can die between any two    *)
(* steps; what it leaves in the index is what the next run starts from.    *)
(*                                                                         *)
(* The sink is the local directory (chunks written as .partial, renamed    *)
(* when the partition finalizes, stale tail pruned up to the first gap) or *)
(* an S3 prefix (each chunk one PUT at its final key, stale chunks listed  *)
(* and deleted one by one).                                                *)
(***************************************************************************)
EXTENDS Integers, FiniteSets

CONSTANTS
  Drivers,      \* driver threads, as many as --jobs; one when that is 0
  NParts,       \* partitions are 0..NParts in queue order; 0 is __root__
  Refused,      \* top-level directory names the destination cannot hold
  Sink,         \* "local" or "s3"
  BuffSize,     \* --buffsize: rows per chunk
  MaxEntries,   \* bound: entries one walk of one partition yields
  MaxRuns,      \* bound: runs that get as far as clearing the marker
  OldChunks,    \* bound: chunks per partition an earlier run (run 0) left
  OldFormat,    \* index format version run 0 wrote
  ScopedRuns,   \* whether runs may carry --partition
  Faults        \* which calls may fail, and whether the process may die

Partition == 0 .. NParts
Dirs      == 1 .. NParts

FaultKinds == {"put", "finalize", "report", "clear", "attest", "walk", "crash"}

ASSUME ConstantsOK ==
  /\ IsFiniteSet(Drivers) /\ Drivers # {}
  /\ NParts \in Nat
  /\ Sink \in {"local", "s3"}
  /\ BuffSize \in Nat
  /\ {MaxEntries, MaxRuns, OldChunks} \subseteq Nat
  /\ OldFormat \in {1, 2}
  /\ ScopedRuns \in BOOLEAN
  /\ Faults \subseteq FaultKinds
  /\ Refused \cap Partition = {}

(***************************************************************************)
(* A chunk is a Parquet file: its number, the run that wrote it, which of  *)
(* the rows of that run's walk it holds, and whether its bytes are all     *)
(* there.                                                                  *)
(***************************************************************************)
Chunk == [id : Nat, run : Nat, rows : SUBSET Nat, whole : BOOLEAN]

FormatOf(r) == IF r = 0 THEN OldFormat ELSE 2

Marker   == [state : {"none", "torn", "ok"}, run : Nat, errors : Nat]
NoMarker == [state |-> "none", run |-> 0, errors |-> 0]
Torn     == [state |-> "torn", run |-> 0, errors |-> 0]
MarkerOf(r, n) == [state |-> "ok", run |-> r, errors |-> n]

VARIABLES
  (* the index: survives the process *)
  final,    \* partition -> the chunks a reader's glob matches
  partial,  \* partition -> the .partial files of a local index
  marker,   \* .xdu-complete
  (* the process *)
  phase,    \* where the main thread is
  run,      \* number of the latest run that cleared the marker
  allow,    \* --allow-errors
  todo,     \* the shared work queue
  cancel,   \* raised by the first driver that fails
  errs,     \* global_errors
  pc,       \* driver -> where it is
  job,      \* driver -> the partition it is on, its PartitionBuffer and tallies
  (* history *)
  queued,   \* the latest run's whole queue
  walked,   \* partition -> rows the latest run's walk of it yielded
  hard,     \* hard errors the latest run met
  late      \* partitions taken after cancel was raised

index == <<final, partial, marker>>
ghost == <<queued, walked, hard, late>>
vars  == <<final, partial, marker, phase, run, allow, todo, cancel, errs,
           pc, job, queued, walked, hard, late>>

Job == [part : Partition, seen : Nat, rows : Nat, buf : SUBSET Nat, next : Nat,
        errs : Nat, cursor : Nat, stale : SUBSET Nat]

\* PartitionBuffer::new and the per-partition tallies, for partition p.
NewJob(p) == [part |-> p, seen |-> 0, rows |-> 0, buf |-> {}, next |-> 0,
              errs |-> 0, cursor |-> 0, stale |-> {}]

-----------------------------------------------------------------------------
(* What an earlier, finished run of this or an older xdu can have left.    *)

OldChunk(i) == [id |-> i, run |-> 0, rows |-> {i + 1}, whole |-> TRUE]

Init ==
  /\ final \in [Partition -> {{OldChunk(i) : i \in 0 .. (n - 1)} : n \in 0 .. OldChunks}]
  /\ partial = [p \in Partition |-> {}]
  /\ marker \in {NoMarker, MarkerOf(0, 0)}
  /\ phase = "stopped"
  /\ run = 0
  /\ allow = FALSE
  /\ todo = {}
  /\ cancel = FALSE
  /\ errs = 0
  /\ pc = [d \in Drivers |-> "idle"]
  /\ job = [d \in Drivers |-> NewJob(0)]
  /\ queued = {}
  /\ walked = [p \in Partition |-> 0]
  /\ hard = 0
  /\ late = 0

-----------------------------------------------------------------------------
(* Pre-flight.  Everything here only reads the source tree and the          *)
(* destination, so it is one step: the run is refused or it is accepted.    *)

Scopes == IF ScopedRuns THEN SUBSET Dirs ELSE {{}}   \* {} : no --partition

\* The queue build_work_queue makes of the top-level entries: the directories
\* the filter selects, and __root__ whenever there are loose files.
WorkQueue(present, scope) ==
  {p \in present \cap Partition : p = 0 \/ scope = {} \/ p \in scope}

\* A named partition must be a directory, no directory may bear a name the
\* index cannot hold, selected or not, and something must be left to index.
Accepts(present, scope) ==
  /\ scope \subseteq present
  /\ present \cap Refused = {}
  /\ WorkQueue(present, scope) # {}

AcceptRun(present, scope, tolerant) ==
  /\ phase = "stopped"
  /\ run < MaxRuns
  /\ Accepts(present, scope)
  /\ phase' = "clear"
  /\ allow' = tolerant
  /\ todo' = WorkQueue(present, scope)
  /\ UNCHANGED <<final, partial, marker, run, cancel, errs, pc, job,
                 queued, walked, hard, late>>

\* Slip: the marker is cleared before the checks.
RefuseRun_AfterClear(present, scope) ==
  /\ phase = "stopped"
  /\ ~Accepts(present, scope)
  /\ marker' = NoMarker
  /\ UNCHANGED <<final, partial, phase, run, allow, todo, cancel, errs, pc, job, ghost>>

RefuseRun(present, scope) ==
  /\ phase = "stopped"
  /\ ~Accepts(present, scope)
  /\ UNCHANGED vars

BeginRun ==
  \E present \in SUBSET (Partition \cup Refused), scope \in Scopes :
    \/ \E tolerant \in BOOLEAN : AcceptRun(present, scope, tolerant)
    \/ RefuseRun(present, scope)

-----------------------------------------------------------------------------
(* The process ends: whatever it held in memory is gone.                    *)

Halt ==
  /\ phase' = "stopped"
  /\ allow' = FALSE
  /\ todo' = {}
  /\ cancel' = FALSE
  /\ errs' = 0
  /\ pc' = [d \in Drivers |-> "idle"]
  /\ job' = [d \in Drivers |-> NewJob(0)]
  /\ run' = run

\* A run that ends unattested makes no claim to keep a history for.
Forget ==
  /\ queued' = {}
  /\ walked' = [p \in Partition |-> 0]
  /\ hard' = 0
  /\ late' = 0

\* Before it clears the marker a run has claimed nothing yet, and the claim
\* that stands is the previous run's.
Crash ==
  /\ "crash" \in Faults
  /\ phase # "stopped"
  /\ Halt
  /\ IF phase = "drive" THEN Forget ELSE UNCHANGED ghost
  /\ UNCHANGED index

-----------------------------------------------------------------------------
(* The first write: the marker goes, then the drivers start.                *)

NumDrivers(items) ==
  IF Cardinality(Drivers) < items THEN Cardinality(Drivers) ELSE items

\* Slip: the old marker stays until the new one overwrites it.
Cleared_Never == marker

Cleared == NoMarker

ClearMarker ==
  /\ phase = "clear"
  /\ marker' = Cleared
  /\ phase' = "drive"
  /\ run' = run + 1
  /\ \E started \in SUBSET Drivers :
       /\ Cardinality(started) = NumDrivers(Cardinality(todo))
       /\ pc' = [d \in Drivers |-> IF d \in started THEN "check" ELSE "done"]
  /\ queued' = todo
  /\ walked' = [p \in Partition |-> 0]
  /\ hard' = 0
  /\ late' = 0
  /\ UNCHANGED <<final, partial, allow, todo, cancel, errs, job>>

\* A DELETE whose answer is lost may have removed the object.
ClearFails ==
  /\ "clear" \in Faults
  /\ phase = "clear"
  /\ marker' \in {marker} \cup (IF Sink = "s3" THEN {NoMarker} ELSE {})
  /\ Halt
  /\ UNCHANGED <<final, partial, ghost>>

-----------------------------------------------------------------------------
(* A driver drains the queue.                                               *)

Goto(d, to) == pc' = [pc EXCEPT ![d] = to]

\* Slip: a driver does not look at the flag.
CheckCancel_Blind(d) ==
  /\ pc[d] = "check"
  /\ Goto(d, "take")
  /\ UNCHANGED <<index, phase, run, allow, todo, cancel, errs, job, ghost>>

CheckCancel(d) ==
  /\ pc[d] = "check"
  /\ Goto(d, IF cancel THEN "done" ELSE "take")
  /\ UNCHANGED <<index, phase, run, allow, todo, cancel, errs, job, ghost>>

\* Slip: the front item is read and left in the queue.
TakePartition_Peek(d) ==
  /\ pc[d] = "take"
  /\ \E p \in todo :
       /\ \A q \in todo : p <= q
       /\ job' = [job EXCEPT ![d] = NewJob(p)]
  /\ Goto(d, "walk")
  /\ UNCHANGED <<index, phase, run, allow, todo, cancel, errs, ghost>>

\* pop_front under the queue's lock; the flag is not looked at again here.
TakePartition(d) ==
  /\ pc[d] = "take"
  /\ \E p \in todo :
       /\ \A q \in todo : p <= q
       /\ todo' = todo \ {p}
       /\ job' = [job EXCEPT ![d] = NewJob(p)]
  /\ Goto(d, "walk")
  /\ late' = IF cancel THEN late + 1 ELSE late
  /\ UNCHANGED <<index, phase, run, allow, cancel, errs, queued, walked, hard>>

\* Slip: an empty queue is polled again.
QueueEmpty_Spins(d) ==
  /\ pc[d] = "take"
  /\ todo = {}
  /\ Goto(d, "check")
  /\ UNCHANGED <<index, phase, run, allow, todo, cancel, errs, job, ghost>>

QueueEmpty(d) ==
  /\ pc[d] = "take"
  /\ todo = {}
  /\ Goto(d, "done")
  /\ UNCHANGED <<index, phase, run, allow, todo, cancel, errs, job, ghost>>

(* The walk: each entry is a file that is indexed, a path that raced away,  *)
(* or a hard error; a directory that could be read leaves no trace.         *)

MoreEntries(d) == pc[d] = "walk" /\ job[d].seen < MaxEntries

WalkVanished(d) ==
  /\ MoreEntries(d)
  /\ job' = [job EXCEPT ![d].seen = @ + 1]
  /\ UNCHANGED <<index, phase, run, allow, todo, cancel, errs, pc, ghost>>

WalkHardError(d) ==
  /\ "walk" \in Faults
  /\ MoreEntries(d)
  /\ job' = [job EXCEPT ![d].seen = @ + 1, ![d].errs = @ + 1]
  /\ hard' = hard + 1
  /\ UNCHANGED <<index, phase, run, allow, todo, cancel, errs, pc,
                 queued, walked, late>>

\* The rows buffered once the walk's next row is appended.
Appended(d) == job[d].buf \cup {job[d].rows + 1}

Fills(d) == Cardinality(Appended(d)) >= BuffSize

\* PartitionBuffer::add short of a full buffer.
BufferRow(d) ==
  /\ MoreEntries(d)
  /\ ~Fills(d)
  /\ job' = [job EXCEPT ![d].seen = @ + 1, ![d].rows = @ + 1, ![d].buf = Appended(d)]
  /\ walked' = [walked EXCEPT ![job[d].part] = @ + 1]
  /\ UNCHANGED <<index, phase, run, allow, todo, cancel, errs, pc, queued, hard, late>>

(* put_chunk: where chunk c of partition p is written, replacing a file of   *)
(* the same number.                                                         *)

Replace(chunks, c) == {o \in chunks : o.id # c.id} \cup {c}

\* Slip: a local chunk is written under its final name.
Put_InPlace(p, c) ==
  final' = [final EXCEPT ![p] = Replace(@, c)] /\ partial' = partial

Put(p, c) ==
  IF Sink = "local"
  THEN partial' = [partial EXCEPT ![p] = Replace(@, c)] /\ final' = final
  ELSE final' = [final EXCEPT ![p] = Replace(@, c)] /\ partial' = partial

\* Slip: the counter is read after it was stepped back.
NextChunk_OffByOne(d, rows) ==
  [id |-> job[d].next - 1, run |-> run, rows |-> rows, whole |-> TRUE]

NextChunk(d, rows) == [id |-> job[d].next, run |-> run, rows |-> rows, whole |-> TRUE]

\* PartitionBuffer::add that fills the buffer, with the flush it makes.
FlushRow(d) ==
  /\ MoreEntries(d)
  /\ Fills(d)
  /\ Put(job[d].part, NextChunk(d, Appended(d)))
  /\ job' = [job EXCEPT ![d].seen = @ + 1, ![d].rows = @ + 1,
                        ![d].buf = {}, ![d].next = @ + 1]
  /\ walked' = [walked EXCEPT ![job[d].part] = @ + 1]
  /\ UNCHANGED <<marker, phase, run, allow, todo, cancel, errs, pc, queued, hard, late>>

AfterWalk == IF Sink = "local" THEN "publish" ELSE "list"

\* Slip: the tail is not flushed before the partition finalizes.
EndWalk_Unflushed(d) ==
  /\ pc[d] = "walk"
  /\ Goto(d, AfterWalk)
  /\ UNCHANGED <<index, phase, run, allow, todo, cancel, errs, job, ghost>>

\* The walk is over: flush what is buffered, if anything is.
EndWalk(d) ==
  /\ pc[d] = "walk"
  /\ job[d].buf = {}
  /\ Goto(d, AfterWalk)
  /\ UNCHANGED <<index, phase, run, allow, todo, cancel, errs, job, ghost>>

FlushTail(d) ==
  /\ pc[d] = "walk"
  /\ job[d].buf # {}
  /\ Put(job[d].part, NextChunk(d, job[d].buf))
  /\ job' = [job EXCEPT ![d].buf = {}, ![d].next = @ + 1]
  /\ Goto(d, AfterWalk)
  /\ UNCHANGED <<marker, phase, run, allow, todo, cancel, errs, ghost>>

\* The rows of the chunk a driver may be putting: of a row that fills the
\* buffer, or of the tail flush.
Puts(d) == (IF MoreEntries(d) /\ Fills(d) THEN {Appended(d)} ELSE {})
             \cup (IF job[d].buf # {} THEN {job[d].buf} ELSE {})

\* A write that fails leaves no file or a torn .partial; a PUT is all or
\* nothing, but one whose answer is lost may have stored the object.
PutFails(d) ==
  /\ "put" \in Faults
  /\ pc[d] = "walk"
  /\ \E rows \in Puts(d) :
       \/ UNCHANGED <<final, partial>>
       \/ Put(job[d].part, [NextChunk(d, rows) EXCEPT !.whole = (Sink = "s3")])
  /\ Goto(d, "failing")
  /\ UNCHANGED <<marker, phase, run, allow, todo, cancel, errs, job, ghost>>

-----------------------------------------------------------------------------
(* LocalSink::finalize_partition: rename 0..count, then prune from count up  *)
(* to the first gap.                                                        *)

Rename(d) ==
  LET p == job[d].part
      i == job[d].cursor
  IN  /\ pc[d] = "publish"
      /\ i < job[d].next
      /\ \E c \in partial[p] :
           /\ c.id = i
           /\ partial' = [partial EXCEPT ![p] = @ \ {c}]
           /\ final' = [final EXCEPT ![p] = Replace(@, c)]
      /\ job' = [job EXCEPT ![d].cursor = @ + 1]
      /\ UNCHANGED <<marker, phase, run, allow, todo, cancel, errs, pc, ghost>>

Ids(chunks) == {c.id : c \in chunks}

Without(chunks, i) == {c \in chunks : c.id # i}

PruneNext(d) ==
  LET p == job[d].part
      i == job[d].cursor
  IN  /\ pc[d] = "publish"
      /\ i >= job[d].next
      /\ i \in Ids(final[p])
      /\ final' = [final EXCEPT ![p] = Without(@, i)]
      /\ job' = [job EXCEPT ![d].cursor = @ + 1]
      /\ UNCHANGED <<partial, marker, phase, run, allow, todo, cancel, errs, pc, ghost>>

\* Slip: the tally is stored, not added.
Fold_Stores(d) ==
  /\ errs' = job[d].errs
  /\ Goto(d, "check")
  /\ UNCHANGED <<index, phase, run, allow, todo, cancel, job, ghost>>

\* finalize_partition returned Ok: the partition's tallies join the run's, and
\* the driver goes on unless it cannot report that to a terminal.
Fold(d) ==
  /\ errs' = errs + job[d].errs
  /\ \/ Goto(d, "check")
     \/ "report" \in Faults /\ Goto(d, "failing")
  /\ UNCHANGED <<index, phase, run, allow, todo, cancel, job, ghost>>

LocalFinalized(d) ==
  /\ pc[d] = "publish"
  /\ job[d].cursor >= job[d].next
  /\ job[d].cursor \notin Ids(final[job[d].part])
  /\ Fold(d)

-----------------------------------------------------------------------------
(* S3Sink::finalize_partition: LIST, then DELETE every listed id from count  *)
(* up, ascending, past any gap.                                             *)

\* Slip: the first stale chunk is taken for the run's last.
StaleIds_OffByOne(chunks, count) == {i \in Ids(chunks) : i > count}

StaleIds(chunks, count) == {i \in Ids(chunks) : i >= count}

ListChunks(d) ==
  /\ pc[d] = "list"
  /\ job' = [job EXCEPT ![d].stale = StaleIds(final[job[d].part], job[d].next)]
  /\ Goto(d, "prune")
  /\ UNCHANGED <<index, phase, run, allow, todo, cancel, errs, ghost>>

NextStale(d) == CHOOSE i \in job[d].stale : \A j \in job[d].stale : i <= j

DeleteNext(d) ==
  /\ pc[d] = "prune"
  /\ job[d].stale # {}
  /\ final' = [final EXCEPT ![job[d].part] = Without(@, NextStale(d))]
  /\ job' = [job EXCEPT ![d].stale = @ \ {NextStale(d)}]
  /\ UNCHANGED <<partial, marker, phase, run, allow, todo, cancel, errs, pc, ghost>>

S3Finalized(d) ==
  /\ pc[d] = "prune"
  /\ job[d].stale = {}
  /\ Fold(d)

\* A rename, remove, LIST or DELETE fails; only a DELETE can have worked anyway.
FinalizeFails(d) ==
  /\ "finalize" \in Faults
  /\ \/ pc[d] = "publish" \/ pc[d] = "list"
     \/ pc[d] = "prune" /\ job[d].stale # {}
  /\ \/ UNCHANGED final
     \/ /\ pc[d] = "prune"
        /\ final' = [final EXCEPT ![job[d].part] = Without(@, NextStale(d))]
  /\ Goto(d, "failing")
  /\ UNCHANGED <<partial, marker, phase, run, allow, todo, cancel, errs, job, ghost>>

\* The error has left drain_queue; raising the flag is a step of its own.
RaiseCancel(d) ==
  /\ pc[d] = "failing"
  /\ cancel' = TRUE
  /\ Goto(d, "failed")
  /\ UNCHANGED <<index, phase, run, allow, todo, errs, job, ghost>>

Driver(d) ==
  \/ CheckCancel(d) \/ TakePartition(d) \/ QueueEmpty(d)
  \/ WalkVanished(d) \/ WalkHardError(d) \/ BufferRow(d) \/ FlushRow(d)
  \/ EndWalk(d) \/ FlushTail(d) \/ PutFails(d)
  \/ Rename(d) \/ PruneNext(d) \/ LocalFinalized(d)
  \/ ListChunks(d) \/ DeleteNext(d) \/ S3Finalized(d)
  \/ FinalizeFails(d) \/ RaiseCancel(d)

-----------------------------------------------------------------------------
(* The drivers are joined; the run is attested or it is not.                *)

\* Slip: the main thread goes on once some driver is done.
Joined_First == phase = "drive" /\ \E d \in Drivers : pc[d] \in {"done", "failed"}

Joined == phase = "drive" /\ \A d \in Drivers : pc[d] \in {"done", "failed"}

AnyFailed == \E d \in Drivers : pc[d] = "failed"

Tolerable == ~AnyFailed /\ (errs = 0 \/ allow)

RunFails ==
  /\ Joined
  /\ ~Tolerable
  /\ Halt
  /\ Forget
  /\ UNCHANGED index

Attest ==
  /\ Joined
  /\ Tolerable
  /\ marker' = MarkerOf(run, errs)
  /\ Halt
  /\ UNCHANGED <<final, partial, ghost>>

\* fs::write that fails may leave a truncated file, a lost PUT answer the object.
AttestFails ==
  /\ "attest" \in Faults
  /\ Joined
  /\ Tolerable
  /\ marker' \in {NoMarker, IF Sink = "local" THEN Torn ELSE MarkerOf(run, errs)}
  /\ Halt
  /\ UNCHANGED <<final, partial, ghost>>

Main == ClearMarker \/ ClearFails \/ RunFails \/ Attest \/ AttestFails

Next ==
  \/ BeginRun
  \/ Main
  \/ \E d \in Drivers : Driver(d)
  \/ Crash

Spec == Init /\ [][Next]_vars

\* The threads of a run are scheduled; nothing obliges an operator to start one.
FairSpec == Spec /\ WF_vars(Main) /\ \A d \in Drivers : WF_vars(Driver(d))

-----------------------------------------------------------------------------
(* Types *)

Phase == {"stopped", "clear", "drive"}

Place == {"idle", "check", "take", "walk", "publish", "list", "prune",
          "failing", "failed", "done"}

TypeOK ==
  /\ final \in [Partition -> SUBSET Chunk]
  /\ partial \in [Partition -> SUBSET Chunk]
  /\ marker \in Marker
  /\ phase \in Phase
  /\ run \in Nat
  /\ allow \in BOOLEAN
  /\ todo \subseteq Partition
  /\ cancel \in BOOLEAN
  /\ errs \in Nat
  /\ pc \in [Drivers -> Place]
  /\ job \in [Drivers -> Job]
  /\ queued \subseteq Partition
  /\ walked \in [Partition -> Nat]
  /\ hard \in Nat
  /\ late \in Nat

-----------------------------------------------------------------------------
(* What the completion marker promises *)

Attested == marker.state = "ok"

\* Partition p holds the n rows of run r's walk of it, each once, and nothing else.
Exactly(p, r, n) ==
  /\ \A c \in final[p] : c.run = r /\ c.whole /\ c.rows \subseteq 1 .. n
  /\ \A i \in 1 .. n : \E c \in final[p] : i \in c.rows
  /\ \A c, e \in final[p] : c # e => c.rows \cap e.rows = {}

\* A marker is the claim of the run that wrote it: every partition that run
\* queued holds exactly the rows its walk yielded, none lost, doubled, torn or
\* left over from an earlier run (xdu.rs writes the marker after the join;
\* doc/xdu.1.scd: "written only once every partition has been walked and
\* finalized").
AttestedExact ==
  Attested /\ marker.run > 0 => \A p \in queued : Exactly(p, marker.run, walked[p])

\* Partition p holds the n rows of run r's walk of it in whole chunks of that
\* run, each row once, numbered from 0 without a gap; what else is there lies
\* beyond a gap.
Present(p, r, n) ==
  LET mine == {c \in final[p] : c.run = r}
  IN  /\ \A c \in mine : c.whole /\ \A e \in mine : c # e => c.rows \cap e.rows = {}
      /\ UNION {c.rows : c \in mine} = 1 .. n
      /\ Ids(mine) = 0 .. (Cardinality(mine) - 1)
      /\ \A c \in final[p] \ mine : c.id > Cardinality(mine)

\* What survives of that on a local index, whose prune stops at a gap: the
\* run's chunks are there complete and once, and no stale one goes on from them.
AttestedPresent ==
  Attested /\ marker.run > 0 => \A p \in queued : Present(p, marker.run, walked[p])

\* The tolerated-error count a reader warns from is every hard error the run
\* met, in whatever order the drivers folded theirs in.
MarkerCountsEveryError == Attested /\ marker.run > 0 => marker.errors = hard

\* No reader's glob ever matches a file whose bytes are not all there.
FinalsWhole == \A p \in Partition : \A c \in final[p] : c.whole

\* "An index left behind by a failed or interrupted run carries no marker"
\* (doc/xdu.1.scd): no partition of an attested index is a run's unfinished
\* rewrite of another run's rows.  It does not hold: a --partition run attests
\* the partitions it never looked at.
AttestedUnmixed ==
  Attested => \A p \in Partition : \A c, e \in final[p] : c.run = e.run

\* The format version a reader accepts an index by is the version of every
\* chunk it then reads (lib.rs, index_version_error).  It does not hold: a run
\* writes its version for the whole index and its chunks for its own queue.
AttestedOneFormat ==
  Attested => \A p \in Partition : \A c \in final[p] :
                FormatOf(c.run) = FormatOf(marker.run)

\* While the marker stands, what readers see does not change: the marker goes
\* before the first chunk and comes back after the last prune.
IndexFixedUnderMarker ==
  [][Attested \/ Attested' => final' = final]_vars

\* An attested index loses its attestation only to a run that was accepted and
\* has work to do; a refused run leaves it standing.
OnlyAcceptedRunRevokes ==
  [][Attested /\ marker' # marker => phase = "clear" /\ todo # {}]_vars

\* On an S3 index the crawl is the transaction IndexLedger describes: chunk by
\* chunk, by several threads, through crashes and lost answers.
Ledger == INSTANCE IndexLedger
            WITH Partitions <- Partition,
                 attested   <- Attested,
                 txn        <- run,
                 scope      <- IF phase = "drive" THEN queued ELSE {},
                 owners     <- [p \in Partition |-> {c.run : c \in final[p]}]

CrawlIsATransaction == Ledger!Spec

\* After a driver raised the flag each of the others takes at most one more
\* partition: the one it was already past the check for.
CancelStopsTheQueue == late < Cardinality(Drivers)

\* Every run ends: the drivers drain the queue or give up, and are joined.
EveryRunEnds == phase # "stopped" ~> phase = "stopped"
=============================================================================
