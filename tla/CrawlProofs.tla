----------------------------- MODULE CrawlProofs -----------------------------
(***************************************************************************)
(* Theorems about Crawl, for any number of drivers, partitions, rows and   *)
(* runs, any chunk size and any faults.  First what holds for both sinks:  *)
(* types, control, whole files, the tallies.  Then what an attested crawl  *)
(* leaves in each of them: on S3 exactly the rows of its own walk, and the *)
(* crawl implements the transaction of IndexLedger; on a local index its   *)
(* own walk complete, once, and numbered without a gap, whatever stale     *)
(* chunks survive beyond one.  Last, the whole invariant of the crawl.     *)
(***************************************************************************)
EXTENDS CrawlInvariant, FiniteSetTheorems, WellFoundedInduction, TLAPS

LEMMA PartitionFacts == 0 \in Partition /\ Partition \subseteq Nat /\ Dirs \subseteq Partition
  BY ConstantsOK DEF Partition, Dirs

LEMMA NewJobType == ASSUME NEW p \in Partition PROVE NewJob(p) \in Job
  BY DEF NewJob, Job

LEMMA ReplaceType ==
  ASSUME NEW S \in SUBSET Chunk, NEW c \in Chunk
  PROVE  Replace(S, c) \in SUBSET Chunk
  BY DEF Replace

LEMMA PutType ==
  ASSUME TypeOK, NEW p \in Partition, NEW c \in Chunk, Put(p, c)
  PROVE  /\ final' \in [Partition -> SUBSET Chunk]
         /\ partial' \in [Partition -> SUBSET Chunk]
  BY ReplaceType DEF Put, TypeOK

LEMMA HaltType == TypeOK /\ Halt =>
  /\ phase' \in Phase /\ run' \in Nat /\ allow' \in BOOLEAN /\ todo' \subseteq Partition
  /\ cancel' \in BOOLEAN /\ errs' \in Nat /\ pc' \in [Drivers -> Place]
  /\ job' \in [Drivers -> Job]
  BY PartitionFacts, NewJobType DEF TypeOK, Halt, Phase, Place

LEMMA ForgetType == Forget =>
  /\ queued' \subseteq Partition /\ walked' \in [Partition -> Nat]
  /\ hard' \in Nat /\ late' \in Nat
  BY DEF Forget

LEMMA DriverType ==
  ASSUME TypeOK, NEW d \in Drivers, Driver(d)
  PROVE  TypeOK'
<1> USE DEF ghost, index
<1>0. job[d] \in Job /\ job[d].part \in Partition /\ pc[d] \in Place
  BY DEF TypeOK, Job
<1>1. CASE CheckCancel(d)
  BY <1>1 DEF CheckCancel, Goto, TypeOK, Place
<1>2. CASE TakePartition(d)
  BY <1>2, NewJobType, PartitionFacts DEF TakePartition, Goto, TypeOK, Place
<1>3. CASE QueueEmpty(d)
  BY <1>3 DEF QueueEmpty, Goto, TypeOK, Place
<1>4. CASE WalkVanished(d)
  BY <1>4 DEF WalkVanished, TypeOK, Job
<1>5. CASE WalkHardError(d)
  BY <1>5 DEF WalkHardError, TypeOK, Job
<1>6. CASE BufferRow(d)
  BY <1>0, <1>6 DEF BufferRow, Appended, TypeOK, Job
<1>7. CASE FlushRow(d)
  <2>1. NextChunk(d, Appended(d)) \in Chunk
    BY <1>0 DEF NextChunk, Appended, Chunk, TypeOK, Job
  <2>2. QED
    BY <1>0, <1>7, <2>1, PutType DEF FlushRow, TypeOK, Job
<1>8. CASE EndWalk(d)
  BY <1>8 DEF EndWalk, Goto, AfterWalk, TypeOK, Place
<1>9. CASE FlushTail(d)
  <2>1. NextChunk(d, job[d].buf) \in Chunk
    BY <1>0 DEF NextChunk, Chunk, TypeOK, Job
  <2>2. QED
    BY <1>0, <1>9, <2>1, PutType DEF FlushTail, Goto, AfterWalk, TypeOK, Job, Place
<1>10. CASE PutFails(d)
  <2>1. ASSUME NEW rows \in Puts(d)
        PROVE  [NextChunk(d, rows) EXCEPT !.whole = (Sink = "s3")] \in Chunk
    <3>1. rows \in SUBSET Nat
      BY <1>0, <2>1 DEF Puts, Appended, Job
    <3>2. \A b \in BOOLEAN : [NextChunk(d, rows) EXCEPT !.whole = b] \in Chunk
      BY <1>0, <3>1 DEF NextChunk, Chunk, TypeOK, Job
    <3>3. (Sink = "s3") \in BOOLEAN
      OBVIOUS
    <3>4. QED
      BY <3>2, <3>3
  <2>2. QED
    BY <1>0, <1>10, <2>1, PutType DEF PutFails, Goto, TypeOK, Place
<1>11. CASE Rename(d)
  BY <1>0, <1>11, ReplaceType DEF Rename, TypeOK, Job
<1>12. CASE PruneNext(d)
  BY <1>0, <1>12 DEF PruneNext, Without, TypeOK, Job
<1>13. CASE LocalFinalized(d)
  BY <1>0, <1>13 DEF LocalFinalized, Fold, Goto, TypeOK, Place, Job
<1>14. CASE ListChunks(d)
  <2>1. StaleIds(final[job[d].part], job[d].next) \in SUBSET Nat
    BY <1>0 DEF StaleIds, Ids, TypeOK, Chunk
  <2>2. QED
    BY <1>0, <1>14, <2>1 DEF ListChunks, Goto, TypeOK, Place, Job
<1>15. CASE DeleteNext(d)
  BY <1>0, <1>15 DEF DeleteNext, Without, TypeOK, Job
<1>16. CASE S3Finalized(d)
  BY <1>0, <1>16 DEF S3Finalized, Fold, Goto, TypeOK, Place, Job
<1>17. CASE FinalizeFails(d)
  BY <1>0, <1>17 DEF FinalizeFails, Without, Goto, TypeOK, Place
<1>18. CASE RaiseCancel(d)
  BY <1>18 DEF RaiseCancel, Goto, TypeOK, Place
<1>19. QED
  BY <1>1, <1>2, <1>3, <1>4, <1>5, <1>6, <1>7, <1>8, <1>9, <1>10, <1>11, <1>12,
     <1>13, <1>14, <1>15, <1>16, <1>17, <1>18 DEF Driver

LEMMA InitType == Init => TypeOK
<1> SUFFICES ASSUME Init PROVE TypeOK
  OBVIOUS
<1>1. \A n \in 0 .. OldChunks : {OldChunk(i) : i \in 0 .. (n - 1)} \in SUBSET Chunk
  <2>1. \A i \in Nat : OldChunk(i) \in Chunk
    BY DEF OldChunk, Chunk
  <2>2. ASSUME NEW n \in 0 .. OldChunks PROVE \A i \in 0 .. (n - 1) : i \in Nat
    BY ConstantsOK
  <2>3. QED
    BY <2>1, <2>2
<1>2. final \in [Partition -> SUBSET Chunk]
  BY <1>1 DEF Init
<1>3. marker \in Marker
  BY DEF Init, Marker, NoMarker, MarkerOf
<1>4. QED
  BY <1>2, <1>3, NewJobType, PartitionFacts DEF Init, TypeOK, Phase, Place

LEMMA MainType == ASSUME TypeOK, Main PROVE TypeOK'
<1> USE DEF ghost, index
<1>1. CASE ClearMarker
  BY <1>1 DEF ClearMarker, Cleared, NoMarker, Marker, TypeOK, Phase, Place
<1>2. CASE ClearFails
  BY <1>2, HaltType DEF ClearFails, NoMarker, Marker, TypeOK
<1>3. CASE RunFails
  BY <1>3, HaltType, ForgetType DEF RunFails, TypeOK
<1>4. CASE Attest
  BY <1>4, HaltType DEF Attest, MarkerOf, Marker, TypeOK
<1>5. CASE AttestFails
  BY <1>5, HaltType DEF AttestFails, MarkerOf, NoMarker, Torn, Marker, TypeOK
<1>6. QED
  BY <1>1, <1>2, <1>3, <1>4, <1>5 DEF Main

LEMMA TypeStep == TypeOK /\ [Next]_vars => TypeOK'
<1> SUFFICES ASSUME TypeOK, [Next]_vars PROVE TypeOK'
  OBVIOUS
<1>1. CASE UNCHANGED vars
  BY <1>1 DEF vars, TypeOK
<1>2. CASE BeginRun
  <2>1. ASSUME NEW present, NEW scope, NEW tolerant \in BOOLEAN,
               AcceptRun(present, scope, tolerant)
        PROVE  TypeOK'
    BY <2>1 DEF AcceptRun, WorkQueue, TypeOK, Phase
  <2>2. ASSUME NEW present, NEW scope, RefuseRun(present, scope)
        PROVE  TypeOK'
    BY <2>2 DEF RefuseRun, vars, TypeOK
  <2>3. QED
    BY <1>2, <2>1, <2>2 DEF BeginRun
<1>3. CASE Main
  BY <1>3, MainType
<1>4. ASSUME NEW d \in Drivers, Driver(d) PROVE TypeOK'
  BY <1>4, DriverType
<1>5. CASE Crash
  BY <1>5, HaltType, ForgetType DEF Crash, ghost, index, TypeOK
<1>6. QED
  BY <1>1, <1>2, <1>3, <1>4, <1>5 DEF Next

\* Every variable keeps its type.
THEOREM TypeCorrect == Spec => []TypeOK
BY InitType, TypeStep, PTL DEF Spec

-----------------------------------------------------------------------------
(* Control *)

\* What every step of a driver has in common.
LEMMA DriverShape ==
  ASSUME TypeOK, NEW d \in Drivers, Driver(d)
  PROVE  /\ pc[d] \notin {"idle", "done", "failed"} /\ pc'[d] # "idle"
         /\ UNCHANGED <<phase, run, queued, marker>>
         /\ \A e \in Drivers \ {d} : pc'[e] = pc[e] /\ job'[e] = job[e]
         /\ pc'[d] = "done" => cancel \/ todo = {}
         /\ cancel' => cancel \/ pc'[d] = "failed"
         /\ pc'[d] = "publish" => Sink = "local" \/ pc[d] = "publish"
         /\ pc'[d] \in {"list", "prune"} => Sink = "s3" \/ pc[d] \in {"list", "prune"}
         /\ \/ TakePartition(d)
            \/ todo' = todo /\ job'[d].part = job[d].part /\ (Busy(d)' => Busy(d))
<1> USE DEF ghost, index, Busy
<1>0. job[d] \in Job /\ pc[d] \in Place
  BY DEF TypeOK
<1>1. CASE CheckCancel(d)
  BY <1>0, <1>1 DEF CheckCancel, Goto, TypeOK
<1>2. CASE TakePartition(d)
  BY <1>0, <1>2 DEF TakePartition, Goto, TypeOK
<1>3. CASE QueueEmpty(d)
  BY <1>0, <1>3 DEF QueueEmpty, Goto, TypeOK
<1>4. CASE WalkVanished(d)
  BY <1>0, <1>4 DEF WalkVanished, MoreEntries, TypeOK, Job
<1>5. CASE WalkHardError(d)
  BY <1>0, <1>5 DEF WalkHardError, MoreEntries, TypeOK, Job
<1>6. CASE BufferRow(d)
  BY <1>0, <1>6 DEF BufferRow, MoreEntries, TypeOK, Job
<1>7. CASE FlushRow(d)
  BY <1>0, <1>7 DEF FlushRow, MoreEntries, TypeOK, Job
<1>8. CASE EndWalk(d)
  BY <1>0, <1>8, ConstantsOK DEF EndWalk, Goto, AfterWalk, TypeOK
<1>9. CASE FlushTail(d)
  BY <1>0, <1>9, ConstantsOK DEF FlushTail, Goto, AfterWalk, TypeOK, Job
<1>10. CASE PutFails(d)
  BY <1>0, <1>10 DEF PutFails, Goto, TypeOK
<1>11. CASE Rename(d)
  BY <1>0, <1>11 DEF Rename, TypeOK, Job
<1>12. CASE PruneNext(d)
  BY <1>0, <1>12 DEF PruneNext, TypeOK, Job
<1>13. CASE LocalFinalized(d)
  BY <1>0, <1>13 DEF LocalFinalized, Fold, Goto, TypeOK
<1>14. CASE ListChunks(d)
  BY <1>0, <1>14 DEF ListChunks, Goto, TypeOK, Job
<1>15. CASE DeleteNext(d)
  BY <1>0, <1>15 DEF DeleteNext, TypeOK, Job
<1>16. CASE S3Finalized(d)
  BY <1>0, <1>16 DEF S3Finalized, Fold, Goto, TypeOK
<1>17. CASE FinalizeFails(d)
  BY <1>0, <1>17 DEF FinalizeFails, Goto, TypeOK
<1>18. CASE RaiseCancel(d)
  BY <1>0, <1>18 DEF RaiseCancel, Goto, TypeOK
<1>19. QED
  BY <1>1, <1>2, <1>3, <1>4, <1>5, <1>6, <1>7, <1>8, <1>9, <1>10, <1>11, <1>12,
     <1>13, <1>14, <1>15, <1>16, <1>17, <1>18 DEF Driver

LEMMA TodoFinite == ASSUME TypeOK PROVE IsFiniteSet(todo)
<1>1. IsFiniteSet(Partition)
  BY ConstantsOK, FS_Interval DEF Partition
<1>2. todo \subseteq Partition
  BY DEF TypeOK
<1>3. QED
  BY <1>1, <1>2, FS_Subset

LEMMA ControlInit == Init => PhaseInv /\ ClaimInv /\ DrainInv /\ SinkInv
BY DEF Init, PhaseInv, ClaimInv, DrainInv, SinkInv, NoMarker, MarkerOf

LEMMA ControlHalt ==
  ASSUME Halt
  PROVE  /\ phase' = "stopped" /\ todo' = {} /\ run' = run /\ ~cancel'
         /\ \A d \in Drivers : pc'[d] = "idle"
         /\ ClaimInv' /\ DrainInv' /\ SinkInv'
BY DEF Halt, ClaimInv, DrainInv, SinkInv

LEMMA ControlDriver ==
  ASSUME ControlInv, NEW d \in Drivers, Driver(d)
  PROVE  PhaseInv' /\ ClaimInv' /\ DrainInv' /\ SinkInv'
<1> USE DriverShape DEF ControlInv
<1>1. phase = "drive" /\ phase' = "drive"
  BY DEF PhaseInv
<1>2. PhaseInv'
  BY <1>1 DEF PhaseInv
<1>3. ClaimInv'
  <2>1. CASE TakePartition(d)
    <3>1. PICK p \in todo : todo' = todo \ {p} /\ job' = [job EXCEPT ![d] = NewJob(p)]
      BY <2>1 DEF TakePartition
    <3>2. job'[d].part = p /\ p \in queued
      BY <1>1, <3>1 DEF NewJob, ClaimInv, TypeOK
    <3>3. \A e \in Drivers \ {d} : Busy(e)' = Busy(e) /\ job'[e].part = job[e].part
      BY DEF Busy
    <3>4. QED
      BY <1>1, <3>1, <3>2, <3>3 DEF ClaimInv
  <2>2. CASE ~TakePartition(d)
    <3>1. todo' = todo /\ queued' = queued /\ \A e \in Drivers : job'[e].part = job[e].part /\ (Busy(e)' => Busy(e))
      BY <2>2 DEF Busy
    <3>2. QED
      BY <1>1, <3>1 DEF ClaimInv
  <2>3. QED
    BY <2>1, <2>2
<1>4. DrainInv'
  <2>1. cancel' => AnyFailed'
    BY <1>1 DEF DrainInv, AnyFailed
  <2>2. todo' \subseteq todo
    BY DEF TakePartition
  <2>3. ASSUME todo' # {} PROVE \E e \in Drivers : pc'[e] # "done"
    <3>1. CASE pc'[d] # "done"
      BY <3>1
    <3>2. CASE pc'[d] = "done"
      <4>1. PICK e \in Drivers : pc[e] = "failed"
        BY <1>1, <2>2, <2>3, <3>2 DEF DrainInv, AnyFailed
      <4>2. QED
        BY <4>1
    <3>3. QED
      BY <3>1, <3>2
  <2>4. QED
    BY <2>1, <2>3 DEF DrainInv
<1>5. SinkInv'
  BY DEF SinkInv
<1>6. QED
  BY <1>2, <1>3, <1>4, <1>5

LEMMA ControlStart ==
  ASSUME ControlInv, ClearMarker
  PROVE  PhaseInv' /\ ClaimInv' /\ DrainInv' /\ SinkInv'
<1> USE DEF ControlInv, ClearMarker
<1>1. PICK started \in SUBSET Drivers :
        /\ Cardinality(started) = NumDrivers(Cardinality(todo))
        /\ pc' = [d \in Drivers |-> IF d \in started THEN "check" ELSE "done"]
  OBVIOUS
<1>2. todo # {} /\ Cardinality(todo) \in Nat /\ Cardinality(todo) # 0
  BY TodoFinite, FS_EmptySet, FS_CardinalityType DEF PhaseInv
<1>3. Cardinality(Drivers) \in Nat /\ Cardinality(Drivers) # 0
  BY ConstantsOK, FS_EmptySet, FS_CardinalityType
<1>4. started # {}
  BY <1>1, <1>2, <1>3, FS_EmptySet DEF NumDrivers
<1>5. PhaseInv'
  BY <1>1 DEF PhaseInv, Cleared, NoMarker
<1>6. ClaimInv'
  BY <1>1, <1>2 DEF ClaimInv, Busy
<1>7. DrainInv'
  <2>1. ~cancel
    BY DEF PhaseInv
  <2>2. QED
    BY <1>1, <1>4, <2>1 DEF DrainInv
<1>8. SinkInv'
  BY <1>1 DEF SinkInv
<1>9. QED
  BY <1>5, <1>6, <1>7, <1>8

LEMMA ControlStep == ControlInv /\ [Next]_vars => ControlInv'
<1> SUFFICES ASSUME ControlInv, [Next]_vars PROVE PhaseInv' /\ ClaimInv' /\ DrainInv' /\ SinkInv'
  BY TypeStep DEF ControlInv
<1>1. CASE UNCHANGED vars
  BY <1>1 DEF vars, ControlInv, PhaseInv, ClaimInv, DrainInv, SinkInv, AnyFailed, Busy
<1>2. CASE BeginRun
  <2>1. ASSUME NEW present, NEW scope, NEW tolerant, AcceptRun(present, scope, tolerant)
        PROVE  PhaseInv' /\ ClaimInv' /\ DrainInv' /\ SinkInv'
    BY <2>1 DEF AcceptRun, Accepts, ControlInv, PhaseInv, ClaimInv, DrainInv, SinkInv
  <2>2. ASSUME NEW present, NEW scope, RefuseRun(present, scope)
        PROVE  PhaseInv' /\ ClaimInv' /\ DrainInv' /\ SinkInv'
    BY <2>2 DEF RefuseRun, vars, ControlInv, PhaseInv, ClaimInv, DrainInv, SinkInv, AnyFailed, Busy
  <2>3. QED
    BY <1>2, <2>1, <2>2 DEF BeginRun
<1>3. CASE ClearMarker
  BY <1>3, ControlStart
<1>4. CASE ClearFails
  BY <1>4, ControlHalt DEF ClearFails, NoMarker, ControlInv, PhaseInv
<1>5. CASE RunFails
  BY <1>5, ControlHalt DEF RunFails, index, ControlInv, PhaseInv
<1>6. CASE Attest \/ AttestFails
  <2>1. marker' \in {NoMarker, Torn, MarkerOf(run, errs)} /\ Halt
    BY <1>6 DEF Attest, AttestFails
  <2>2. QED
    BY <2>1, ControlHalt DEF NoMarker, Torn, MarkerOf, ControlInv, TypeOK, PhaseInv
<1>7. ASSUME NEW d \in Drivers, Driver(d) PROVE PhaseInv' /\ ClaimInv' /\ DrainInv' /\ SinkInv'
  BY <1>7, ControlDriver
<1>8. CASE Crash
  BY <1>8, ControlHalt DEF Crash, index, ControlInv, PhaseInv
<1>9. QED
  BY <1>1, <1>2, <1>3, <1>4, <1>5, <1>6, <1>7, <1>8 DEF Next, Main

THEOREM ControlCorrect == Spec => []ControlInv
<1>1. Init => ControlInv
  BY InitType, ControlInit DEF ControlInv
<1>2. QED
  BY <1>1, ControlStep, PTL DEF Spec

\* No step changes a chunk readers match while the marker stands, before it or
\* after it.
THEOREM FixedUnderMarker == Spec => IndexFixedUnderMarker
<1>1. ControlInv /\ [Next]_vars => [Attested \/ Attested' => final' = final]_vars
  <2> SUFFICES ASSUME ControlInv, Next, Attested \/ Attested' PROVE final' = final
    OBVIOUS
  <2>1. CASE BeginRun
    BY <2>1 DEF BeginRun, AcceptRun, RefuseRun, vars
  <2>2. CASE Main
    BY <2>2 DEF Main, ClearMarker, ClearFails, RunFails, Attest, AttestFails, index
  <2>3. ASSUME NEW d \in Drivers, Driver(d) PROVE FALSE
    <3>1. pc[d] # "idle" /\ marker' = marker
      BY <2>3, DriverShape DEF ControlInv
    <3>2. QED
      BY <3>1 DEF ControlInv, PhaseInv, Attested
  <2>4. CASE Crash
    BY <2>4 DEF Crash, index
  <2>5. QED
    BY <2>1, <2>2, <2>3, <2>4 DEF Next
<1>2. QED
  BY <1>1, ControlCorrect, PTL DEF Spec, IndexFixedUnderMarker

\* Only a run that passed every check, with partitions to walk, takes an
\* attestation away.
THEOREM RevokedByAcceptedRun == Spec => OnlyAcceptedRunRevokes
<1>1. ControlInv /\ [Next]_vars
        => [Attested /\ marker' # marker => phase = "clear" /\ todo # {}]_vars
  <2> SUFFICES ASSUME ControlInv, Next, Attested, marker' # marker
               PROVE  phase = "clear" /\ todo # {}
    OBVIOUS
  <2>1. phase # "drive"
    BY DEF ControlInv, PhaseInv, Attested
  <2>2. CASE BeginRun
    BY <2>2 DEF BeginRun, AcceptRun, RefuseRun, vars
  <2>3. CASE Main
    BY <2>1, <2>3 DEF Main, ClearMarker, ClearFails, RunFails, Attest, AttestFails,
                      Joined, ControlInv, PhaseInv
  <2>4. ASSUME NEW d \in Drivers, Driver(d) PROVE FALSE
    BY <2>4, DriverShape DEF ControlInv
  <2>5. CASE Crash
    BY <2>5 DEF Crash, index
  <2>6. QED
    BY <2>2, <2>3, <2>4, <2>5 DEF Next
<1>2. QED
  BY <1>1, ControlCorrect, PTL DEF Spec, OnlyAcceptedRunRevokes

-----------------------------------------------------------------------------
(* Whole files *)

\* Where the drivers' partitions and counters stand still, losing files breaks
\* nothing.
LEMMA WholeKept ==
  ASSUME WholeInv,
         \A p \in Partition : final'[p] \subseteq final[p] /\ partial'[p] \subseteq partial[p],
         \A e \in Drivers : Busy(e)' => /\ Busy(e) /\ job[e].part \in Partition
                                      /\ job'[e].part = job[e].part
                                      /\ job'[e].next = job[e].next
  PROVE  WholeInv'
BY DEF WholeInv, PartialWhole

\* A whole chunk put under the driver's next number.
LEMMA WholePut ==
  ASSUME ControlInv, WholeInv, NEW d \in Drivers, Busy(d), phase = "drive",
         NEW rows, Put(job[d].part, NextChunk(d, rows)),
         job'[d].part = job[d].part, job'[d].next = job[d].next + 1,
         \A e \in Drivers \ {d} : pc'[e] = pc[e] /\ job'[e] = job[e]
  PROVE  WholeInv'
<1> DEFINE p == job[d].part
           c == NextChunk(d, rows)
<1>0. p \in Partition /\ job[d].next \in Nat /\ c.whole = TRUE /\ c.id = job[d].next
  BY DEF ControlInv, TypeOK, Job, NextChunk
<1>1. \A q \in Partition : \A o \in final'[q] : o.whole
  BY <1>0 DEF WholeInv, Put, Replace, ControlInv, TypeOK
<1>2. ASSUME NEW e \in Drivers, Sink = "local", Busy(e)',
             NEW o \in partial'[job'[e].part], o.id < job'[e].next
      PROVE  o.whole
  <2>1. partial' = [partial EXCEPT ![p] = Replace(@, c)]
    BY <1>2 DEF Put
  <2>2. CASE e = d
    <3>1. o = c \/ (o \in partial[p] /\ o.id # job[d].next)
      BY <1>0, <1>2, <2>1, <2>2 DEF Replace, ControlInv, TypeOK
    <3>2. CASE o = c
      BY <1>0, <3>2
    <3>3. CASE o \in partial[p] /\ o.id # job[d].next
      <4>1. o.id \in Nat
        BY <1>0, <3>3 DEF ControlInv, TypeOK, Chunk
      <4>2. o.id < job[d].next
        BY <1>0, <1>2, <2>2, <3>3, <4>1
      <4>3. QED
        BY <1>2, <3>3, <4>2 DEF WholeInv, PartialWhole
    <3>4. QED
      BY <3>1, <3>2, <3>3
  <2>3. CASE e # d
    <3>1. Busy(e) /\ job'[e] = job[e]
      BY <1>2, <2>3 DEF Busy
    <3>2. job[e].part # p /\ job[e].part \in Partition
      BY <2>3, <3>1 DEF ControlInv, ClaimInv, TypeOK, Job
    <3>3. o \in partial[job[e].part]
      BY <1>2, <2>1, <3>1, <3>2 DEF ControlInv, TypeOK
    <3>4. QED
      BY <1>2, <3>1, <3>3 DEF WholeInv, PartialWhole
  <2>4. QED
    BY <2>2, <2>3
<1>3. QED
  BY <1>1, <1>2 DEF WholeInv, PartialWhole

LEMMA WholeDriver ==
  ASSUME ControlInv, WholeInv, NEW d \in Drivers, Driver(d)
  PROVE  WholeInv'
<1> USE DEF ghost, index
<1>0. /\ job[d] \in Job /\ pc[d] \in Place /\ phase = "drive" /\ TypeOK
      /\ \A e \in Drivers \ {d} : pc'[e] = pc[e] /\ job'[e] = job[e]
      /\ \A e \in Drivers : job[e].part \in Partition
  BY DriverShape DEF ControlInv, TypeOK, PhaseInv, Job
<1>1. CASE CheckCancel(d) \/ QueueEmpty(d) \/ EndWalk(d) \/ RaiseCancel(d)
           \/ LocalFinalized(d) \/ S3Finalized(d)
  <2>1. UNCHANGED <<final, partial, job>> /\ (Busy(d)' => Busy(d))
    BY <1>0, <1>1 DEF CheckCancel, QueueEmpty, EndWalk, RaiseCancel, LocalFinalized,
                      S3Finalized, Fold, Goto, AfterWalk, Busy, TypeOK
  <2>2. \A e \in Drivers : Busy(e)' => Busy(e)
    BY <1>0, <2>1 DEF Busy
  <2>3. QED
    BY <1>0, <2>1, <2>2, WholeKept
<1>2. CASE WalkVanished(d) \/ WalkHardError(d) \/ BufferRow(d) \/ ListChunks(d)
  <2>1. UNCHANGED <<final, partial>> /\ Busy(d)
    BY <1>2 DEF WalkVanished, WalkHardError, BufferRow, ListChunks, MoreEntries, Busy
  <2>2. job'[d].part = job[d].part /\ job'[d].next = job[d].next
    BY <1>0, <1>2 DEF WalkVanished, WalkHardError, BufferRow, ListChunks, TypeOK, Job
  <2>3. \A e \in Drivers : Busy(e)' => Busy(e)
    BY <1>0, <2>1 DEF Busy
  <2>4. QED
    BY <1>0, <2>1, <2>2, <2>3, WholeKept
<1>3. CASE TakePartition(d)
  <2>1. UNCHANGED <<final, partial>> /\ job'[d].next = 0 /\ job'[d].part \in Partition
    BY <1>0, <1>3 DEF TakePartition, NewJob, TypeOK
  <2>2. \A c \in partial'[job'[d].part] : ~(c.id < job'[d].next)
    BY <1>0, <2>1 DEF TypeOK, Chunk
  <2>3. \A e \in Drivers \ {d} : Busy(e)' => Busy(e)
    BY <1>0 DEF Busy
  <2>4. QED
    BY <1>0, <2>1, <2>2, <2>3 DEF WholeInv, PartialWhole
<1>4. CASE FlushRow(d)
  <2>1. job'[d].part = job[d].part /\ job'[d].next = job[d].next + 1 /\ Busy(d)
    BY <1>0, <1>4 DEF FlushRow, MoreEntries, Busy, TypeOK, Job
  <2>2. QED
    BY <1>0, <1>4, <2>1, WholePut DEF FlushRow
<1>5. CASE FlushTail(d)
  <2>1. job'[d].part = job[d].part /\ job'[d].next = job[d].next + 1 /\ Busy(d)
    BY <1>0, <1>5 DEF FlushTail, Busy, TypeOK, Job
  <2>2. QED
    BY <1>0, <1>5, <2>1, WholePut DEF FlushTail
<1>6. CASE PutFails(d)
  <2>1. pc'[d] = "failing" /\ job' = job /\ Busy(d)
    BY <1>0, <1>6 DEF PutFails, Goto, Busy, TypeOK
  <2>2. CASE UNCHANGED <<final, partial>>
    <3>1. \A e \in Drivers : Busy(e)' => Busy(e)
      BY <1>0, <2>1 DEF Busy
    <3>2. QED
      BY <1>0, <2>1, <2>2, <3>1, WholeKept
  <2>3. ASSUME NEW rows, Put(job[d].part, [NextChunk(d, rows) EXCEPT !.whole = (Sink = "s3")])
        PROVE  WholeInv'
    <3>1. \A q \in Partition : \A o \in final'[q] : o.whole
      <4>1. CASE final' = final
        BY <4>1 DEF WholeInv
      <4>2. CASE Sink = "s3"
        <5> DEFINE c == [NextChunk(d, rows) EXCEPT !.whole = (Sink = "s3")]
        <5>1. c.whole
          BY <4>2 DEF NextChunk
        <5>2. final' = [final EXCEPT ![job[d].part] = Replace(@, c)]
          BY <2>3, <4>2 DEF Put
        <5> HIDE DEF c
        <5>3. QED
          BY <1>0, <5>1, <5>2 DEF WholeInv, Replace, TypeOK
      <4>3. QED
        BY <2>3, <4>1, <4>2, ConstantsOK DEF Put
    <3>2. ASSUME NEW e \in Drivers, Busy(e)'
          PROVE  Busy(e) /\ job[e].part # job[d].part
      BY <1>0, <2>1, <3>2 DEF Busy, ControlInv, ClaimInv
    <3>3. \A q \in Partition : q # job[d].part => partial'[q] = partial[q]
      BY <1>0, <2>3 DEF Put, TypeOK
    <3>4. QED
      BY <1>0, <2>1, <3>1, <3>2, <3>3 DEF WholeInv, PartialWhole
  <2>4. QED
    BY <1>6, <2>2, <2>3 DEF PutFails
<1>7. CASE Rename(d)
  <2>1. UNCHANGED pc /\ job'[d].part = job[d].part /\ job'[d].next = job[d].next
        /\ Busy(d) /\ job[d].part \in Partition
    BY <1>0, <1>7 DEF Rename, Busy, TypeOK, Job
  <2>2. PICK c \in partial[job[d].part] :
          /\ c.id = job[d].cursor
          /\ partial' = [partial EXCEPT ![job[d].part] = @ \ {c}]
          /\ final' = [final EXCEPT ![job[d].part] = Replace(@, c)]
    BY <1>7 DEF Rename
  <2>3. c.whole
    BY <1>7, <2>1, <2>2 DEF Rename, WholeInv, PartialWhole, ControlInv, SinkInv
  <2>4. QED
    BY <1>0, <2>1, <2>2, <2>3 DEF WholeInv, PartialWhole, Replace, Busy, TypeOK
<1>8. CASE PruneNext(d) \/ DeleteNext(d)
  <2>1. UNCHANGED <<partial, pc>> /\ job'[d].part = job[d].part /\ job'[d].next = job[d].next
    BY <1>0, <1>8 DEF PruneNext, DeleteNext, TypeOK, Job
  <2>2. \A q \in Partition : final'[q] \subseteq final[q]
    BY <1>0, <1>8 DEF PruneNext, DeleteNext, Without, TypeOK
  <2>3. QED
    BY <1>0, <2>1, <2>2, WholeKept DEF Busy
<1>9. CASE FinalizeFails(d)
  <2>1. UNCHANGED <<partial, job>> /\ pc'[d] = "failing"
    BY <1>0, <1>9 DEF FinalizeFails, Goto, TypeOK
  <2>2. \A q \in Partition : final'[q] \subseteq final[q]
    BY <1>0, <1>9 DEF FinalizeFails, Without, TypeOK
  <2>3. QED
    BY <1>0, <2>1, <2>2, WholeKept DEF Busy
<1>10. QED
  BY <1>1, <1>2, <1>3, <1>4, <1>5, <1>6, <1>7, <1>8, <1>9 DEF Driver

LEMMA WholeStep == ControlInv /\ WholeInv /\ [Next]_vars => WholeInv'
<1> SUFFICES ASSUME ControlInv, WholeInv, [Next]_vars PROVE WholeInv'
  OBVIOUS
<1>0. \A d \in Drivers : job[d].part \in Partition
  BY DEF ControlInv, TypeOK, Job
<1>1. CASE UNCHANGED vars
  BY <1>0, <1>1, WholeKept DEF vars, Busy
<1>2. CASE BeginRun
  <2>1. UNCHANGED <<final, partial, job, pc>>
    BY <1>2 DEF BeginRun, AcceptRun, RefuseRun, vars
  <2>2. QED
    BY <1>0, <2>1, WholeKept DEF Busy
<1>3. CASE ClearMarker
  <2>1. UNCHANGED <<final, partial>> /\ \A e \in Drivers : ~Busy(e)'
    BY <1>3 DEF ClearMarker, Busy
  <2>2. QED
    BY <2>1, WholeKept
<1>4. CASE ClearFails \/ RunFails \/ Attest \/ AttestFails \/ Crash
  <2>1. UNCHANGED <<final, partial>> /\ \A e \in Drivers : ~Busy(e)'
    BY <1>4 DEF ClearFails, RunFails, Attest, AttestFails, Crash, Halt, index, Busy
  <2>2. QED
    BY <2>1, WholeKept
<1>5. ASSUME NEW d \in Drivers, Driver(d) PROVE WholeInv'
  BY <1>5, WholeDriver
<1>6. QED
  BY <1>1, <1>2, <1>3, <1>4, <1>5 DEF Next, Main

\* No file a reader's glob matches is ever cut short, whatever fails or dies.
THEOREM WholeCorrect == Spec => []FinalsWhole
<1>1. Init => WholeInv
  <2> SUFFICES ASSUME Init PROVE WholeInv
    OBVIOUS
  <2>1. \A p \in Partition : \A c \in final[p] : c.whole
    BY DEF Init, OldChunk
  <2>2. \A d \in Drivers : ~Busy(d)
    BY DEF Init, Busy
  <2>3. QED
    BY <2>1, <2>2 DEF WholeInv, PartialWhole
<1>2. WholeInv => FinalsWhole
  BY DEF WholeInv, FinalsWhole
<1>3. QED
  BY <1>1, <1>2, ControlCorrect, WholeStep, PTL DEF Spec

-----------------------------------------------------------------------------
(* Late takes *)

LEMMA TakingFinite ==
  /\ IsFiniteSet(Drivers) /\ Cardinality(Drivers) \in Nat
  /\ IsFiniteSet(Taking) /\ Cardinality(Taking) \in Nat
<1>1. IsFiniteSet(Drivers) /\ Taking \subseteq Drivers
  BY ConstantsOK DEF Taking
<1>2. IsFiniteSet(Taking)
  BY <1>1, FS_Subset
<1>3. QED
  BY <1>1, <1>2, FS_CardinalityType

\* Past a raised flag no driver gets to the queue that was not already there, and
\* only taking a partition is counted.
LEMMA LateShape ==
  ASSUME TypeOK, NEW d \in Drivers, Driver(d)
  PROVE  /\ cancel /\ pc'[d] = "take" => pc[d] = "take"
         /\ pc[d] = "failing" => pc'[d] = "failed"
         /\ ~RaiseCancel(d) => cancel' = cancel
         /\ ~TakePartition(d) => late' = late
<1> USE DEF ghost, index, TypeOK
<1>1. CASE CheckCancel(d) \/ TakePartition(d) \/ QueueEmpty(d) \/ RaiseCancel(d)
  BY <1>1 DEF CheckCancel, TakePartition, QueueEmpty, RaiseCancel, Goto
<1>2. CASE WalkVanished(d) \/ WalkHardError(d) \/ BufferRow(d) \/ FlushRow(d)
  BY <1>2 DEF WalkVanished, WalkHardError, BufferRow, FlushRow, MoreEntries
<1>3. CASE EndWalk(d) \/ FlushTail(d) \/ PutFails(d)
  BY <1>3 DEF EndWalk, FlushTail, PutFails, Goto, AfterWalk
<1>4. CASE Rename(d) \/ PruneNext(d) \/ LocalFinalized(d)
  BY <1>4 DEF Rename, PruneNext, LocalFinalized, Fold, Goto
<1>5. CASE ListChunks(d) \/ DeleteNext(d) \/ S3Finalized(d) \/ FinalizeFails(d)
  BY <1>5 DEF ListChunks, DeleteNext, S3Finalized, FinalizeFails, Fold, Goto
<1>6. QED
  BY <1>1, <1>2, <1>3, <1>4, <1>5 DEF Driver

LEMMA LateDriver ==
  ASSUME ControlInv, LateInv, NEW d \in Drivers, Driver(d)
  PROVE  LateInv'
<1>0. /\ TypeOK /\ late \in Nat
      /\ \A e \in Drivers \ {d} : pc'[e] = pc[e]
  BY DriverShape DEF ControlInv, TypeOK
<1> DEFINE T == Taking
           U == Taking'
<1>1. U \subseteq Drivers /\ IsFiniteSet(U) /\ Cardinality(U) \in Nat
  <2>1. U \subseteq Drivers
    BY DEF Taking
  <2>2. QED
    BY <2>1, TakingFinite, FS_Subset, FS_CardinalityType
<1>2. CASE RaiseCancel(d)
  <2>1. cancel' /\ late' = late /\ pc[d] = "failing" /\ pc'[d] = "failed"
    BY <1>0, <1>2 DEF RaiseCancel, Goto, ghost, TypeOK
  <2>2. CASE cancel
    <3>1. U \subseteq T
      BY <1>0, <2>1 DEF Taking
    <3>2. Cardinality(U) <= Cardinality(T)
      BY <3>1, TakingFinite, FS_Subset
    <3>3. QED
      BY <1>0, <1>1, <2>1, <2>2, <3>2, TakingFinite DEF LateInv
  <2>3. CASE ~cancel
    <3>1. U \subseteq Drivers \ {d}
      BY <2>1 DEF Taking
    <3>2. IsFiniteSet(Drivers \ {d}) /\ Cardinality(Drivers \ {d}) = Cardinality(Drivers) - 1
      BY TakingFinite, FS_RemoveElement
    <3>3. Cardinality(U) <= Cardinality(Drivers \ {d})
      BY <3>1, <3>2, FS_Subset
    <3>4. QED
      BY <1>1, <2>1, <2>3, <3>2, <3>3, TakingFinite DEF LateInv
  <2>4. QED
    BY <2>2, <2>3
<1>3. CASE TakePartition(d)
  <2>1. pc[d] = "take" /\ pc'[d] = "walk" /\ cancel' = cancel
        /\ late' = IF cancel THEN late + 1 ELSE late
    BY <1>0, <1>3 DEF TakePartition, Goto, TypeOK
  <2>2. U = T \ {d} /\ d \in T
    BY <1>0, <2>1 DEF Taking
  <2>3. Cardinality(U) = Cardinality(T) - 1
    BY <2>2, TakingFinite, FS_RemoveElement
  <2>4. QED
    BY <1>0, <2>1, <2>3, TakingFinite DEF LateInv
<1>4. CASE ~RaiseCancel(d) /\ ~TakePartition(d)
  <2>1. cancel' = cancel /\ late' = late /\ (cancel /\ pc'[d] = "take" => pc[d] = "take")
    BY <1>0, <1>4, LateShape
  <2>2. CASE cancel
    <3>1. U \subseteq T
      BY <1>0, <2>1, <2>2 DEF Taking
    <3>2. Cardinality(U) <= Cardinality(T)
      BY <3>1, TakingFinite, FS_Subset
    <3>3. QED
      BY <1>0, <1>1, <2>1, <2>2, <3>2, TakingFinite DEF LateInv
  <2>3. CASE ~cancel
    BY <2>1, <2>3 DEF LateInv
  <2>4. QED
    BY <2>2, <2>3
<1>5. QED
  BY <1>2, <1>3, <1>4

LEMMA LateStep == ControlInv /\ LateInv /\ [Next]_vars => LateInv'
<1> SUFFICES ASSUME ControlInv, LateInv, [Next]_vars PROVE LateInv'
  OBVIOUS
<1>a. ASSUME ~cancel, ~cancel', late' \in {late, 0} PROVE LateInv'
  BY <1>a DEF LateInv
<1>b. ASSUME Joined, Tolerable PROVE ~cancel
  BY <1>b DEF ControlInv, DrainInv, Joined, Tolerable
<1>1. CASE UNCHANGED vars
  BY <1>1 DEF vars, LateInv, Taking
<1>2. CASE BeginRun
  <2>1. UNCHANGED <<cancel, pc, late>>
    BY <1>2 DEF BeginRun, AcceptRun, RefuseRun, vars
  <2>2. QED
    BY <2>1 DEF LateInv, Taking
<1>3. CASE ClearMarker \/ ClearFails
  <2>1. phase = "clear" /\ ~cancel' /\ late' \in {late, 0}
    BY <1>3 DEF ClearMarker, ClearFails, Halt, ghost, ControlInv, PhaseInv
  <2>2. QED
    BY <1>a, <2>1 DEF ControlInv, PhaseInv
<1>4. CASE RunFails
  BY <1>4 DEF RunFails, Halt, Forget, LateInv
<1>5. CASE Attest \/ AttestFails
  <2>1. ~cancel /\ ~cancel' /\ late' = late
    BY <1>5, <1>b DEF Attest, AttestFails, Halt, ghost
  <2>2. QED
    BY <1>a, <2>1
<1>6. ASSUME NEW d \in Drivers, Driver(d) PROVE LateInv'
  BY <1>6, LateDriver
<1>7. CASE Crash
  <2>1. CASE phase = "drive"
    BY <1>7, <2>1 DEF Crash, Halt, Forget, LateInv
  <2>2. CASE phase # "drive"
    <3>1. ~cancel /\ ~cancel' /\ late' = late
      BY <1>7, <2>2 DEF Crash, Halt, ghost, ControlInv, PhaseInv
    <3>2. QED
      BY <1>a, <3>1
  <2>3. QED
    BY <2>1, <2>2
<1>8. QED
  BY <1>1, <1>2, <1>3, <1>4, <1>5, <1>6, <1>7 DEF Next, Main

LEMMA LateCorrect == Spec => []LateInv
<1>1. Init => LateInv
  BY DEF Init, LateInv
<1>2. QED
  BY <1>1, LateStep, ControlCorrect, PTL DEF Spec

\* However many drivers there are, a failure lets fewer partitions be taken than
\* there are drivers: each of the others has at most the one it had checked for.
THEOREM CancelStops == Spec => []CancelStopsTheQueue
<1>1. ControlInv /\ LateInv => CancelStopsTheQueue
  <2> SUFFICES ASSUME ControlInv, LateInv PROVE CancelStopsTheQueue
    OBVIOUS
  <2>1. late \in Nat /\ Cardinality(Drivers) # 0
    BY ConstantsOK, FS_EmptySet DEF ControlInv, TypeOK
  <2>2. QED
    BY <2>1, TakingFinite DEF LateInv, CancelStopsTheQueue
<1>2. QED
  BY <1>1, LateCorrect, ControlCorrect, PTL

-----------------------------------------------------------------------------
(* Hard errors *)

\* What has been met is numbered on the driver that met it.
LEMMA UnfoldedHas ==
  \A x : x \in Unfolded <=>
        \E e \in Drivers : Busy(e) /\ \E i \in 1 .. job[e].errs : x = <<e, i>>
BY DEF Unfolded

LEMMA UnfoldedHasNext ==
  \A x : x \in Unfolded' <=>
        \E e \in Drivers : Busy(e)' /\ \E i \in 1 .. job'[e].errs : x = <<e, i>>
BY DEF Unfolded

\* n errors on one driver are n elements.
LEMMA NumberedCount ==
  ASSUME NEW d, NEW n \in Nat
  PROVE  IsFiniteSet({d} \X (1 .. n)) /\ Cardinality({d} \X (1 .. n)) = n
<1> DEFINE f == [i \in 1 .. n |-> <<d, i>>]
<1>1. f \in [1 .. n -> {d} \X (1 .. n)]
  OBVIOUS
<1>2. \A i, j \in 1 .. n : f[i] = f[j] => i = j
  OBVIOUS
<1>3. \A t \in {d} \X (1 .. n) : \E i \in 1 .. n : f[i] = t
  OBVIOUS
<1>4. ExistsBijection(1 .. n, {d} \X (1 .. n))
  <2>1. f \in Bijection(1 .. n, {d} \X (1 .. n))
    BY <1>1, <1>2, <1>3 DEF Bijection, Injection, Surjection, IsInjective
  <2>2. QED
    BY <2>1 DEF ExistsBijection
<1>5. IsFiniteSet(1 .. n) /\ Cardinality(1 .. n) = n
  BY FS_Interval
<1>6. QED
  BY <1>4, <1>5, FS_Bijection

\* A driver's step leaves the tallies alone, or meets an error, or hands the run
\* what it has, or is on its way out.
LEMMA ErrorsShape ==
  ASSUME TypeOK, NEW d \in Drivers, Driver(d)
  PROVE  \/ pc'[d] \in {"failing", "failed"} /\ ~Busy(d)'
         \/ /\ Busy(d) /\ Busy(d)' /\ job'[d].errs = job[d].errs + 1
            /\ hard' = hard + 1 /\ errs' = errs
         \/ /\ Busy(d) /\ ~Busy(d)'
            /\ hard' = hard /\ errs' = errs + job[d].errs
         \/ /\ IF Busy(d) THEN Busy(d)' /\ job'[d].errs = job[d].errs
                          ELSE Busy(d)' => job'[d].errs = 0
            /\ hard' = hard /\ errs' = errs
<1> USE DEF ghost, index, TypeOK, Busy
<1>0. job[d] \in Job /\ pc[d] \in Place
  OBVIOUS
<1>1. CASE CheckCancel(d) \/ QueueEmpty(d) \/ RaiseCancel(d)
  BY <1>0, <1>1 DEF CheckCancel, QueueEmpty, RaiseCancel, Goto
<1>2. CASE TakePartition(d)
  BY <1>0, <1>2 DEF TakePartition, NewJob, Goto
<1>3. CASE WalkHardError(d)
  BY <1>0, <1>3 DEF WalkHardError, MoreEntries, Job
<1>4. CASE WalkVanished(d) \/ BufferRow(d) \/ FlushRow(d)
  BY <1>0, <1>4 DEF WalkVanished, BufferRow, FlushRow, MoreEntries, Job
<1>5. CASE EndWalk(d) \/ FlushTail(d)
  BY <1>0, <1>5 DEF EndWalk, FlushTail, Goto, AfterWalk, Job
<1>6. CASE PutFails(d) \/ FinalizeFails(d)
  BY <1>0, <1>6 DEF PutFails, FinalizeFails, Goto
<1>7. CASE Rename(d) \/ PruneNext(d)
  BY <1>0, <1>7 DEF Rename, PruneNext, Job
<1>8. CASE ListChunks(d) \/ DeleteNext(d)
  BY <1>0, <1>8 DEF ListChunks, DeleteNext, Goto, Job
<1>9. CASE LocalFinalized(d) \/ S3Finalized(d)
  BY <1>0, <1>9 DEF LocalFinalized, S3Finalized, Fold, Goto, Job
<1>10. QED
  BY <1>1, <1>2, <1>3, <1>4, <1>5, <1>6, <1>7, <1>8, <1>9 DEF Driver

\* The same of the numbered errors as a set.
LEMMA UnfoldedDriver ==
  ASSUME TypeOK, IsFiniteSet(Unfolded), NEW d \in Drivers, Driver(d)
  PROVE  /\ IsFiniteSet(Unfolded')
         /\ \/ pc'[d] \in {"failing", "failed"}
            \/ hard' - errs' - Cardinality(Unfolded') = hard - errs - Cardinality(Unfolded)
<1>0. /\ \A e \in Drivers \ {d} : Busy(e)' = Busy(e) /\ job'[e] = job[e]
      /\ hard \in Nat /\ errs \in Nat /\ job[d].errs \in Nat
      /\ Cardinality(Unfolded) \in Nat
  BY DriverShape, FS_CardinalityType DEF TypeOK, Job, Busy
<1> DEFINE n == job[d].errs
<1>1. CASE pc'[d] \in {"failing", "failed"} /\ ~Busy(d)'
  <2>1. Unfolded' \subseteq Unfolded
    BY <1>0, <1>1, UnfoldedHas, UnfoldedHasNext
  <2>2. QED
    BY <1>1, <2>1, FS_Subset
<1>2. CASE /\ Busy(d) /\ Busy(d)' /\ job'[d].errs = n + 1
           /\ hard' = hard + 1 /\ errs' = errs
  <2>1. Unfolded' = Unfolded \cup {<<d, n + 1>>}
    <3>1. \A i : i \in 1 .. (n + 1) <=> i \in 1 .. n \/ i = n + 1
      BY <1>0
    <3>2. \A x : x \in Unfolded' <=> x \in Unfolded \/ x = <<d, n + 1>>
      BY <1>0, <1>2, <3>1, UnfoldedHas, UnfoldedHasNext
    <3>3. QED
      BY <3>2
  <2>2. <<d, n + 1>> \notin Unfolded
    BY <1>0, UnfoldedHas
  <2>3. IsFiniteSet(Unfolded') /\ Cardinality(Unfolded') = Cardinality(Unfolded) + 1
    BY <2>1, <2>2, FS_AddElement
  <2>4. QED
    BY <1>0, <1>2, <2>3
<1>3. CASE Busy(d) /\ ~Busy(d)' /\ hard' = hard /\ errs' = errs + n
  <2> DEFINE mine == {d} \X (1 .. n)
  <2>1. IsFiniteSet(mine) /\ Cardinality(mine) = n
    BY <1>0, NumberedCount
  <2>2. \A x : x \in mine <=> \E i \in 1 .. n : x = <<d, i>>
    OBVIOUS
  <2> HIDE DEF mine
  <2>3. mine \cap Unfolded' = {}
    BY <1>3, <2>2, UnfoldedHasNext
  <2>4. Unfolded = Unfolded' \cup mine
    <3>1. \A x : x \in Unfolded <=> x \in Unfolded' \/ x \in mine
      BY <1>0, <1>3, <2>2, UnfoldedHas, UnfoldedHasNext
    <3>2. QED
      BY <3>1
  <2>5. IsFiniteSet(Unfolded') /\ Cardinality(Unfolded') \in Nat
    BY <2>4, FS_Subset, FS_CardinalityType
  <2>6. Cardinality(Unfolded) = Cardinality(Unfolded') + n
    <3>1. Cardinality(Unfolded' \cap mine) = 0
      BY <2>3, FS_EmptySet
    <3>2. Cardinality(Unfolded' \cup mine)
            = Cardinality(Unfolded') + Cardinality(mine) - Cardinality(Unfolded' \cap mine)
      BY <2>1, <2>5, FS_Union
    <3>3. Cardinality(Unfolded) = Cardinality(Unfolded' \cup mine)
      BY <2>4
    <3>4. QED
      BY <1>0, <2>1, <2>5, <3>1, <3>2, <3>3
  <2>7. QED
    BY <1>0, <1>3, <2>5, <2>6
<1>4. CASE /\ IF Busy(d) THEN Busy(d)' /\ job'[d].errs = n ELSE Busy(d)' => job'[d].errs = 0
           /\ hard' = hard /\ errs' = errs
  <2>1. Unfolded' = Unfolded
    <3>1. \A x : x \in Unfolded' <=> x \in Unfolded
      BY <1>0, <1>4, UnfoldedHas, UnfoldedHasNext
    <3>2. QED
      BY <3>1
  <2>2. QED
    BY <1>4, <2>1
<1>5. QED
  BY <1>1, <1>2, <1>3, <1>4, ErrorsShape

\* No driver on a partition, no error outside the run's tally.
LEMMA NobodyBusy ==
  /\ (\A d \in Drivers : ~Busy(d)) => IsFiniteSet(Unfolded) /\ Cardinality(Unfolded) = 0
  /\ (\A d \in Drivers : ~Busy(d)') => IsFiniteSet(Unfolded') /\ Cardinality(Unfolded') = 0
<1>1. (\A d \in Drivers : ~Busy(d)) => Unfolded = {}
  BY UnfoldedHas
<1>2. (\A d \in Drivers : ~Busy(d)') => Unfolded' = {}
  BY UnfoldedHasNext
<1>3. QED
  BY <1>1, <1>2, FS_EmptySet

LEMMA ErrorsStep == ControlInv /\ ErrorsInv /\ [Next]_vars => ErrorsInv'
<1> SUFFICES ASSUME ControlInv, ErrorsInv, [Next]_vars PROVE ErrorsInv'
  OBVIOUS
<1>t. TypeOK
  BY DEF ControlInv
<1>a. ASSUME UNCHANGED <<pc, job, errs, hard, marker>>,
             phase' = phase \/ (phase # "drive" /\ phase' # "drive")
      PROVE  ErrorsInv'
  <2>1. Unfolded' = Unfolded
    BY <1>a DEF Unfolded, Busy
  <2>2. MarkerCountsEveryError'
    BY <1>a DEF ErrorsInv, MarkerCountsEveryError, Attested
  <2>3. QED
    BY <1>a, <2>1, <2>2 DEF ErrorsInv
<1>b. ASSUME Halt, marker'.state = "ok" /\ marker'.run > 0 => marker'.errors = hard'
      PROVE  ErrorsInv'
  <2>1. \A d \in Drivers : ~Busy(d)'
    BY <1>b DEF Halt, Busy
  <2>2. QED
    BY <1>b, <2>1, NobodyBusy DEF Halt, ErrorsInv, MarkerCountsEveryError, Attested
<1>1. CASE UNCHANGED vars
  <2>1. /\ UNCHANGED <<pc, job, errs, hard, marker>>
        /\ phase' = phase \/ (phase # "drive" /\ phase' # "drive")
    BY <1>1 DEF vars
  <2>2. QED
    BY <1>a, <2>1
<1>2. CASE BeginRun
  <2>1. /\ UNCHANGED <<pc, job, errs, hard, marker>>
        /\ phase' = phase \/ (phase # "drive" /\ phase' # "drive")
    BY <1>2 DEF BeginRun, AcceptRun, RefuseRun, vars
  <2>2. QED
    BY <1>a, <2>1
<1>3. CASE ClearMarker
  <2>1. \A d \in Drivers : ~Busy(d)'
    BY <1>3 DEF ClearMarker, Busy
  <2>2. hard' = 0 /\ errs' = 0 /\ marker'.state = "none" /\ phase' = "drive"
    BY <1>3 DEF ClearMarker, Cleared, NoMarker, ErrorsInv
  <2>3. QED
    BY <2>1, <2>2, NobodyBusy DEF ErrorsInv, MarkerCountsEveryError, Attested
<1>4. CASE ClearFails
  <2>1. Halt /\ hard' = hard /\ marker' \in {marker, NoMarker}
    BY <1>4 DEF ClearFails, ghost
  <2>2. QED
    BY <1>b, <2>1 DEF NoMarker, ErrorsInv, MarkerCountsEveryError, Attested
<1>5. CASE RunFails
  <2>1. Halt /\ marker' = marker /\ phase = "drive"
    BY <1>5 DEF RunFails, Joined, index
  <2>2. QED
    BY <1>b, <2>1 DEF ControlInv, PhaseInv
<1>6. CASE Attest \/ AttestFails
  <2>1. Joined /\ Tolerable /\ Halt /\ hard' = hard
        /\ marker' \in {NoMarker, Torn, MarkerOf(run, errs)}
    BY <1>6 DEF Attest, AttestFails, ghost
  <2>2. \A d \in Drivers : pc[d] = "done"
    BY <2>1 DEF Joined, Tolerable, AnyFailed
  <2>3. Cardinality(Unfolded) = 0
    BY <2>2, NobodyBusy DEF Busy
  <2>4. hard = errs
    BY <1>t, <2>1, <2>2, <2>3 DEF ErrorsInv, Joined, TypeOK
  <2>5. QED
    BY <1>b, <2>1, <2>4 DEF NoMarker, Torn, MarkerOf
<1>7. ASSUME NEW d \in Drivers, Driver(d) PROVE ErrorsInv'
  <2>1. /\ phase = "drive" /\ phase' = "drive" /\ marker'.state = "none"
        /\ \A e \in Drivers \ {d} : pc'[e] = pc[e]
        /\ pc[d] # "failed" /\ (pc[d] = "failing" => pc'[d] = "failed")
    BY <1>7, <1>t, DriverShape, LateShape DEF ControlInv, PhaseInv
  <2>2. IsFiniteSet(Unfolded') /\ TypeOK'
    BY <1>7, <1>t, UnfoldedDriver, TypeStep DEF ErrorsInv, Next
  <2>3. ASSUME \A e \in Drivers : pc'[e] \notin {"failing", "failed"}
        PROVE  hard' = errs' + Cardinality(Unfolded')
    <3>1. \A e \in Drivers : pc[e] \notin {"failing", "failed"}
      BY <2>1, <2>3
    <3>2. hard' - errs' - Cardinality(Unfolded') = hard - errs - Cardinality(Unfolded)
      BY <1>7, <1>t, <2>3, UnfoldedDriver DEF ErrorsInv
    <3>3. hard = errs + Cardinality(Unfolded)
      BY <2>1, <3>1 DEF ErrorsInv
    <3>4. /\ {hard, errs, hard', errs'} \subseteq Nat
          /\ Cardinality(Unfolded) \in Nat /\ Cardinality(Unfolded') \in Nat
      BY <1>t, <2>2, FS_CardinalityType DEF TypeOK, ErrorsInv
    <3>5. QED
      BY <3>2, <3>3, <3>4
  <2>4. QED
    BY <2>1, <2>2, <2>3 DEF ErrorsInv, MarkerCountsEveryError, Attested
<1>8. CASE Crash
  <2>1. CASE phase = "drive"
    BY <1>8, <1>b, <2>1 DEF Crash, index, ControlInv, PhaseInv
  <2>2. CASE phase # "drive"
    BY <1>8, <1>b, <2>2 DEF Crash, index, ghost, ErrorsInv, MarkerCountsEveryError, Attested
  <2>3. QED
    BY <2>1, <2>2
<1>9. QED
  BY <1>1, <1>2, <1>3, <1>4, <1>5, <1>6, <1>7, <1>8 DEF Next, Main

LEMMA ErrorsCorrect == Spec => []ErrorsInv
<1>1. Init => ErrorsInv
  <2> SUFFICES ASSUME Init PROVE ErrorsInv
    OBVIOUS
  <2>1. \A d \in Drivers : ~Busy(d)
    BY DEF Init, Busy
  <2>2. QED
    BY <2>1, NobodyBusy
      DEF Init, ErrorsInv, MarkerCountsEveryError, Attested, NoMarker, MarkerOf
<1>2. QED
  BY <1>1, ErrorsStep, ControlCorrect, PTL DEF Spec

\* In whatever order any number of drivers met and folded them, the marker counts
\* every hard error of its run.
THEOREM MarkerErrorsComplete == Spec => []MarkerCountsEveryError
<1>1. ErrorsInv => MarkerCountsEveryError
  BY DEF ErrorsInv
<1>2. QED
  BY <1>1, ErrorsCorrect, PTL

-----------------------------------------------------------------------------
(* The sink on S3 *)

\* A non-empty set of chunk numbers has a least one: the next DELETE's.
LEMMA NextStaleIsLeast ==
  ASSUME TypeOK, NEW d \in Drivers, job[d].stale # {}
  PROVE  NextStale(d) \in job[d].stale
<1> DEFINE T == job[d].stale
<1>1. T \subseteq Nat /\ T # {}
  BY DEF TypeOK, Job
<1>2. PICK x \in T : \A y \in T : ~ (<<y, x>> \in OpToRel(<, Nat))
  BY <1>1, WFMin, NatLessThanWellFounded
<1>3. ASSUME NEW y \in T PROVE x <= y
  <2>1. <<y, x>> \in Nat \X Nat /\ ~ (<<y, x>> \in {ss \in Nat \X Nat : ss[1] < ss[2]})
    BY <1>1, <1>2 DEF OpToRel
  <2>2. ~ (y < x)
    BY <2>1
  <2>3. QED
    BY <1>1, <2>2
<1>4. QED
  BY <1>3 DEF NextStale

\* A driver writes no partition but its own, and that only while it is on it.
LEMMA DriverFrame ==
  ASSUME TypeOK, NEW d \in Drivers, Driver(d)
  PROVE  /\ \A q \in Partition : q # job[d].part => final'[q] = final[q] /\ walked'[q] = walked[q]
         /\ ~Busy(d) => UNCHANGED <<final, walked>>
<1> USE DEF ghost, index, Busy
<1>1. CASE CheckCancel(d) \/ TakePartition(d) \/ QueueEmpty(d) \/ WalkVanished(d)
           \/ WalkHardError(d) \/ EndWalk(d) \/ LocalFinalized(d) \/ ListChunks(d)
           \/ S3Finalized(d) \/ RaiseCancel(d)
  BY <1>1 DEF CheckCancel, TakePartition, QueueEmpty, WalkVanished, WalkHardError,
              EndWalk, LocalFinalized, ListChunks, S3Finalized, RaiseCancel, Fold
<1>2. CASE BufferRow(d)
  BY <1>2 DEF BufferRow, MoreEntries, TypeOK
<1>3. CASE FlushRow(d)
  BY <1>3 DEF FlushRow, MoreEntries, Put, TypeOK
<1>4. CASE FlushTail(d)
  BY <1>4 DEF FlushTail, Put, TypeOK
<1>5. CASE PutFails(d)
  <2>1. pc[d] = "walk" /\ walked' = walked
    BY <1>5 DEF PutFails
  <2>2. ASSUME NEW c, Put(job[d].part, c)
        PROVE  \A q \in Partition : q # job[d].part => final'[q] = final[q]
    BY <2>2 DEF Put, TypeOK
  <2>3. QED
    BY <1>5, <2>1, <2>2 DEF PutFails
<1>6. CASE Rename(d)
  BY <1>6 DEF Rename, TypeOK
<1>7. CASE PruneNext(d) \/ DeleteNext(d) \/ FinalizeFails(d)
  BY <1>7 DEF PruneNext, DeleteNext, FinalizeFails, TypeOK
<1>8. QED
  BY <1>1, <1>2, <1>3, <1>4, <1>5, <1>6, <1>7 DEF Driver

-----------------------------------------------------------------------------
(* The chunks of one partition *)

\* Nothing but the driver's own partition, job and buffer decides how far it is.
LEMMA UnderwayKept ==
  ASSUME NEW e \in Drivers, Underway(e), pc'[e] = pc[e], job'[e] = job[e], run' = run,
         Busy(e) => /\ final'[job[e].part] = final[job[e].part]
                    /\ walked'[job[e].part] = walked[job[e].part]
  PROVE  Underway(e)'
BY DEF Underway, Progress, Stored, Listed, Busy

\* A chunk put under the driver's next number takes rows into the partition:
\* those it held, which leave the buffer, and the row just walked if there is one.
LEMMA PutProgress ==
  ASSUME ControlInv, NEW d \in Drivers, Progress(d), run' = run, NEW rows,
         final' = [final EXCEPT ![job[d].part] = Replace(@, NextChunk(d, rows))],
         job'[d].part = job[d].part, job'[d].next = job[d].next + 1, job'[d].buf = {},
         walked'[job[d].part] = job'[d].rows,
         \/ job'[d].rows = job[d].rows /\ rows = job[d].buf
         \/ job'[d].rows = job[d].rows + 1 /\ rows = Appended(d)
  PROVE  Progress(d)'
<1> DEFINE p == job[d].part
           n == job[d].next
           m == job[d].rows
           c == NextChunk(d, rows)
<1>0. p \in Partition /\ n \in Nat /\ m \in Nat /\ job[d].buf \subseteq Nat
      /\ \A o \in final[p] : o.id \in Nat
  BY DEF ControlInv, TypeOK, Job, Chunk
<1>1. c.id = n /\ c.run = run /\ c.whole /\ c.rows = rows
  BY DEF NextChunk
<1>2. final'[p] = Replace(final[p], c)
  BY <1>0 DEF ControlInv, TypeOK
<1> HIDE DEF c
<1>3. {o \in final'[p] : o.id < n + 1} = Stored(p, n) \cup {c}
  <2>1. \A o \in final[p] : o.id # n /\ o.id < n + 1 <=> o.id < n
    BY <1>0
  <2>2. QED
    BY <1>0, <1>1, <1>2, <2>1 DEF Stored, Replace
<1>4. /\ rows \subseteq 1 .. job'[d].rows
      /\ \A o \in Stored(p, n) : o.rows \cap rows = {} /\ o.rows \subseteq 1 .. job'[d].rows
  BY <1>0 DEF Progress, Appended
<1>5. ASSUME NEW i \in 1 .. job'[d].rows
      PROVE  i \in rows \/ \E o \in Stored(p, n) : i \in o.rows
  BY <1>0 DEF Progress, Appended
<1>6. \A o \in Stored(p, n) : o.run = run /\ o.whole
      /\ \A e \in Stored(p, n) : o # e => o.rows \cap e.rows = {}
  BY DEF Progress
<1>7. Stored(job[d].part, job[d].next)' = Stored(p, n) \cup {c}
  BY <1>3 DEF Stored
<1> DEFINE mine == Stored(job[d].part, job[d].next)'
<1>8. \A o \in mine : o.run = run' /\ o.whole /\ o.rows \subseteq (1 .. job'[d].rows) \ job'[d].buf
  BY <1>1, <1>4, <1>6, <1>7
<1>9. \A i \in 1 .. job'[d].rows : \E o \in mine : i \in o.rows
  BY <1>1, <1>5, <1>7
<1>10. \A o, e \in mine : o # e => o.rows \cap e.rows = {}
  BY <1>1, <1>4, <1>6, <1>7
<1> HIDE DEF mine, p, n, m
<1>11. QED
  BY <1>8, <1>9, <1>10 DEF Progress, mine

\* A driver's own step keeps it on course.
LEMMA UnderwayStep ==
  ASSUME ControlInv, Sink = "s3", NEW d \in Drivers, Driver(d), Underway(d),
         \A p \in todo : walked[p] = 0
  PROVE  Underway(d)'
<1> USE DEF ghost, index, ControlInv
<1>0. job[d] \in Job /\ pc[d] \in Place /\ job[d].part \in Partition /\ run' = run
      /\ pc[d] # "publish"
  BY DriverShape DEF TypeOK, Job, SinkInv
<1>1. CASE CheckCancel(d) \/ QueueEmpty(d) \/ RaiseCancel(d) \/ S3Finalized(d)
           \/ PutFails(d) \/ FinalizeFails(d)
  <2>1. pc'[d] \notin {"walk", "list", "prune"}
    BY <1>0, <1>1 DEF CheckCancel, QueueEmpty, RaiseCancel, S3Finalized, PutFails,
                      FinalizeFails, Fold, Goto, TypeOK
  <2>2. QED
    BY <2>1 DEF Underway
<1>2. CASE TakePartition(d)
  <2>1. PICK p \in todo : job'[d] = NewJob(p)
    BY <1>2 DEF TakePartition, TypeOK
  <2>2. pc'[d] = "walk" /\ UNCHANGED <<final, walked>> /\ walked[p] = 0 /\ p \in Partition
    BY <1>0, <1>2 DEF TakePartition, Goto, TypeOK
  <2>3. \A c \in final'[p] : ~(c.id < 0)
    BY <2>2 DEF TypeOK, Chunk
  <2>4. QED
    BY <2>1, <2>2, <2>3 DEF Underway, Progress, Stored, NewJob
<1>3. CASE WalkVanished(d) \/ WalkHardError(d)
  <2>1. pc[d] = "walk" /\ pc' = pc /\ UNCHANGED <<final, walked>>
    BY <1>3 DEF WalkVanished, WalkHardError, MoreEntries
  <2>2. job'[d].part = job[d].part /\ job'[d].rows = job[d].rows
        /\ job'[d].buf = job[d].buf /\ job'[d].next = job[d].next
    BY <1>0, <1>3 DEF WalkVanished, WalkHardError, TypeOK, Job
  <2>3. QED
    BY <1>0, <2>1, <2>2 DEF Underway, Progress, Stored
<1>4. CASE BufferRow(d)
  <2>1. pc[d] = "walk" /\ pc' = pc /\ final' = final
    BY <1>4 DEF BufferRow, MoreEntries
  <2>2. job'[d].part = job[d].part /\ job'[d].rows = job[d].rows + 1
        /\ job'[d].buf = job[d].buf \cup {job[d].rows + 1} /\ job'[d].next = job[d].next
    BY <1>0, <1>4 DEF BufferRow, Appended, TypeOK, Job
  <2>3. walked'[job[d].part] = walked[job[d].part] + 1
    BY <1>0, <1>4 DEF BufferRow, TypeOK
  <2>4. Progress(d) /\ job[d].rows \in Nat
    BY <1>0, <2>1 DEF Underway, Job
  <2>5. Progress(d)'
    BY <1>0, <2>1, <2>2, <2>3, <2>4 DEF Progress, Stored
  <2>6. QED
    BY <2>1, <2>5 DEF Underway
<1>5. CASE FlushRow(d)
  <2>1. pc[d] = "walk" /\ pc' = pc /\ Progress(d)
    BY <1>5 DEF FlushRow, MoreEntries, Underway
  <2>2. final' = [final EXCEPT ![job[d].part] = Replace(@, NextChunk(d, Appended(d)))]
    BY <1>5 DEF FlushRow, Put
  <2>3. job'[d].part = job[d].part /\ job'[d].rows = job[d].rows + 1
        /\ job'[d].buf = {} /\ job'[d].next = job[d].next + 1
    BY <1>0, <1>5 DEF FlushRow, TypeOK, Job
  <2>4. walked'[job[d].part] = job'[d].rows
    BY <1>0, <1>5, <2>1, <2>3 DEF FlushRow, Progress, TypeOK
  <2>5. Progress(d)'
    BY <1>0, <2>1, <2>2, <2>3, <2>4, PutProgress
  <2>6. QED
    BY <2>1, <2>5 DEF Underway
<1>6. CASE FlushTail(d)
  <2>1. pc[d] = "walk" /\ pc'[d] = "list" /\ Progress(d) /\ walked' = walked
    BY <1>0, <1>6 DEF FlushTail, Goto, AfterWalk, Underway, TypeOK
  <2>2. final' = [final EXCEPT ![job[d].part] = Replace(@, NextChunk(d, job[d].buf))]
    BY <1>6 DEF FlushTail, Put
  <2>3. job'[d].part = job[d].part /\ job'[d].rows = job[d].rows
        /\ job'[d].buf = {} /\ job'[d].next = job[d].next + 1
    BY <1>0, <1>6 DEF FlushTail, TypeOK, Job
  <2>4. walked'[job[d].part] = job'[d].rows
    BY <2>1, <2>3 DEF Progress
  <2>5. Progress(d)'
    BY <1>0, <2>1, <2>2, <2>3, <2>4, PutProgress
  <2>6. QED
    BY <2>1, <2>3, <2>5 DEF Underway
<1>7. CASE EndWalk(d)
  <2>1. pc[d] = "walk" /\ pc'[d] = "list" /\ job[d].buf = {} /\ UNCHANGED <<final, walked, job>>
    BY <1>0, <1>7 DEF EndWalk, Goto, AfterWalk, TypeOK
  <2>2. QED
    BY <1>0, <2>1 DEF Underway, Progress, Stored
<1>8. CASE ListChunks(d)
  <2>1. pc[d] = "list" /\ pc'[d] = "prune" /\ UNCHANGED <<final, walked>>
    BY <1>0, <1>8 DEF ListChunks, Goto, TypeOK
  <2>2. job'[d] = [job[d] EXCEPT !.stale = StaleIds(final[job[d].part], job[d].next)]
    BY <1>0, <1>8 DEF ListChunks, TypeOK
  <2>3. job'[d].part = job[d].part /\ job'[d].rows = job[d].rows
        /\ job'[d].buf = job[d].buf /\ job'[d].next = job[d].next
        /\ job'[d].stale = StaleIds(final[job[d].part], job[d].next)
    BY <1>0, <2>2 DEF Job
  <2>4. Progress(d)' /\ job'[d].buf = {}
    BY <1>0, <2>1, <2>3 DEF Underway, Progress, Stored
  <2>5. \A c \in final[job[d].part] : c.id \in Nat
    BY <1>0 DEF TypeOK, Chunk
  <2>6. Listed(d)'
    BY <1>0, <2>1, <2>3, <2>5 DEF Listed, StaleIds, Ids, Job
  <2>7. QED
    BY <2>1, <2>4, <2>6 DEF Underway
<1>9. CASE DeleteNext(d)
  <2> DEFINE k == NextStale(d)
             p == job[d].part
  <2>1. pc[d] = "prune" /\ pc' = pc /\ walked' = walked /\ Progress(d) /\ Listed(d)
    BY <1>9 DEF DeleteNext, Underway
  <2>2. k \in job[d].stale /\ k >= job[d].next
    BY <1>9, <2>1, NextStaleIsLeast DEF DeleteNext, Listed
  <2> HIDE DEF k
  <2>3. final'[p] = Without(final[p], k)
    BY <1>0, <1>9 DEF DeleteNext, TypeOK, k
  <2>4. job'[d] = [job[d] EXCEPT !.stale = @ \ {k}]
    BY <1>0, <1>9 DEF DeleteNext, TypeOK, k
  <2>5. job'[d].part = job[d].part /\ job'[d].rows = job[d].rows
        /\ job'[d].buf = job[d].buf /\ job'[d].next = job[d].next
        /\ job'[d].stale = job[d].stale \ {k}
    BY <1>0, <2>4 DEF Job
  <2>6. \A c \in final[p] : c.id \in Nat /\ job[d].next \in Nat /\ k \in Nat
    BY <1>0, <2>2 DEF TypeOK, Chunk, Job
  <2>7. Stored(job[d].part, job[d].next)' = Stored(p, job[d].next)
    BY <2>2, <2>3, <2>5, <2>6 DEF Stored, Without
  <2>8. Progress(d)'
    BY <1>0, <2>1, <2>5, <2>7 DEF Progress
  <2>9. Listed(d)'
    BY <2>1, <2>3, <2>5, <2>6 DEF Listed, Without
  <2>10. QED
    BY <2>1, <2>5, <2>8, <2>9 DEF Underway
<1>10. QED
  BY <1>0, <1>1, <1>2, <1>3, <1>4, <1>5, <1>6, <1>7, <1>8, <1>9
    DEF Driver, Rename, PruneNext, LocalFinalized

\* A driver leaves its partition settled only by finishing it, and then every
\* chunk in it is the run's own.
LEMMA FinishedIsExact ==
  ASSUME ControlInv, NEW d \in Drivers, Underway(d), S3Finalized(d)
  PROVE  Exactly(job[d].part, run, walked[job[d].part])
<1> DEFINE p == job[d].part
<1>1. Progress(d) /\ Listed(d) /\ job[d].buf = {} /\ job[d].stale = {}
  BY DEF S3Finalized, Underway
<1>2. Stored(p, job[d].next) = final[p]
  BY <1>1 DEF Listed, Stored
<1>3. QED
  BY <1>1, <1>2 DEF Progress, Exactly

LEMMA SettledStep ==
  ASSUME ControlInv, Sink = "s3", DriveInv, NEW d \in Drivers, Driver(d), phase = "drive",
         NEW p \in Partition, Settled(p)'
  PROVE  Exactly(p, run, walked[p])'
<1>0. /\ UNCHANGED <<run, queued>> /\ pc[d] # "failed"
      /\ \A e \in Drivers \ {d} : pc'[e] = pc[e] /\ job'[e] = job[e]
  BY DriverShape DEF ControlInv
<1>1. CASE Settled(p)
  <2>1. final'[p] = final[p] /\ walked'[p] = walked[p]
    BY <1>1, DriverFrame DEF ControlInv, Settled, Claims
  <2>2. QED
    BY <1>0, <1>1, <2>1 DEF DriveInv, Exactly
<1>2. CASE ~Settled(p)
  <2>1. ~TakePartition(d)
    <3> SUFFICES ASSUME TakePartition(d) PROVE FALSE
      OBVIOUS
    <3>1. PICK q \in todo : todo' = todo \ {q} /\ job' = [job EXCEPT ![d] = NewJob(q)]
      BY DEF TakePartition
    <3>2. job'[d].part = q /\ Claims(d)' /\ ~Claims(d)
      BY <3>1 DEF TakePartition, Goto, NewJob, Claims, Busy, ControlInv, TypeOK
    <3>3. p # q
      BY <3>2 DEF Settled
    <3>4. \A e \in Drivers : Claims(e) => Claims(e)' /\ job'[e] = job[e]
      BY <1>0, <3>2 DEF Claims, Busy
    <3>5. QED
      BY <1>0, <1>2, <3>1, <3>3, <3>4 DEF Settled
  <2>2. todo' = todo /\ job'[d].part = job[d].part
    BY <2>1, DriverShape DEF ControlInv
  <2>3. job[d].part = p /\ Claims(d) /\ ~Claims(d)'
    BY <1>0, <1>2, <2>2 DEF Settled, Claims, Busy
  <2>4. S3Finalized(d)
    BY <2>1, <2>3
      DEF Driver, CheckCancel, QueueEmpty, WalkVanished, WalkHardError, BufferRow, FlushRow,
          EndWalk, FlushTail, PutFails, Rename, PruneNext, LocalFinalized, ListChunks,
          DeleteNext, FinalizeFails, RaiseCancel, Goto, MoreEntries, AfterWalk, Claims, Busy,
          ControlInv, SinkInv, TypeOK
  <2>5. UNCHANGED <<final, walked>>
    BY <2>4 DEF S3Finalized, Fold, index, ghost
  <2>6. QED
    BY <1>0, <2>3, <2>4, <2>5, FinishedIsExact DEF DriveInv, Exactly
<1>3. QED
  BY <1>1, <1>2

LEMMA DriveStep ==
  ASSUME ControlInv, Sink = "s3", phase = "drive", DriveInv, NEW d \in Drivers, Driver(d)
  PROVE  DriveInv'
<1>0. /\ UNCHANGED run
      /\ \A e \in Drivers \ {d} : pc'[e] = pc[e] /\ job'[e] = job[e]
      /\ job[d].part \in Partition
  BY DriverShape DEF ControlInv, TypeOK, Job
<1>1. ASSUME NEW e \in Drivers PROVE Underway(e)'
  <2>1. CASE e = d
    BY <2>1, UnderwayStep DEF DriveInv
  <2>2. CASE e # d
    <3>1. Busy(e) => /\ final'[job[e].part] = final[job[e].part]
                     /\ walked'[job[e].part] = walked[job[e].part]
      <4> SUFFICES ASSUME Busy(e)
                   PROVE  /\ final'[job[e].part] = final[job[e].part]
                          /\ walked'[job[e].part] = walked[job[e].part]
        OBVIOUS
      <4>1. Busy(d) => job[e].part # job[d].part
        BY <2>2 DEF ControlInv, ClaimInv
      <4>2. job[e].part \in Partition
        BY DEF ControlInv, TypeOK, Job
      <4>3. QED
        BY <4>1, <4>2, DriverFrame DEF ControlInv
    <3>2. QED
      BY <1>0, <2>2, <3>1, UnderwayKept DEF DriveInv
  <2>3. QED
    BY <2>1, <2>2
<1>2. ASSUME NEW p \in todo' PROVE walked'[p] = 0
  <2>1. p \in todo /\ p \in Partition
    BY <1>2, DriverShape DEF ControlInv, TypeOK, TakePartition
  <2>2. Busy(d) => p # job[d].part
    BY <2>1 DEF ControlInv, ClaimInv
  <2>3. QED
    BY <2>1, <2>2, DriverFrame DEF ControlInv, DriveInv
<1>3. \A p \in Partition : Settled(p)' => Exactly(p, run, walked[p])'
  BY SettledStep
<1>4. QED
  BY <1>1, <1>2, <1>3 DEF DriveInv

\* When the drivers are joined and none failed, every queued partition is settled.
LEMMA JoinedIsExact ==
  ASSUME ControlInv, DriveInv, Joined, Tolerable
  PROVE  \A p \in queued : Exactly(p, run, walked[p])
<1>1. \A d \in Drivers : pc[d] = "done"
  BY DEF Joined, Tolerable, AnyFailed
<1>2. todo = {}
  BY <1>1 DEF ControlInv, DrainInv, Joined
<1>3. \A p \in queued : Settled(p) /\ p \in Partition
  BY <1>1, <1>2 DEF Settled, Claims, Busy, ControlInv, TypeOK
<1>4. QED
  BY <1>3 DEF DriveInv

LEMMA S3Step == ControlInv /\ S3Inv /\ [Next]_vars => S3Inv'
<1> SUFFICES ASSUME ControlInv, S3Inv, [Next]_vars, Sink = "s3"
             PROVE  (phase' = "drive" => DriveInv') /\ AttestedExact'
  BY DEF S3Inv
<1> USE DEF S3Inv
<1>1. CASE UNCHANGED vars
  BY <1>1 DEF vars, DriveInv, Underway, Progress, Stored, Listed, Settled, Claims, Busy,
              Exactly, AttestedExact, Attested
<1>2. CASE BeginRun
  <2>1. ASSUME NEW present, NEW scope, NEW tolerant, AcceptRun(present, scope, tolerant)
        PROVE  phase' # "drive" /\ UNCHANGED <<marker, queued, final, walked>>
    BY <2>1 DEF AcceptRun
  <2>2. ASSUME UNCHANGED vars PROVE S3Inv'
    BY <2>2 DEF vars, DriveInv, Underway, Progress, Stored, Listed, Settled, Claims, Busy,
                Exactly, AttestedExact, Attested
  <2>3. QED
    BY <1>2, <2>1, <2>2 DEF BeginRun, RefuseRun, AttestedExact, Attested, Exactly
<1>3. CASE ClearMarker
  <2>1. \A d \in Drivers : pc'[d] \in {"check", "done"}
    BY <1>3 DEF ClearMarker
  <2>2. queued' = todo' /\ todo' = todo /\ todo \subseteq Partition
        /\ walked' = [p \in Partition |-> 0] /\ marker' = NoMarker
    BY <1>3 DEF ClearMarker, Cleared, ControlInv, TypeOK
  <2>3. DriveInv'
    BY <2>1, <2>2 DEF DriveInv, Underway, Settled
  <2>4. QED
    BY <2>2, <2>3 DEF AttestedExact, Attested, NoMarker
<1>4. CASE ClearFails
  BY <1>4 DEF ClearFails, Halt, ghost, NoMarker, AttestedExact, Attested, Exactly
<1>5. CASE RunFails
  BY <1>5 DEF RunFails, Joined, Halt, index, ControlInv, PhaseInv, AttestedExact, Attested
<1>6. CASE Attest \/ AttestFails
  <2>1. Joined /\ Tolerable /\ Halt /\ UNCHANGED <<final, queued, walked>>
        /\ marker' \in {MarkerOf(run, errs), NoMarker}
    BY <1>6 DEF Attest, AttestFails, ghost
  <2>2. \A p \in queued : Exactly(p, run, walked[p])
    BY <2>1, JoinedIsExact DEF Joined
  <2>3. QED
    BY <2>1, <2>2 DEF MarkerOf, NoMarker, Halt, AttestedExact, Attested, Exactly
<1>7. ASSUME NEW d \in Drivers, Driver(d)
      PROVE  (phase' = "drive" => DriveInv') /\ AttestedExact'
  <2>1. phase = "drive" /\ marker' = marker /\ marker.state = "none"
    BY <1>7, DriverShape DEF ControlInv, PhaseInv
  <2>2. QED
    BY <1>7, <2>1, DriveStep DEF AttestedExact, Attested
<1>8. CASE Crash
  <2>1. CASE phase = "drive"
    BY <1>8, <2>1 DEF Crash, Halt, index, ControlInv, PhaseInv, AttestedExact, Attested
  <2>2. CASE phase # "drive"
    BY <1>8, <2>2 DEF Crash, Halt, index, ghost, AttestedExact, Attested, Exactly
  <2>3. QED
    BY <2>1, <2>2
<1>9. QED
  BY <1>1, <1>2, <1>3, <1>4, <1>5, <1>6, <1>7, <1>8 DEF Next, Main

LEMMA S3Init == Init => S3Inv
BY DEF Init, S3Inv, AttestedExact, Attested, NoMarker, MarkerOf

\* An attested S3 index holds, in every partition the attesting run queued, the
\* rows of that run's walk and nothing else: for any number of drivers, whatever
\* earlier runs left behind, whichever calls failed and wherever they died.
THEOREM S3AttestedExact == ASSUME Sink = "s3" PROVE Spec => []AttestedExact
<1>1. S3Inv => AttestedExact
  BY DEF S3Inv
<1>2. QED
  BY <1>1, S3Init, S3Step, ControlCorrect, PTL DEF Spec

-----------------------------------------------------------------------------
(* The crawl implements the transaction *)

Scope == IF phase = "drive" THEN queued ELSE {}

Owners == [p \in Partition |-> {c.run : c \in final[p]}]

\* A driver leaves in its partition only runs that were there, and its own.
LEMMA DriverOwners ==
  ASSUME ControlInv, Sink = "s3", NEW d \in Drivers, Driver(d), final' # final
  PROVE  /\ Busy(d)
         /\ \E runs \in SUBSET (Owners[job[d].part] \cup {run}) :
              Owners' = [Owners EXCEPT ![job[d].part] = runs]
<1> DEFINE p == job[d].part
<1>0. p \in Partition /\ TypeOK /\ pc[d] # "publish"
  BY DEF ControlInv, TypeOK, Job, SinkInv
<1>1. Busy(d) /\ \A q \in Partition : q # p => final'[q] = final[q]
  BY DriverFrame DEF ControlInv
<1>2. \A rows : NextChunk(d, rows).run = run
      /\ [NextChunk(d, rows) EXCEPT !.whole = (Sink = "s3")].run = run
  BY DEF NextChunk
<1>3. \A c \in final'[p] : c.run = run \/ c \in final[p]
  <2>1. CASE FlushRow(d)
    BY <1>0, <1>2, <2>1 DEF FlushRow, Put, Replace, TypeOK
  <2>2. CASE FlushTail(d)
    BY <1>0, <1>2, <2>2 DEF FlushTail, Put, Replace, TypeOK
  <2>3. CASE PutFails(d)
    <3>1. ASSUME NEW c, c.run = run, Put(p, c) PROVE \A o \in final'[p] : o.run = run \/ o \in final[p]
      BY <1>0, <3>1 DEF Put, Replace, TypeOK
    <3>2. QED
      BY <1>2, <2>3, <3>1 DEF PutFails
  <2>4. CASE DeleteNext(d) \/ FinalizeFails(d)
    BY <1>0, <2>4 DEF DeleteNext, FinalizeFails, Without, TypeOK
  <2>5. QED
    BY <1>0, <2>1, <2>2, <2>3, <2>4
      DEF Driver, CheckCancel, TakePartition, QueueEmpty, WalkVanished, WalkHardError, BufferRow,
          EndWalk, Rename, PruneNext, LocalFinalized, ListChunks, S3Finalized, Fold, RaiseCancel,
          index
<1> DEFINE runs == {c.run : c \in final'[p]}
<1>4. runs \in SUBSET (Owners[p] \cup {run})
  BY <1>0, <1>3 DEF Owners
<1>5. Owners' = [Owners EXCEPT ![p] = runs]
  BY <1>0, <1>1 DEF Owners
<1>6. QED
  BY <1>1, <1>4, <1>5

\* Each step of the crawl is a step of the transaction or none.
LEMMA LedgerStep ==
  ASSUME Sink = "s3", ControlInv, S3Inv, [Next]_vars
  PROVE  [Ledger!Next]_(Ledger!ledger)
<1> USE DEF Ledger!ledger, Attested, Scope, Owners
<1> DEFINE Same == UNCHANGED <<Attested, run, Scope, Owners>>
<1>s. Same => [Ledger!Next]_(Ledger!ledger)
  OBVIOUS
<1>1. CASE UNCHANGED vars
  BY <1>1, <1>s DEF vars
<1>2. CASE BeginRun
  <2>1. Same
    BY <1>2 DEF BeginRun, AcceptRun, RefuseRun, vars
  <2>2. QED
    BY <1>s, <2>1
<1>3. CASE ClearMarker
  <2>1. PICK S \in SUBSET Partition : S = todo
    BY DEF ControlInv, TypeOK
  <2>2. Ledger!Begin(S)
    BY <1>3, <2>1 DEF Ledger!Begin, ClearMarker, Cleared, NoMarker, ControlInv, PhaseInv
  <2>3. QED
    BY <2>2 DEF Ledger!Next
<1>4. CASE ClearFails
  <2>1. CASE marker' = marker
    BY <1>4, <1>s, <2>1 DEF ClearFails, Halt
  <2>2. CASE marker' = NoMarker
    <3>1. Ledger!Revoke
      BY <1>4, <2>2 DEF Ledger!Revoke, ClearFails, Halt, NoMarker
    <3>2. QED
      BY <3>1 DEF Ledger!Next
  <2>3. QED
    BY <1>4, <2>1, <2>2 DEF ClearFails
<1>a. ASSUME phase = "drive", phase' # "drive", run' = run, UNCHANGED <<final, marker>>
      PROVE  Ledger!Next
  BY <1>a DEF Ledger!Next, Ledger!Abandon, ControlInv, ClaimInv
<1>5. CASE RunFails
  BY <1>5, <1>a DEF RunFails, Joined, Halt, index
<1>6. CASE Attest \/ AttestFails
  <2>1. Joined /\ Tolerable /\ Halt /\ final' = final /\ phase = "drive"
        /\ marker' \in {MarkerOf(run, errs), NoMarker}
    BY <1>6 DEF Attest, AttestFails, Joined
  <2>2. \A p \in queued : Owners[p] \subseteq {run}
    BY <2>1, JoinedIsExact DEF S3Inv, Exactly, ControlInv, TypeOK
  <2>3. CASE marker' = MarkerOf(run, errs)
    <3>1. Ledger!Commit
      BY <2>1, <2>2, <2>3 DEF Ledger!Commit, Halt, MarkerOf, ControlInv, ClaimInv
    <3>2. QED
      BY <3>1 DEF Ledger!Next
  <2>4. CASE marker' = NoMarker
    <3>1. Ledger!Abandon
      BY <2>1, <2>4 DEF Ledger!Abandon, Halt, NoMarker, ControlInv, ClaimInv, PhaseInv
    <3>2. QED
      BY <3>1 DEF Ledger!Next
  <2>5. QED
    BY <2>1, <2>3, <2>4
<1>7. ASSUME NEW d \in Drivers, Driver(d) PROVE [Ledger!Next]_(Ledger!ledger)
  <2>1. phase = "drive" /\ UNCHANGED <<phase, run, queued, marker>>
    BY <1>7, DriverShape DEF ControlInv, PhaseInv
  <2>2. CASE final' = final
    BY <1>s, <2>1, <2>2
  <2>3. CASE final' # final
    <3>1. PICK p \in Partition : p = job[d].part
      BY DEF ControlInv, TypeOK, Job
    <3>2. Ledger!Rewrite(p)
      BY <1>7, <2>1, <2>3, <3>1, DriverOwners DEF Ledger!Rewrite, ControlInv, ClaimInv
    <3>3. QED
      BY <3>2 DEF Ledger!Next
  <2>4. QED
    BY <2>2, <2>3
<1>8. CASE Crash
  <2>1. CASE phase = "drive"
    BY <1>8, <1>a, <2>1 DEF Crash, Halt, index
  <2>2. CASE phase # "drive"
    BY <1>8, <1>s, <2>2 DEF Crash, Halt, index
  <2>3. QED
    BY <2>1, <2>2
<1>9. QED
  BY <1>1, <1>2, <1>3, <1>4, <1>5, <1>6, <1>7, <1>8 DEF Next, Main

\* A crawl into S3 is a transaction over the partitions it queued: revoked first,
\* rewriting only those, restored only when each holds the run's rows alone.
THEOREM S3CrawlIsATransaction == ASSUME Sink = "s3" PROVE Spec => CrawlIsATransaction
<1>1. Init => Ledger!Init
  <2> SUFFICES ASSUME Init PROVE Ledger!Init
    OBVIOUS
  <2>1. \A p \in Partition : {c.run : c \in final[p]} \in SUBSET {0}
    BY DEF Init, OldChunk
  <2>2. QED
    BY <2>1 DEF Init, Ledger!Init, Attested
<1>2. QED
  BY <1>1, LedgerStep, S3Init, S3Step, ControlCorrect, PTL
    DEF Spec, CrawlIsATransaction, Ledger!Spec

-----------------------------------------------------------------------------
(* The local sink *)

\* A driver writes no partition but its own, and that only while it is on it;
\* what readers see changes only as it renames and prunes.
LEMMA LocalFrame ==
  ASSUME ControlInv, Sink = "local", NEW d \in Drivers, Driver(d)
  PROVE  /\ \A q \in Partition : q # job[d].part =>
              final'[q] = final[q] /\ partial'[q] = partial[q] /\ walked'[q] = walked[q]
         /\ ~Busy(d) => UNCHANGED <<final, partial, walked>>
         /\ Rename(d) \/ PruneNext(d) \/ final' = final
<1> USE DEF ghost, index, Busy, ControlInv
<1>0. TypeOK /\ pc[d] # "prune"
  BY DEF SinkInv
<1>1. CASE CheckCancel(d) \/ TakePartition(d) \/ QueueEmpty(d) \/ WalkVanished(d)
           \/ WalkHardError(d) \/ EndWalk(d) \/ LocalFinalized(d) \/ ListChunks(d)
           \/ S3Finalized(d) \/ RaiseCancel(d)
  BY <1>1 DEF CheckCancel, TakePartition, QueueEmpty, WalkVanished, WalkHardError,
              EndWalk, LocalFinalized, ListChunks, S3Finalized, RaiseCancel, Fold
<1>2. CASE BufferRow(d)
  BY <1>0, <1>2 DEF BufferRow, MoreEntries, TypeOK
<1>3. CASE FlushRow(d)
  BY <1>0, <1>3 DEF FlushRow, MoreEntries, Put, TypeOK
<1>4. CASE FlushTail(d)
  BY <1>0, <1>4 DEF FlushTail, Put, TypeOK
<1>5. CASE PutFails(d)
  <2>1. pc[d] = "walk" /\ walked' = walked
    BY <1>5 DEF PutFails
  <2>2. ASSUME NEW c, Put(job[d].part, c)
        PROVE  final' = final /\ \A q \in Partition : q # job[d].part => partial'[q] = partial[q]
    BY <1>0, <2>2 DEF Put, TypeOK
  <2>3. QED
    BY <1>5, <2>1, <2>2 DEF PutFails
<1>6. CASE Rename(d)
  BY <1>0, <1>6 DEF Rename, TypeOK
<1>7. CASE PruneNext(d)
  BY <1>0, <1>7 DEF PruneNext, TypeOK
<1>8. CASE DeleteNext(d) \/ FinalizeFails(d)
  BY <1>0, <1>8 DEF DeleteNext, FinalizeFails
<1>9. QED
  BY <1>1, <1>2, <1>3, <1>4, <1>5, <1>6, <1>7, <1>8 DEF Driver

-----------------------------------------------------------------------------
(* The chunks of one partition *)

LEMMA LocalKept ==
  ASSUME NEW e \in Drivers, LocalUnderway(e), pc'[e] = pc[e], job'[e] = job[e], run' = run,
         Busy(e) => /\ final'[job[e].part] = final[job[e].part]
                    /\ partial'[job[e].part] = partial[job[e].part]
                    /\ walked'[job[e].part] = walked[job[e].part]
  PROVE  LocalUnderway(e)'
BY DEF LocalUnderway, LocalProgress, Mine, Busy

\* A chunk written under the driver's next number joins the walk's chunks, with
\* the rows that leave the buffer and the row just walked if there is one.
LEMMA LocalPut ==
  ASSUME ControlInv, NEW d \in Drivers, LocalProgress(d), job[d].cursor = 0, run' = run,
         NEW rows, final' = final,
         partial' = [partial EXCEPT ![job[d].part] = Replace(@, NextChunk(d, rows))],
         job'[d].part = job[d].part, job'[d].next = job[d].next + 1, job'[d].cursor = 0,
         job'[d].buf = {}, walked'[job[d].part] = job'[d].rows,
         \/ job'[d].rows = job[d].rows /\ rows = job[d].buf
         \/ job'[d].rows = job[d].rows + 1 /\ rows = Appended(d)
  PROVE  LocalProgress(d)'
<1> DEFINE p == job[d].part
           n == job[d].next
           m == job[d].rows
           c == NextChunk(d, rows)
<1>0. /\ p \in Partition /\ n \in Nat /\ m \in Nat /\ job[d].buf \subseteq Nat
      /\ \A o \in final[p] \cup partial[p] : o.id \in Nat
  BY DEF ControlInv, TypeOK, Job, Chunk
<1>1. c.id = n /\ c.run = run /\ c.whole /\ c.rows = rows
  BY DEF NextChunk
<1>2. partial'[p] = Replace(partial[p], c)
  BY <1>0 DEF ControlInv, TypeOK
<1> HIDE DEF c
<1>3. Mine(d) = {o \in partial[p] : o.id < n}
  BY <1>0 DEF Mine
<1>4. Mine(d)' = Mine(d) \cup {c}
  <2>1. \A o \in final[p] : ~(o.id < 0)
    BY <1>0
  <2>2. \A o \in partial[p] : o.id # n /\ 0 <= o.id /\ o.id < n + 1 <=> o.id < n
    BY <1>0
  <2>3. Mine(d)' = {o \in partial'[p] : 0 <= o.id /\ o.id < n + 1}
    BY <2>1 DEF Mine
  <2>4. QED
    BY <1>0, <1>1, <1>2, <1>3, <2>2, <2>3 DEF Replace
<1>5. /\ rows \subseteq 1 .. job'[d].rows
      /\ \A o \in Mine(d) : /\ o.rows \cap rows = {} /\ o.rows \subseteq 1 .. job'[d].rows
                            /\ o.id < n /\ o.run = run /\ o.whole
  BY <1>0, <1>3 DEF LocalProgress, Appended
<1>6. ASSUME NEW i \in 1 .. job'[d].rows
      PROVE  i \in rows \/ \E o \in Mine(d) : i \in o.rows
  BY <1>0 DEF LocalProgress, Appended
<1>7. \A o, e \in Mine(d) : o # e => o.id # e.id /\ o.rows \cap e.rows = {}
  BY DEF LocalProgress
<1>8. \A i \in 0 .. (n - 1) : \E o \in Mine(d) : o.id = i
  BY DEF LocalProgress
<1>9. \A o \in final[p] : o.run # run
  BY <1>0 DEF LocalProgress
<1> DEFINE M == Mine(d)'
<1>10. \A o \in M : o.run = run' /\ o.whole /\ o.rows \subseteq (1 .. job'[d].rows) \ job'[d].buf
  BY <1>1, <1>4, <1>5
<1>11. \A o, e \in M : o # e => o.id # e.id /\ o.rows \cap e.rows = {}
  BY <1>0, <1>1, <1>4, <1>5, <1>7
<1>12. \A i \in 1 .. job'[d].rows : \E o \in M : i \in o.rows
  BY <1>1, <1>4, <1>6
<1>13. \A i \in 0 .. (job'[d].next - 1) : \E o \in M : o.id = i
  <2>1. \A i \in 0 .. (job'[d].next - 1) : i \in 0 .. (n - 1) \/ i = n
    BY <1>0
  <2>2. QED
    BY <1>1, <1>4, <1>8, <2>1
<1>14. /\ \A o \in final'[job'[d].part] : o.run # run'
       /\ \A o \in final'[job'[d].part] : job'[d].cursor <= o.id
  BY <1>0, <1>9
<1> HIDE DEF M, p, n, m
<1>15. QED
  BY <1>10, <1>11, <1>12, <1>13, <1>14 DEF LocalProgress, M

\* A rename moves one of the walk's chunks and takes none of the others.
LEMMA LocalRename ==
  ASSUME ControlInv, NEW d \in Drivers, LocalProgress(d), Rename(d), run' = run
  PROVE  LocalProgress(d)'
<1> DEFINE p == job[d].part
           n == job[d].next
           i == job[d].cursor
<1>0. /\ p \in Partition /\ n \in Nat /\ i \in Nat /\ i < n
      /\ \A o \in final[p] \cup partial[p] : o.id \in Nat
  BY DEF Rename, ControlInv, TypeOK, Job, Chunk
<1>1. PICK c \in partial[p] : /\ c.id = i
                              /\ partial' = [partial EXCEPT ![p] = @ \ {c}]
                              /\ final' = [final EXCEPT ![p] = Replace(@, c)]
  BY DEF Rename
<1>2. partial'[p] = partial[p] \ {c} /\ final'[p] = {o \in final[p] : o.id # i} \cup {c}
  BY <1>0, <1>1 DEF Replace, ControlInv, TypeOK
<1>3. /\ job'[d].part = p /\ job'[d].next = n /\ job'[d].cursor = i + 1
      /\ job'[d].rows = job[d].rows /\ job'[d].buf = job[d].buf /\ walked' = walked
  BY <1>0 DEF Rename, ghost, ControlInv, TypeOK, Job
<1>4. c \in Mine(d)
  BY <1>0, <1>1 DEF Mine
<1>5. \A o \in Mine(d) : o.id = i => o = c
  BY <1>1, <1>4 DEF LocalProgress
<1>6. Mine(d)' = Mine(d)
  <2>1. \A o : o \in Mine(d) <=> \/ o \in final[p] /\ o.id < i /\ o.id < n
                                 \/ o \in partial[p] /\ i <= o.id /\ o.id < n
    BY DEF Mine
  <2>2. \A o : o \in Mine(d)' <=> \/ o \in final'[p] /\ o.id < i + 1 /\ o.id < n
                                  \/ o \in partial'[p] /\ i + 1 <= o.id /\ o.id < n
    BY <1>3 DEF Mine
  <2>3. ASSUME NEW o, o \in Mine(d) PROVE o \in Mine(d)'
    <3>1. CASE o \in final[p] /\ o.id < i /\ o.id < n
      BY <1>0, <1>2, <2>2, <3>1
    <3>2. CASE o \in partial[p] /\ i <= o.id /\ o.id < n
      <4>1. CASE o = c
        BY <1>0, <1>1, <1>2, <2>2, <4>1
      <4>2. CASE o # c
        <5>1. o.id # i /\ o.id \in Nat
          BY <1>0, <1>5, <2>3, <3>2, <4>2
        <5>2. QED
          BY <1>0, <1>2, <2>2, <3>2, <4>2, <5>1
      <4>3. QED
        BY <4>1, <4>2
    <3>3. QED
      BY <2>1, <2>3, <3>1, <3>2
  <2>4. ASSUME NEW o, o \in Mine(d)' PROVE o \in Mine(d)
    <3>1. CASE o = c
      BY <1>4, <3>1
    <3>2. CASE o \in final[p] /\ o.id # i /\ o.id < i + 1 /\ o.id < n
      BY <1>0, <2>1, <3>2
    <3>3. CASE o \in partial[p] /\ i + 1 <= o.id /\ o.id < n
      BY <1>0, <2>1, <3>3
    <3>4. QED
      BY <1>2, <2>2, <2>4, <3>1, <3>2, <3>3
  <2>5. QED
    BY <2>3, <2>4
<1>7. \A o \in final'[p] : o.run = run => o.id < i + 1 /\ o.id < n
  <2>1. \A o \in final[p] : o.run = run => o.id < i /\ o.id < n
    BY DEF LocalProgress
  <2>2. QED
    BY <1>0, <1>1, <1>2, <2>1
<1>8. \A o \in final'[p] : o.id < n \/ i + 1 <= o.id
  BY <1>0, <1>1, <1>2
<1>9. /\ walked[p] = job[d].rows
      /\ job[d].buf \subseteq 1 .. job[d].rows
      /\ \A o \in Mine(d) : /\ o.run = run /\ o.whole
                            /\ o.rows \subseteq (1 .. job[d].rows) \ job[d].buf
      /\ \A o, e \in Mine(d) : o # e => o.id # e.id /\ o.rows \cap e.rows = {}
      /\ \A k \in 1 .. job[d].rows : k \in job[d].buf \/ \E o \in Mine(d) : k \in o.rows
      /\ \A k \in 0 .. (n - 1) : \E o \in Mine(d) : o.id = k
  BY DEF LocalProgress
<1> HIDE DEF p, n, i
<1>10. QED
  BY <1>3, <1>6, <1>7, <1>8, <1>9 DEF LocalProgress, p, n, i

\* A prune takes a chunk beyond the walk's.
LEMMA LocalPrune ==
  ASSUME ControlInv, NEW d \in Drivers, LocalProgress(d), PruneNext(d), run' = run
  PROVE  LocalProgress(d)'
<1> DEFINE p == job[d].part
           n == job[d].next
           i == job[d].cursor
<1>0. /\ p \in Partition /\ n \in Nat /\ i \in Nat /\ n <= i
      /\ \A o \in final[p] \cup partial[p] : o.id \in Nat
  BY DEF PruneNext, ControlInv, TypeOK, Job, Chunk
<1>2. partial' = partial /\ final'[p] = {o \in final[p] : o.id # i}
  BY <1>0 DEF PruneNext, Without, ControlInv, TypeOK
<1>3. /\ job'[d].part = p /\ job'[d].next = n /\ job'[d].cursor = i + 1
      /\ job'[d].rows = job[d].rows /\ job'[d].buf = job[d].buf /\ walked' = walked
  BY <1>0 DEF PruneNext, ghost, ControlInv, TypeOK, Job
<1>4. Mine(d) = {o \in final[p] : o.id < n}
  BY <1>0 DEF Mine
<1>5. Mine(d)' = {o \in final'[p] : o.id < n}
  BY <1>0, <1>2, <1>3 DEF Mine
<1>6. Mine(d)' = Mine(d)
  BY <1>0, <1>2, <1>4, <1>5
<1>7. \A o \in final[p] : (o.run = run => o.id < i /\ o.id < n) /\ (o.id < n \/ i <= o.id)
  BY DEF LocalProgress
<1>8. \A o \in final'[p] : (o.run = run => o.id < i + 1 /\ o.id < n) /\ (o.id < n \/ i + 1 <= o.id)
  BY <1>0, <1>2, <1>7
<1>9. /\ walked[p] = job[d].rows
      /\ job[d].buf \subseteq 1 .. job[d].rows
      /\ \A o \in Mine(d) : /\ o.run = run /\ o.whole
                            /\ o.rows \subseteq (1 .. job[d].rows) \ job[d].buf
      /\ \A o, e \in Mine(d) : o # e => o.id # e.id /\ o.rows \cap e.rows = {}
      /\ \A k \in 1 .. job[d].rows : k \in job[d].buf \/ \E o \in Mine(d) : k \in o.rows
      /\ \A k \in 0 .. (n - 1) : \E o \in Mine(d) : o.id = k
  BY DEF LocalProgress
<1> HIDE DEF p, n, i
<1>10. QED
  BY <1>3, <1>6, <1>8, <1>9 DEF LocalProgress, p, n, i

\* A driver's own step keeps it on course.
LEMMA LocalUnderwayStep ==
  ASSUME ControlInv, Sink = "local", NEW d \in Drivers, Driver(d), LocalUnderway(d),
         \A p \in todo : Untouched(p)
  PROVE  LocalUnderway(d)'
<1> USE DEF ghost, index, ControlInv
<1>0. /\ job[d] \in Job /\ pc[d] \in Place /\ job[d].part \in Partition /\ run' = run
      /\ pc[d] \notin {"list", "prune"}
  BY DriverShape DEF TypeOK, Job, SinkInv
<1>1. CASE CheckCancel(d) \/ QueueEmpty(d) \/ RaiseCancel(d) \/ LocalFinalized(d)
           \/ PutFails(d) \/ FinalizeFails(d)
  <2>1. pc'[d] \notin {"walk", "publish"}
    BY <1>0, <1>1 DEF CheckCancel, QueueEmpty, RaiseCancel, LocalFinalized, PutFails,
                      FinalizeFails, Fold, Goto, TypeOK
  <2>2. QED
    BY <2>1 DEF LocalUnderway
<1>2. CASE TakePartition(d)
  <2>1. PICK p \in todo : job'[d] = NewJob(p)
    BY <1>2 DEF TakePartition, TypeOK
  <2>2. pc'[d] = "walk" /\ UNCHANGED <<final, partial, walked>> /\ Untouched(p) /\ p \in Partition
    BY <1>0, <1>2 DEF TakePartition, Goto, TypeOK
  <2>3. Mine(d)' = {}
    <3>1. \A c \in final'[p] \cup partial'[p] : c.id \in Nat
      BY <2>2 DEF TypeOK, Chunk
    <3>2. \A c \in final'[p] \cup partial'[p] : ~(c.id < 0)
      BY <3>1
    <3>3. QED
      BY <2>1, <3>2 DEF Mine, NewJob
  <2>4. \A c \in final'[p] : 0 <= c.id /\ c.run # run'
    BY <1>0, <2>2 DEF TypeOK, Chunk, Untouched
  <2>5. LocalProgress(d)'
    BY <2>1, <2>2, <2>3, <2>4 DEF LocalProgress, NewJob, Untouched
  <2>6. QED
    BY <2>1, <2>2, <2>5 DEF LocalUnderway, NewJob
<1>3. CASE WalkVanished(d) \/ WalkHardError(d)
  <2>1. pc[d] = "walk" /\ pc' = pc /\ UNCHANGED <<final, partial, walked>>
    BY <1>3 DEF WalkVanished, WalkHardError, MoreEntries
  <2>2. /\ job'[d].part = job[d].part /\ job'[d].rows = job[d].rows
        /\ job'[d].buf = job[d].buf /\ job'[d].next = job[d].next
        /\ job'[d].cursor = job[d].cursor
    BY <1>0, <1>3 DEF WalkVanished, WalkHardError, TypeOK, Job
  <2>3. QED
    BY <1>0, <2>1, <2>2 DEF LocalUnderway, LocalProgress, Mine
<1>4. CASE BufferRow(d)
  <2>1. pc[d] = "walk" /\ pc' = pc /\ UNCHANGED <<final, partial>>
    BY <1>4 DEF BufferRow, MoreEntries
  <2>2. /\ job'[d].part = job[d].part /\ job'[d].rows = job[d].rows + 1
        /\ job'[d].buf = job[d].buf \cup {job[d].rows + 1} /\ job'[d].next = job[d].next
        /\ job'[d].cursor = job[d].cursor
    BY <1>0, <1>4 DEF BufferRow, Appended, TypeOK, Job
  <2>3. walked'[job[d].part] = walked[job[d].part] + 1
    BY <1>0, <1>4 DEF BufferRow, TypeOK
  <2>4. LocalProgress(d) /\ job[d].rows \in Nat
    BY <1>0, <2>1 DEF LocalUnderway, Job
  <2>5. Mine(d)' = Mine(d)
    BY <2>1, <2>2 DEF Mine
  <2>6. LocalProgress(d)'
    BY <1>0, <2>1, <2>2, <2>3, <2>4, <2>5 DEF LocalProgress
  <2>7. QED
    BY <2>1, <2>2, <2>6 DEF LocalUnderway
<1>5. CASE FlushRow(d)
  <2>1. pc[d] = "walk" /\ pc' = pc /\ LocalProgress(d) /\ job[d].cursor = 0
    BY <1>5 DEF FlushRow, MoreEntries, LocalUnderway
  <2>2. /\ partial' = [partial EXCEPT ![job[d].part] = Replace(@, NextChunk(d, Appended(d)))]
        /\ final' = final
    BY <1>5 DEF FlushRow, Put
  <2>3. /\ job'[d].part = job[d].part /\ job'[d].rows = job[d].rows + 1
        /\ job'[d].buf = {} /\ job'[d].next = job[d].next + 1 /\ job'[d].cursor = 0
    BY <1>0, <1>5, <2>1 DEF FlushRow, TypeOK, Job
  <2>4. walked'[job[d].part] = job'[d].rows
    BY <1>0, <1>5, <2>1, <2>3 DEF FlushRow, LocalProgress, TypeOK
  <2>5. LocalProgress(d)'
    BY <1>0, <2>1, <2>2, <2>3, <2>4, LocalPut
  <2>6. QED
    BY <2>1, <2>3, <2>5 DEF LocalUnderway
<1>6. CASE FlushTail(d)
  <2>1. /\ pc[d] = "walk" /\ pc'[d] = "publish" /\ LocalProgress(d) /\ walked' = walked
        /\ job[d].cursor = 0
    BY <1>0, <1>6 DEF FlushTail, Goto, AfterWalk, LocalUnderway, TypeOK
  <2>2. /\ partial' = [partial EXCEPT ![job[d].part] = Replace(@, NextChunk(d, job[d].buf))]
        /\ final' = final
    BY <1>6 DEF FlushTail, Put
  <2>3. /\ job'[d].part = job[d].part /\ job'[d].rows = job[d].rows
        /\ job'[d].buf = {} /\ job'[d].next = job[d].next + 1 /\ job'[d].cursor = 0
    BY <1>0, <1>6, <2>1 DEF FlushTail, TypeOK, Job
  <2>4. walked'[job[d].part] = job'[d].rows
    BY <2>1, <2>3 DEF LocalProgress
  <2>5. LocalProgress(d)'
    BY <1>0, <2>1, <2>2, <2>3, <2>4, LocalPut
  <2>6. QED
    BY <2>1, <2>3, <2>5 DEF LocalUnderway
<1>7. CASE EndWalk(d)
  <2>1. /\ pc[d] = "walk" /\ pc'[d] = "publish" /\ job[d].buf = {}
        /\ UNCHANGED <<final, partial, walked, job>>
    BY <1>0, <1>7 DEF EndWalk, Goto, AfterWalk, TypeOK
  <2>2. QED
    BY <1>0, <2>1 DEF LocalUnderway, LocalProgress, Mine
<1>8. CASE Rename(d)
  <2>1. pc[d] = "publish" /\ pc' = pc /\ LocalProgress(d) /\ job'[d].buf = job[d].buf
        /\ job[d].buf = {}
    BY <1>0, <1>8 DEF Rename, LocalUnderway, TypeOK, Job
  <2>2. QED
    BY <1>0, <1>8, <2>1, LocalRename DEF LocalUnderway
<1>9. CASE PruneNext(d)
  <2>1. pc[d] = "publish" /\ pc' = pc /\ LocalProgress(d) /\ job'[d].buf = job[d].buf
        /\ job[d].buf = {}
    BY <1>0, <1>9 DEF PruneNext, LocalUnderway, TypeOK, Job
  <2>2. QED
    BY <1>0, <1>9, <2>1, LocalPrune DEF LocalUnderway
<1>10. QED
  BY <1>0, <1>1, <1>2, <1>3, <1>4, <1>5, <1>6, <1>7, <1>8, <1>9
    DEF Driver, ListChunks, DeleteNext, S3Finalized

\* As many chunks as numbers, when they are numbered one by one.
LEMMA NumberedChunks ==
  ASSUME NEW S, NEW n \in Nat, \A c \in S : c.id \in 0 .. (n - 1),
         \A c, e \in S : c # e => c.id # e.id,
         \A i \in 0 .. (n - 1) : \E c \in S : c.id = i
  PROVE  Cardinality(S) = n /\ Ids(S) = 0 .. (n - 1)
<1> DEFINE I == 0 .. (n - 1)
           f == [i \in I |-> CHOOSE c \in S : c.id = i]
<1>1. \A i \in I : f[i] \in S /\ f[i].id = i
  OBVIOUS
<1>2. ExistsBijection(I, S)
  <2>1. f \in [I -> S]
    BY <1>1
  <2>2. \A i, j \in I : f[i] = f[j] => i = j
    BY <1>1
  <2>3. \A c \in S : f[c.id] = c
    BY <1>1
  <2> HIDE DEF f
  <2>4. f \in Bijection(I, S)
    BY <2>1, <2>2, <2>3 DEF Bijection, Injection, Surjection, IsInjective
  <2>5. QED
    BY <2>4 DEF ExistsBijection
<1>3. IsFiniteSet(I) /\ Cardinality(I) = n
  BY FS_Interval
<1>4. Cardinality(S) = n
  BY <1>2, <1>3, FS_Bijection
<1>5. Ids(S) = I
  BY DEF Ids
<1>6. QED
  BY <1>4, <1>5

\* A driver finishes its partition only when the renames are through and the prune
\* has come to a gap.
LEMMA FinishedIsPresent ==
  ASSUME ControlInv, NEW d \in Drivers, LocalUnderway(d), LocalFinalized(d)
  PROVE  Present(job[d].part, run, walked[job[d].part])
<1> DEFINE p == job[d].part
           n == job[d].next
           k == job[d].cursor
           M == Mine(d)
           R == {c \in final[p] : c.run = run}
<1>0. /\ p \in Partition /\ n \in Nat /\ k \in Nat /\ n <= k /\ job[d].rows \in Nat
      /\ \A c \in final[p] \cup partial[p] : c.id \in Nat /\ c.rows \subseteq Nat
  BY DEF LocalFinalized, ControlInv, TypeOK, Job, Chunk
<1>1. LocalProgress(d) /\ job[d].buf = {} /\ k \notin Ids(final[p])
  BY DEF LocalFinalized, LocalUnderway
<1>2. M = {c \in final[p] : c.id < n}
  BY <1>0 DEF Mine
<1>3. R = M
  <2>1. \A c \in M : c.run = run
    BY <1>1 DEF LocalProgress
  <2>2. \A c \in final[p] : c.run = run => c.id < n
    BY <1>1 DEF LocalProgress
  <2>3. QED
    BY <1>2, <2>1, <2>2
<1>4. Cardinality(R) = n /\ Ids(R) = 0 .. (n - 1)
  <2>1. \A c \in M : c.id \in 0 .. (n - 1)
    BY <1>0, <1>2
  <2>2. /\ \A c, e \in M : c # e => c.id # e.id
        /\ \A i \in 0 .. (n - 1) : \E c \in M : c.id = i
    BY <1>1 DEF LocalProgress
  <2> HIDE DEF M, n
  <2>3. n \in Nat
    BY <1>0
  <2>4. Cardinality(M) = n /\ Ids(M) = 0 .. (n - 1)
    BY <2>1, <2>2, <2>3, NumberedChunks
  <2>5. QED
    BY <1>3, <2>4
<1>5. \A c \in R : c.whole /\ \A e \in R : c # e => c.rows \cap e.rows = {}
  BY <1>1, <1>3 DEF LocalProgress
<1>6. UNION {c.rows : c \in R} = 1 .. walked[p]
  <2>1. /\ \A c \in M : c.rows \subseteq 1 .. walked[p]
        /\ \A i \in 1 .. walked[p] : \E c \in M : i \in c.rows
    BY <1>1 DEF LocalProgress
  <2>2. QED
    BY <1>3, <2>1
<1>7. \A c \in final[p] \ R : c.id > n
  <2>1. \A c \in final[p] : c.id # k /\ (c.id < n \/ k <= c.id)
    BY <1>1 DEF LocalProgress, Ids
  <2>2. QED
    BY <1>0, <1>2, <1>3, <2>1
<1>8. QED
  BY <1>4, <1>5, <1>6, <1>7 DEF Present

-----------------------------------------------------------------------------
(* The run *)

LEMMA LocalSettledStep ==
  ASSUME ControlInv, Sink = "local", LocalDriveInv, NEW d \in Drivers, Driver(d),
         phase = "drive", NEW p \in Partition, Settled(p)'
  PROVE  Present(p, run, walked[p])'
<1>0. /\ UNCHANGED <<run, queued>> /\ pc[d] # "failed"
      /\ \A e \in Drivers \ {d} : pc'[e] = pc[e] /\ job'[e] = job[e]
  BY DriverShape DEF ControlInv
<1>1. CASE Settled(p)
  <2>1. final'[p] = final[p] /\ walked'[p] = walked[p]
    BY <1>1, LocalFrame DEF Settled, Claims
  <2>2. QED
    BY <1>0, <1>1, <2>1 DEF LocalDriveInv, Present
<1>2. CASE ~Settled(p)
  <2>1. ~TakePartition(d)
    <3> SUFFICES ASSUME TakePartition(d) PROVE FALSE
      OBVIOUS
    <3>1. PICK q \in todo : todo' = todo \ {q} /\ job' = [job EXCEPT ![d] = NewJob(q)]
      BY DEF TakePartition
    <3>2. job'[d].part = q /\ Claims(d)' /\ ~Claims(d)
      BY <3>1 DEF TakePartition, Goto, NewJob, Claims, Busy, ControlInv, TypeOK
    <3>3. p # q
      BY <3>2 DEF Settled
    <3>4. \A e \in Drivers : Claims(e) => Claims(e)' /\ job'[e] = job[e]
      BY <1>0, <3>2 DEF Claims, Busy
    <3>5. QED
      BY <1>0, <1>2, <3>1, <3>3, <3>4 DEF Settled
  <2>2. todo' = todo /\ job'[d].part = job[d].part
    BY <2>1, DriverShape DEF ControlInv
  <2>3. job[d].part = p /\ Claims(d) /\ ~Claims(d)'
    BY <1>0, <1>2, <2>2 DEF Settled, Claims, Busy
  <2>4. LocalFinalized(d)
    BY <2>1, <2>3
      DEF Driver, CheckCancel, QueueEmpty, WalkVanished, WalkHardError, BufferRow, FlushRow,
          EndWalk, FlushTail, PutFails, Rename, PruneNext, S3Finalized, ListChunks,
          DeleteNext, FinalizeFails, RaiseCancel, Goto, MoreEntries, AfterWalk, Claims, Busy,
          ControlInv, SinkInv, TypeOK
  <2>5. UNCHANGED <<final, walked>>
    BY <2>4 DEF LocalFinalized, Fold, index, ghost
  <2>6. Present(p, run, walked[p])
    BY <2>3, <2>4, FinishedIsPresent DEF LocalDriveInv
  <2>7. QED
    BY <1>0, <2>5, <2>6 DEF Present
<1>3. QED
  BY <1>1, <1>2

LEMMA LocalDriveStep ==
  ASSUME ControlInv, Sink = "local", phase = "drive", LocalDriveInv, NEW d \in Drivers, Driver(d)
  PROVE  LocalDriveInv'
<1>0. /\ UNCHANGED run
      /\ \A e \in Drivers \ {d} : pc'[e] = pc[e] /\ job'[e] = job[e]
      /\ job[d].part \in Partition
  BY DriverShape DEF ControlInv, TypeOK, Job
<1>1. ASSUME NEW e \in Drivers PROVE LocalUnderway(e)'
  <2>1. CASE e = d
    BY <2>1, LocalUnderwayStep DEF LocalDriveInv
  <2>2. CASE e # d
    <3>1. Busy(e) => /\ final'[job[e].part] = final[job[e].part]
                     /\ partial'[job[e].part] = partial[job[e].part]
                     /\ walked'[job[e].part] = walked[job[e].part]
      <4> SUFFICES ASSUME Busy(e)
                   PROVE  /\ final'[job[e].part] = final[job[e].part]
                          /\ partial'[job[e].part] = partial[job[e].part]
                          /\ walked'[job[e].part] = walked[job[e].part]
        OBVIOUS
      <4>1. Busy(d) => job[e].part # job[d].part
        BY <2>2 DEF ControlInv, ClaimInv
      <4>2. job[e].part \in Partition
        BY DEF ControlInv, TypeOK, Job
      <4>3. QED
        BY <4>1, <4>2, LocalFrame
    <3>2. QED
      BY <1>0, <2>2, <3>1, LocalKept DEF LocalDriveInv
  <2>3. QED
    BY <2>1, <2>2
<1>2. ASSUME NEW p \in todo' PROVE Untouched(p)'
  <2>1. p \in todo /\ p \in Partition
    BY <1>2, DriverShape DEF ControlInv, TypeOK, TakePartition
  <2>2. Busy(d) => p # job[d].part
    BY <2>1 DEF ControlInv, ClaimInv
  <2>3. final'[p] = final[p] /\ walked'[p] = walked[p]
    BY <2>1, <2>2, LocalFrame
  <2>4. QED
    BY <1>0, <2>1, <2>3 DEF LocalDriveInv, Untouched
<1>3. \A p \in Partition : Settled(p)' => Present(p, run, walked[p])'
  BY LocalSettledStep
<1>4. QED
  BY <1>1, <1>2, <1>3 DEF LocalDriveInv

\* Drivers rename only what their run wrote.
LEMMA NoneNewer ==
  ASSUME ControlInv, Sink = "local", phase = "drive", LocalDriveInv, NEW d \in Drivers, Driver(d),
         \A p \in Partition : \A c \in final[p] : c.run <= run
  PROVE  \A p \in Partition : \A c \in final'[p] : c.run <= run
<1>0. job[d].part \in Partition /\ run \in Nat
  BY DEF ControlInv, TypeOK, Job
<1>1. CASE final' = final
  BY <1>1
<1>2. CASE Rename(d)
  <2>1. PICK c \in partial[job[d].part] :
          /\ c.id = job[d].cursor
          /\ final' = [final EXCEPT ![job[d].part] = Replace(@, c)]
    BY <1>2 DEF Rename
  <2>2. c \in Mine(d) /\ LocalProgress(d)
    <3>1. c.id \in Nat /\ job[d].cursor \in Nat /\ pc[d] = "publish" /\ job[d].cursor < job[d].next
      BY <1>0, <1>2 DEF Rename, ControlInv, TypeOK, Job, Chunk
    <3>2. QED
      BY <2>1, <3>1 DEF Mine, LocalDriveInv, LocalUnderway
  <2>3. c.run = run
    BY <2>2 DEF LocalProgress
  <2>4. \A q \in Partition : final'[q] \subseteq final[q] \cup {c}
    BY <1>0, <2>1 DEF Replace, ControlInv, TypeOK
  <2>5. QED
    BY <1>0, <2>3, <2>4
<1>3. CASE PruneNext(d)
  <2>1. \A q \in Partition : final'[q] \subseteq final[q]
    BY <1>0, <1>3 DEF PruneNext, Without, ControlInv, TypeOK
  <2>2. QED
    BY <2>1
<1>4. QED
  BY <1>1, <1>2, <1>3, LocalFrame

LEMMA JoinedIsPresent ==
  ASSUME ControlInv, LocalDriveInv, Joined, Tolerable
  PROVE  \A p \in queued : Present(p, run, walked[p])
<1>1. \A d \in Drivers : pc[d] = "done"
  BY DEF Joined, Tolerable, AnyFailed
<1>2. todo = {}
  BY <1>1 DEF ControlInv, DrainInv, Joined
<1>3. \A p \in queued : Settled(p) /\ p \in Partition
  BY <1>1, <1>2 DEF Settled, Claims, Busy, ControlInv, TypeOK
<1>4. QED
  BY <1>3 DEF LocalDriveInv

LEMMA LocalStep == ControlInv /\ LocalInv /\ [Next]_vars => LocalInv'
<1> SUFFICES ASSUME ControlInv, LocalInv, [Next]_vars, Sink = "local"
             PROVE  /\ \A p \in Partition : \A c \in final'[p] : c.run <= run'
                    /\ phase' = "drive" => LocalDriveInv'
                    /\ AttestedPresent'
  BY DEF LocalInv
<1> DEFINE Old == \A p \in Partition : \A c \in final[p] : c.run <= run
<1>0. Old /\ (phase = "drive" => LocalDriveInv) /\ AttestedPresent /\ run \in Nat
      /\ \A p \in Partition : \A c \in final[p] : c.run \in Nat
  BY DEF LocalInv, ControlInv, TypeOK, Chunk
<1>a. ASSUME UNCHANGED <<final, partial, marker, phase, run, todo, pc, job, queued, walked>>
      PROVE  LocalInv'
  <2>1. phase' = "drive" => LocalDriveInv'
    <3> SUFFICES ASSUME LocalDriveInv, phase = "drive" PROVE LocalDriveInv'
      BY <1>0, <1>a
    <3>1. \A d \in Drivers : LocalUnderway(d)'
      BY <1>a, LocalKept DEF LocalDriveInv
    <3>2. \A p \in todo' : Untouched(p)'
      BY <1>a DEF LocalDriveInv, Untouched
    <3>3. \A p \in Partition : Settled(p)' => Settled(p)
      BY <1>a DEF Settled, Claims, Busy
    <3>4. \A p \in Partition : Present(p, run, walked[p]) => Present(p, run, walked[p])'
      BY <1>a DEF Present
    <3>5. QED
      BY <3>1, <3>2, <3>3, <3>4 DEF LocalDriveInv
  <2>2. AttestedPresent'
    BY <1>0, <1>a DEF AttestedPresent, Attested, Present
  <2>3. QED
    BY <1>0, <1>a, <2>1, <2>2 DEF LocalInv
<1>b. ASSUME UNCHANGED <<final, marker, run, queued, walked>>, phase' # "drive" PROVE LocalInv'
  BY <1>0, <1>b DEF LocalInv, AttestedPresent, Attested, Present
<1>c. ASSUME final' = final, run' = run, phase' # "drive", marker'.state # "ok" PROVE LocalInv'
  BY <1>0, <1>c DEF LocalInv, AttestedPresent, Attested
<1>1. CASE UNCHANGED vars
  <2>1. UNCHANGED <<final, partial, marker, phase, run, todo, pc, job, queued, walked>>
    BY <1>1 DEF vars
  <2>2. QED
    BY <1>a, <2>1 DEF LocalInv
<1>2. CASE BeginRun
  <2>1. ASSUME NEW present, NEW scope, NEW tolerant, AcceptRun(present, scope, tolerant)
        PROVE  phase' # "drive" /\ UNCHANGED <<final, marker, run, queued, walked>>
    BY <2>1 DEF AcceptRun
  <2>2. ASSUME NEW present, NEW scope, RefuseRun(present, scope)
        PROVE  UNCHANGED <<final, partial, marker, phase, run, todo, pc, job, queued, walked>>
    BY <2>2 DEF RefuseRun, vars
  <2>3. LocalInv'
    BY <1>2, <1>a, <1>b, <2>1, <2>2 DEF BeginRun
  <2>4. QED
    BY <2>3 DEF LocalInv
<1>3. CASE ClearMarker
  <2>1. \A d \in Drivers : pc'[d] \in {"check", "done"}
    BY <1>3 DEF ClearMarker
  <2>2. /\ queued' = todo' /\ todo' = todo /\ todo \subseteq Partition /\ final' = final
        /\ walked' = [p \in Partition |-> 0] /\ marker' = NoMarker /\ run' = run + 1
    BY <1>3 DEF ClearMarker, Cleared, ControlInv, TypeOK
  <2>3. \A p \in Partition : \A c \in final'[p] : c.run <= run' /\ c.run # run'
    BY <1>0, <2>2
  <2>4. LocalDriveInv'
    <3>1. \A d \in Drivers : LocalUnderway(d)'
      BY <2>1 DEF LocalUnderway
    <3>2. \A p \in todo' : Untouched(p)'
      BY <2>2, <2>3 DEF Untouched
    <3>3. \A p \in Partition : ~Settled(p)'
      BY <2>2 DEF Settled
    <3>4. QED
      BY <3>1, <3>2, <3>3 DEF LocalDriveInv
  <2>5. AttestedPresent'
    BY <2>2 DEF AttestedPresent, Attested, NoMarker
  <2>6. QED
    BY <2>3, <2>4, <2>5
<1>4. CASE ClearFails
  <2>1. LocalInv'
    BY <1>4, <1>b, <1>c DEF ClearFails, Halt, ghost, NoMarker
  <2>2. QED
    BY <2>1 DEF LocalInv
<1>5. CASE RunFails
  <2>1. LocalInv'
    BY <1>5, <1>c DEF RunFails, Joined, Halt, index, ControlInv, PhaseInv
  <2>2. QED
    BY <2>1 DEF LocalInv
<1>6. CASE Attest \/ AttestFails
  <2>1. /\ Joined /\ Tolerable /\ Halt /\ UNCHANGED <<final, queued, walked>> /\ run' = run
        /\ phase' # "drive" /\ marker' \in {MarkerOf(run, errs), NoMarker, Torn}
    BY <1>6 DEF Attest, AttestFails, Halt, ghost
  <2>2. \A p \in queued : Present(p, run, walked[p])
    BY <1>0, <2>1, JoinedIsPresent DEF Joined
  <2>3. AttestedPresent'
    <3> SUFFICES ASSUME Attested', NEW p \in queued PROVE Present(p, marker.run, walked[p])'
      BY <2>1 DEF AttestedPresent
    <3>1. marker'.run = run
      BY <2>1 DEF Attested, MarkerOf, NoMarker, Torn
    <3>2. Present(p, run, walked[p])
      BY <2>2
    <3>3. QED
      BY <2>1, <3>1, <3>2 DEF Present
  <2>4. QED
    BY <1>0, <2>1, <2>3
<1>7. ASSUME NEW d \in Drivers, Driver(d)
      PROVE  /\ \A p \in Partition : \A c \in final'[p] : c.run <= run'
             /\ phase' = "drive" => LocalDriveInv'
             /\ AttestedPresent'
  <2>1. phase = "drive" /\ marker' = marker /\ marker.state = "none" /\ run' = run
    BY <1>7, DriverShape DEF ControlInv, PhaseInv
  <2>2. LocalDriveInv'
    BY <1>0, <1>7, <2>1, LocalDriveStep
  <2>3. \A p \in Partition : \A c \in final'[p] : c.run <= run
    BY <1>0, <1>7, <2>1, NoneNewer
  <2>4. QED
    BY <2>1, <2>2, <2>3 DEF AttestedPresent, Attested
<1>8. CASE Crash
  <2>1. LocalInv'
    <3>1. CASE phase = "drive"
      BY <1>8, <1>c, <3>1 DEF Crash, Halt, index, ControlInv, PhaseInv
    <3>2. CASE phase # "drive"
      BY <1>8, <1>b, <3>2 DEF Crash, Halt, index, ghost
    <3>3. QED
      BY <3>1, <3>2
  <2>2. QED
    BY <2>1 DEF LocalInv
<1>9. QED
  BY <1>1, <1>2, <1>3, <1>4, <1>5, <1>6, <1>7, <1>8 DEF Next, Main

LEMMA LocalInit == Init => LocalInv
<1> SUFFICES ASSUME Init PROVE LocalInv
  OBVIOUS
<1>1. \A p \in Partition : \A c \in final[p] : c.run <= run
  BY DEF Init, OldChunk
<1>2. QED
  BY <1>1 DEF Init, LocalInv, AttestedPresent, Attested, NoMarker, MarkerOf

\* An attested local index holds, in every partition the attesting run queued, that
\* run's walk complete and once, in chunks numbered without a gap, and whatever
\* stale chunk is left lies beyond a gap: for any number of drivers, whatever
\* earlier runs left behind, whichever calls failed and wherever they died.
THEOREM LocalAttestedPresent == ASSUME Sink = "local" PROVE Spec => []AttestedPresent
<1>1. LocalInv => AttestedPresent
  BY DEF LocalInv
<1>2. QED
  BY <1>1, LocalInit, LocalStep, ControlCorrect, PTL DEF Spec

-----------------------------------------------------------------------------

\* Everything the runs check as the crawl's inductive invariant, for either sink
\* and every number of drivers, partitions, entries and runs.
THEOREM CrawlCorrect == Spec => []CrawlInv
<1>1. Init => WholeInv
  <2> SUFFICES ASSUME Init PROVE WholeInv
    OBVIOUS
  <2>1. /\ \A p \in Partition : \A c \in final[p] : c.whole
        /\ \A d \in Drivers : ~Busy(d)
    BY DEF Init, OldChunk, Busy
  <2>2. QED
    BY <2>1 DEF WholeInv, PartialWhole
<1>2. QED
  BY <1>1, WholeStep, S3Init, S3Step, LocalInit, LocalStep, ControlCorrect,
     LateCorrect, ErrorsCorrect, PTL DEF Spec, CrawlInv
=============================================================================
