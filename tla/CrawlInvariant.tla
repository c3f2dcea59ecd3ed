--------------------------- MODULE CrawlInvariant ---------------------------
(***************************************************************************)
(* The inductive invariants behind the theorems about the crawl.           *)
(***************************************************************************)
EXTENDS Crawl

\* A driver on a partition it may still finish.
Busy(d) == pc[d] \in {"walk", "publish", "list", "prune"}

\* A driver with a partition that is not finished, given up on or not.
Claims(d) == Busy(d) \/ pc[d] \in {"failing", "failed"}

-----------------------------------------------------------------------------
(* Control: who may write, and when.                                        *)

\* Outside a run no driver exists and the flag is down; between runs nothing is
\* queued; a run that is accepted
\* has work; while the drivers run there is no marker.
PhaseInv ==
  /\ phase # "drive" => ~cancel /\ \A d \in Drivers : pc[d] = "idle"
  /\ phase = "drive" => marker.state = "none" /\ \A d \in Drivers : pc[d] # "idle"
  /\ phase = "stopped" => todo = {}
  /\ phase = "clear" => todo # {}
  /\ marker.state # "none" => marker.run <= run

\* A partition is queued or on one driver, never both and never on two.
ClaimInv ==
  phase = "drive" =>
    /\ todo \subseteq queued /\ queued # {}
    /\ \A d \in Drivers : Busy(d) => job[d].part \in queued \ todo
    /\ \A d, e \in Drivers : Busy(d) /\ Busy(e) /\ d # e => job[d].part # job[e].part

\* Drivers stop with partitions left in the queue only after one has failed.
DrainInv ==
  phase = "drive" =>
    /\ cancel => AnyFailed
    /\ todo # {} => \E d \in Drivers : pc[d] # "done"

\* A driver finalizes the way its sink does.
SinkInv ==
  \A d \in Drivers :
    /\ pc[d] = "publish" => Sink = "local"
    /\ pc[d] \in {"list", "prune"} => Sink = "s3"

ControlInv == TypeOK /\ PhaseInv /\ ClaimInv /\ DrainInv /\ SinkInv

-----------------------------------------------------------------------------
(* Local: only whole files are renamed into place.                          *)

\* What this run has written so far under the .partial names of d's partition
\* is whole, whatever torn file an earlier run left beyond it.
PartialWhole(d) ==
  Sink = "local" /\ Busy(d) =>
    \A c \in partial[job[d].part] : c.id < job[d].next => c.whole

WholeInv ==
  /\ \A p \in Partition : \A c \in final[p] : c.whole
  /\ \A d \in Drivers : PartialWhole(d)

-----------------------------------------------------------------------------
(* S3: a partition on its way to holding exactly its rows.                  *)

\* The chunks this run has put under p once it has put n of them.
Stored(p, n) == {c \in final[p] : c.id < n}

\* The rows walked so far are in the chunks put so far, once, or in the buffer.
Progress(d) ==
  LET p == job[d].part
      mine == Stored(p, job[d].next)
  IN  /\ walked[p] = job[d].rows
      /\ job[d].buf \subseteq 1 .. job[d].rows
      /\ \A c \in mine : c.run = run /\ c.whole /\ c.rows \subseteq (1 .. job[d].rows) \ job[d].buf
      /\ \A i \in 1 .. job[d].rows : i \in job[d].buf \/ \E c \in mine : i \in c.rows
      /\ \A c, e \in mine : c # e => c.rows \cap e.rows = {}

\* What the listing found stale is all there is beyond the run's own chunks.
Listed(d) ==
  /\ \A i \in job[d].stale : i >= job[d].next
  /\ \A c \in final[job[d].part] : c.id < job[d].next \/ c.id \in job[d].stale

\* A queued partition nobody has yet to finish.
Settled(p) == p \in queued \ todo /\ \A d \in Drivers : Claims(d) => job[d].part # p

\* A driver on its way through an S3 partition.
Underway(d) ==
  /\ pc[d] \in {"walk", "list", "prune"} => Progress(d)
  /\ pc[d] \in {"list", "prune"} => job[d].buf = {}
  /\ pc[d] = "prune" => Listed(d)

DriveInv ==
  /\ \A d \in Drivers : Underway(d)
  /\ \A p \in todo : walked[p] = 0
  /\ \A p \in Partition : Settled(p) => Exactly(p, run, walked[p])

S3Inv ==
  Sink = "s3" => (phase = "drive" => DriveInv) /\ AttestedExact

-----------------------------------------------------------------------------
(* Local: a partition on its way from .partial names to final ones.         *)

\* The chunks of this run's walk of d's partition, renamed or yet to be.
Mine(d) ==
  LET j == job[d]
  IN  {c \in final[j.part] : c.id < j.cursor /\ c.id < j.next}
        \cup {c \in partial[j.part] : j.cursor <= c.id /\ c.id < j.next}

\* They are numbered from 0 without a gap and hold the rows walked so far, once,
\* but for those in the buffer; nothing else in the partition is of this run or
\* among the numbers pruned so far.
LocalProgress(d) ==
  LET j == job[d]
  IN  /\ walked[j.part] = j.rows
      /\ j.buf \subseteq 1 .. j.rows
      /\ \A c \in Mine(d) : c.run = run /\ c.whole /\ c.rows \subseteq (1 .. j.rows) \ j.buf
      /\ \A c, e \in Mine(d) : c # e => c.id # e.id /\ c.rows \cap e.rows = {}
      /\ \A i \in 1 .. j.rows : i \in j.buf \/ \E c \in Mine(d) : i \in c.rows
      /\ \A i \in 0 .. (j.next - 1) : \E c \in Mine(d) : c.id = i
      /\ \A c \in final[j.part] : c.run = run => c.id < j.cursor /\ c.id < j.next
      /\ \A c \in final[j.part] : c.id < j.next \/ j.cursor <= c.id

LocalUnderway(d) ==
  /\ pc[d] \in {"walk", "publish"} => LocalProgress(d)
  /\ pc[d] = "walk" => job[d].cursor = 0
  /\ pc[d] = "publish" => job[d].buf = {}

\* A run has not touched what is still queued.
Untouched(p) == walked[p] = 0 /\ \A c \in final[p] : c.run # run

LocalDriveInv ==
  /\ \A d \in Drivers : LocalUnderway(d)
  /\ \A p \in todo : Untouched(p)
  /\ \A p \in Partition : Settled(p) => Present(p, run, walked[p])

LocalInv ==
  Sink = "local" => /\ \A p \in Partition : \A c \in final[p] : c.run <= run
                    /\ phase = "drive" => LocalDriveInv
                    /\ AttestedPresent

-----------------------------------------------------------------------------
(* Tallies.                                                                 *)

\* Drivers past the check of the flag, with nothing taken yet.
Taking == {d \in Drivers : pc[d] = "take"}

\* Once the flag is up, what has been taken late and what still may be leave out the
\* driver that raised it.
LateInv == IF cancel THEN late + Cardinality(Taking) < Cardinality(Drivers) ELSE late = 0

\* The hard errors of partitions that are not finished, numbered on each driver.
Unfolded == UNION {{d} \X (1 .. job[d].errs) : d \in {e \in Drivers : Busy(e)}}

\* While no driver has failed, an error is in the run's tally or on a driver.
ErrorsInv ==
  /\ IsFiniteSet(Unfolded)
  /\ phase # "drive" => errs = 0
  /\ phase = "drive" /\ (\A d \in Drivers : pc[d] \notin {"failing", "failed"})
       => hard = errs + Cardinality(Unfolded)
  /\ MarkerCountsEveryError

CrawlInv == ControlInv /\ WholeInv /\ S3Inv /\ LocalInv /\ LateInv /\ ErrorsInv
=============================================================================
