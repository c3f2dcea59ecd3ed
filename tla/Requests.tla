-------------------------------- MODULE Requests --------------------------------
(***************************************************************************)
(* The requests of an S3 crawl, one at a time, as the client sends them:   *)
(* each is retried a few times, given up at its timeout, and may take      *)
(* effect at the store after the client has turned away from it, or after  *)
(* the run is over.  One partition, one run after the other.               *)
(***************************************************************************)
EXTENDS Integers, FiniteSets

CONSTANTS
  MaxCrawls,    \* bound: runs of xdu, one after the other
  MaxChunks,    \* bound: chunks of a run
  MaxRetries,   \* retry_config: retries of a failed request
  Settled       \* whether a run starts only when no request is under way any more

ASSUME BoundsAssumption ==
  MaxCrawls \in Nat /\ MaxChunks \in Nat /\ MaxRetries \in Nat /\ Settled \in BOOLEAN

VARIABLES
  chunks,    \* the store: for a chunk id, the run whose chunk it holds, or 0
  mark,      \* the run that the completion marker is of, or 0
  current,   \* the run under way, or the last one
  size,      \* for each run, its chunks
  asks,      \* what the run asks for
  next,      \* the next chunk
  stale,     \* the ids that LIST gave, to be deleted
  waiting,   \* the attempt that the client waits for, or none
  try,       \* which attempt of its request it is
  loose      \* attempts that nobody waits for and that may yet take effect

store == <<chunks, mark>>
client == <<current, size, asks, next, stale>>
requestVars == <<chunks, mark, current, size, asks, next, stale, waiting, try, loose>>

ChunkIds  == 0 .. MaxChunks - 1
MarkerKey == -1   \* the key of the completion marker
None      == {}
Ended     == {"idle", "done", "failed"}
Asking    == {"clear", "put", "prune", "marker"}

Request ==
  [op : {"put", "delete"}, key : ChunkIds \cup {MarkerKey},
   run : 1 .. MaxCrawls, try : 0 .. MaxRetries]

\* The request of a step, by its key; stale chunks go in the order of their ids.
Asked ==
  CASE asks \in {"clear", "marker"} -> {MarkerKey}
    [] asks = "put"                 -> {next}
    [] asks = "prune"               -> {i \in stale : \A j \in stale : i <= j}

Attempt(key) ==
  [op |-> IF asks \in {"clear", "prune"} THEN "delete" ELSE "put", key |-> key,
   run |-> current, try |-> try]

\* What it does at the store: a PUT is all or nothing.
Effect(r) ==
  LET value == IF r.op = "put" THEN r.run ELSE 0
  IN IF r.key = MarkerKey THEN mark' = value /\ UNCHANGED chunks
     ELSE chunks' = [chunks EXCEPT ![r.key] = value] /\ UNCHANGED mark

-----------------------------------------------------------------------------
RequestsInit ==
  /\ chunks = [i \in ChunkIds |-> 0] /\ mark = 0
  /\ current = 0 /\ size = [r \in 1 .. MaxCrawls |-> 0]
  /\ asks = "idle" /\ next = 0 /\ stale = {}
  /\ waiting = None /\ try = 0 /\ loose = {}

\* xdu starts, and the listing of its preflight succeeds.
Start(n) ==
  /\ asks \in Ended
  /\ current < MaxCrawls
  /\ Settled => loose = {}
  /\ current' = current + 1
  /\ size' = [size EXCEPT ![current + 1] = n]
  /\ asks' = "clear" /\ next' = 0 /\ stale' = {}
  /\ waiting' = None /\ try' = 0
  /\ UNCHANGED <<store, loose>>

\* A request goes out, or again.
Send ==
  /\ asks \in Asking
  /\ waiting = None
  /\ \E key \in Asked : waiting' = {Attempt(key)}
  /\ UNCHANGED <<store, client, try, loose>>

\* The step after the one whose request for key was answered.
Advance(key) ==
  /\ next' = IF asks = "put" THEN next + 1 ELSE next
  /\ stale' = IF asks = "prune" THEN stale \ {key} ELSE stale
  /\ asks' = CASE asks = "clear"  -> IF size[current] = 0 THEN "list" ELSE "put"
               [] asks = "put"    -> IF next + 1 = size[current] THEN "list" ELSE "put"
               [] asks = "prune"  -> IF stale' = {} THEN "marker" ELSE "prune"
               [] asks = "marker" -> "done"

\* The attempt takes effect and its answer arrives.
Answer ==
  /\ \E r \in waiting : Effect(r) /\ Advance(r.key)
  /\ waiting' = None /\ try' = 0
  /\ UNCHANGED <<current, size, loose>>

\* A slip: a listing of a few chunks is as good as empty.
List_Skipped ==
  /\ asks = "list"
  /\ stale' = {}
  /\ asks' = "marker"
  /\ UNCHANGED <<store, current, size, next, waiting, try, loose>>

\* finalize_partition lists the partition: every higher chunk is stale.
List ==
  /\ asks = "list"
  /\ stale' = {i \in ChunkIds : i >= size[current] /\ chunks[i] # 0}
  /\ asks' = IF stale' = {} THEN "marker" ELSE "prune"
  /\ UNCHANGED <<store, current, size, next, waiting, try, loose>>

\* A slip: a retry is not counted.
GiveUp_Never ==
  /\ waiting # None
  /\ loose' = loose \cup waiting
  /\ waiting' = None
  /\ UNCHANGED <<try, asks, store, current, size, next, stale>>

\* The connection breaks or the timeout runs out: the attempt is left to itself, and
\* tried again while retries and the time for them last, or else the run fails.
GiveUp ==
  /\ waiting # None
  /\ loose' = loose \cup waiting
  /\ waiting' = None
  /\ \/ try < MaxRetries /\ try' = try + 1 /\ UNCHANGED asks
     \/ asks' = "failed" /\ UNCHANGED try
  /\ UNCHANGED <<store, current, size, next, stale>>

\* The store refuses: no effect, and no retry.
Refuse ==
  /\ waiting # None
  /\ waiting' = None
  /\ asks' = "failed"
  /\ UNCHANGED <<store, current, size, next, stale, try, loose>>

\* The process is killed; the attempt it waited for is not.
Die ==
  /\ asks \notin Ended
  /\ asks' = "failed"
  /\ loose' = loose \cup waiting
  /\ waiting' = None
  /\ UNCHANGED <<store, current, size, next, stale, try>>

\* An attempt nobody waits for arrives after all, or never.
Land(r) == loose' = loose \ {r} /\ Effect(r) /\ UNCHANGED <<client, waiting, try>>
Vanish(r) == loose' = loose \ {r} /\ UNCHANGED <<store, client, waiting, try>>

Run == Send \/ Answer \/ List \/ GiveUp \/ Refuse

RequestsNext ==
  \/ \E n \in 0 .. MaxChunks : Start(n)
  \/ Run
  \/ Die
  \/ \E r \in loose : Land(r) \/ Vanish(r)

\* The client waits for an attempt no longer than its timeout.
RequestsSpec == RequestsInit /\ [][RequestsNext]_requestVars /\ WF_requestVars(Run)

-----------------------------------------------------------------------------
\* Exactly the chunks of run r.
Whole(r) == \A i \in ChunkIds : chunks[i] = IF i < size[r] THEN r ELSE 0

\* "until the marker is written, no reader accepts the index at all": when it is there,
\* every chunk is of the run that wrote it and none of that run's is missing, whatever
\* was retried, lost or late.
WholeWhenMarked ==
  mark # 0 => Whole(mark)

\* "A re-run leaves no stale chunk behind", as long as nothing else starts.
RerunIsClean ==
  asks = "done" => Whole(current)

\* "few and short, so an unreachable endpoint fails the run": every run comes to its end.
RunEnds == asks \notin Ended ~> asks \in Ended

-----------------------------------------------------------------------------
(* Why WholeWhenMarked holds once nothing of an earlier run is under way: the parts  *)
(* of an inductive invariant.                                                        *)

Sent == waiting \cup loose

RequestsTypeOK ==
  /\ chunks \in [ChunkIds -> 0 .. MaxCrawls]
  /\ mark \in 0 .. current
  /\ current \in 0 .. MaxCrawls
  /\ size \in [1 .. MaxCrawls -> 0 .. MaxChunks]
  /\ asks \in Ended \cup Asking \cup {"list"}
  /\ asks # "idle" => current # 0
  /\ next \in 0 .. MaxChunks
  /\ stale \subseteq ChunkIds
  /\ waiting \subseteq Request
  /\ try \in 0 .. MaxRetries
  /\ loose \subseteq Request

\* Whatever is under way is of this run, and no request of it undoes another's work.
SentFits ==
  \A r \in Sent :
    /\ r.run = current
    /\ r.key # MarkerKey => (r.op = "put" <=> r.key < size[current])
    /\ r.key = MarkerKey /\ r.op = "put" => Whole(current)

\* The attempt that is waited for is the step's.
WaitingFits ==
  \A r \in waiting :
    /\ asks \in Asking
    /\ r.op = IF asks \in {"clear", "prune"} THEN "delete" ELSE "put"
    /\ asks \in {"clear", "marker"} => r.key = MarkerKey
    /\ asks = "put" => r.key = next
    /\ asks = "prune" => r.key \in stale

\* How far the run's chunks are.
Progress ==
  /\ asks = "clear" => next = 0
  /\ asks = "put" => next < size[current] /\ \A i \in ChunkIds : i < next => chunks[i] = current
  /\ asks \in {"list", "prune"} => \A i \in ChunkIds : i < size[current] => chunks[i] = current
  /\ asks = "prune" =>
       /\ stale # {} /\ \A i \in stale : i >= size[current]
       /\ \A i \in ChunkIds : i >= size[current] /\ chunks[i] # 0 => i \in stale
  /\ asks \in {"marker", "done"} => Whole(current)

\* The marker of an earlier run is there only until this one has removed it; before
\* that, nothing else was asked for.
OldMarker ==
  mark \notin {0, current} =>
    /\ asks \in {"clear", "failed"}
    /\ \A r \in Sent : r.key = MarkerKey

RequestsInv ==
  /\ RequestsTypeOK /\ SentFits /\ WaitingFits /\ Progress /\ OldMarker
  /\ mark # 0 => Whole(mark)
===============================================================================
