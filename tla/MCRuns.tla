--------------------------------- MODULE MCRuns ---------------------------------
\* How a run ends, for TLC, one part at a time: the drivers that drain the queue, with
\* writes that fail (Crawl), and the requests of a run into S3 (Requests).  What is not
\* looked at stands still.
EXTENDS Crawl, Requests

VARIABLE scene   \* what is looked at

-----------------------------------------------------------------------------
CrawlRests ==
  /\ final = "" /\ partial = "" /\ marker = NoMarker /\ phase = "stopped" /\ run = 0
  /\ allow = FALSE /\ todo = {} /\ cancel = FALSE /\ errs = 0 /\ pc = "" /\ job = ""
  /\ queued = {} /\ walked = "" /\ hard = 0 /\ late = 0

RequestsRest ==
  /\ chunks = "" /\ mark = 0 /\ current = 0 /\ size = "" /\ asks = "idle" /\ next = 0
  /\ stale = {} /\ waiting = None /\ try = 0 /\ loose = {}

RunsInit ==
  \/ scene = "drivers"  /\ Init /\ RequestsRest
  \/ scene = "requests" /\ RequestsInit /\ CrawlRests

\* After the last run nothing need happen.
RequestsEnd == asks \in Ended /\ current = MaxCrawls /\ UNCHANGED requestVars

RunsNext ==
  /\ UNCHANGED scene
  /\ \/ scene = "drivers"  /\ Next /\ UNCHANGED requestVars
     \/ scene = "requests" /\ (RequestsNext \/ RequestsEnd) /\ UNCHANGED vars

\* What Crawl and Requests assume of threads and of the client.
Fairness ==
  /\ WF_vars(scene = "drivers" /\ Main)
  /\ \A d \in Drivers : WF_vars(scene = "drivers" /\ Driver(d))
  /\ WF_requestVars(scene = "requests" /\ Run)

RunsSpec == RunsInit /\ [][RunsNext]_<<scene, vars, requestVars>> /\ Fairness

-----------------------------------------------------------------------------
\* CancelStopsTheQueue and EveryRunEnds are those of Crawl, WholeWhenMarked and RunEnds
\* those of Requests.
===============================================================================
