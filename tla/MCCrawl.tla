------------------------------- MODULE MCCrawl -------------------------------
(* Crawl, instantiated for TLC. *)
EXTENDS CrawlInvariant, TLC

\* Drivers run the same closure over the same queue.
DriverSymmetry == Permutations(Drivers)

-----------------------------------------------------------------------------
\* A source tree whose top-level directories and loose files stay: what a run
\* leaves out of its queue is what --partition did not name.
TreeStays ==
  phase = "stopped" /\ phase' = "clear" =>
    \E scope \in Scopes : Accepts(Partition, scope) /\ todo' = WorkQueue(Partition, scope)

SteadySpec == Init /\ [][Next /\ TreeStays]_vars
=============================================================================
