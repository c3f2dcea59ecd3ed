------------------------------- MODULE MCCommands -------------------------------
\* The commands that read an index, for TLC, one of them at a time: the gates and
\* the scan that they share (Readers), what xdu-find prints (Find), and xdu-rm with
\* --safe and with --limit (Rm).  What is not looked at stands still.
EXTENDS Readers, Rm, Sequences

VARIABLES
  scene,   \* what is looked at
  format, out, printed, first, exit

xduFind == <<format, out, printed, first, exit>>

-----------------------------------------------------------------------------
Plain == [s3 |-> FALSE, min |-> None, max |-> None, older |-> None, newer |-> None,
          limit |-> None, safe |-> FALSE, force |-> TRUE]

\* A retention policy in safe mode, with a prompt; what is new but not large, without
\* one; and an S3 index.
SafeOptions ==
  {[Plain EXCEPT !.safe = TRUE, !.older = 1, !.force = FALSE],
   [Plain EXCEPT !.safe = TRUE, !.max = 1, !.newer = 1], [Plain EXCEPT !.s3 = TRUE]}

\* A limit on its own, and beside an age.
Limits == {[Plain EXCEPT !.limit = 1, !.older = n] : n \in {None, 1}}

\* The paths of up to three characters that the formats treat apart, and shorter
\* ones with a line break or a control character.
OneOf(chars, n) == UNION {[1 .. k -> chars] : k \in 1 .. n}
Printable == {"p", "n", ",", "dq", "bs"}
Paths == OneOf(Printable, 3) \cup OneOf(Printable \cup {"nl"}, 2) \cup {<<"ctl">>}

MCOptions == SafeOptions \cup Limits

XduFind == INSTANCE MCFind WITH MaxRows <- 2

ASSUME BoundsOK == RmOK

-----------------------------------------------------------------------------
ReadersRest ==
  /\ store = "" /\ marker = NoMarker /\ holds = "" /\ crawls = 0 /\ todo = {} /\ lost = 0
  /\ crawling = FALSE /\ claimed = {} /\ prog = "" /\ transport = "" /\ pc = "" /\ read = NoMarker
  /\ said = "" /\ scan = [p \in Partitions |-> ""] /\ races = FALSE

RmRests ==
  /\ rows = "" /\ disk = "" /\ now = 0 /\ changes = 0 /\ opts = "" /\ run = 0 /\ dry = FALSE
  /\ phase = "" /\ asof = None /\ files = {} /\ since = None /\ step = [f \in File |-> ""]
  /\ preview = None /\ shown = None /\ touched = {}

FindRests == format = "" /\ out = <<>> /\ printed = <<>> /\ first = FALSE /\ exit = ""

MCInit ==
  \/ scene = "readers" /\ Init /\ RmRests /\ FindRests
  \/ scene = "rm"      /\ RmInit /\ ReadersRest /\ FindRests
  \/ scene = "find"    /\ XduFind!Init /\ ReadersRest /\ RmRests

MCNext ==
  /\ UNCHANGED scene
  /\ \/ scene = "readers" /\ Next /\ UNCHANGED <<rmVars, xduFind>>
     \/ scene = "rm"      /\ RmNext /\ UNCHANGED <<vars, xduFind>>
     \/ scene = "find"    /\ XduFind!Next /\ UNCHANGED <<vars, rmVars>>

MCSpec == MCInit /\ [][MCNext]_<<scene, vars, rmVars, xduFind>>

-----------------------------------------------------------------------------
\* SilenceMeansComplete and UnattestedIsRefused are those of Readers, PreviewUpToAge,
\* PreviewIsExact and SafeKeepsChangedFiles those of Rm.

\* MCFind's: the CSV and the JSON of a run that succeeds hold the paths of its rows,
\* and JSON that is cut short is never a whole array.
OutputReadsBack == XduFind!CsvReadsBack /\ XduFind!JsonReadsBack
===============================================================================
