---------------------------------- MODULE Rm ----------------------------------
(***************************************************************************)
(* xdu-rm, run once or more over an index nobody rebuilds, while others    *)
(* use, grow, replace and remove the files it names.                       *)
(*                                                                         *)
(* A run refuses an S3 index, passes the marker gates (Readers), selects   *)
(* rows, prints them or asks, and hands the files to `jobs` workers, which *)
(* stat each again in safe mode and unlink it.                             *)
(*                                                                         *)
(* Files are numbered in the order of their paths.  A file has the length  *)
(* stat reports and the disk usage xdu indexes by default; time counts     *)
(* seconds.                                                                *)
(***************************************************************************)
EXTENDS Integers, FiniteSets, FiniteSetsExt

CONSTANTS
  NFiles,    \* paths in the index
  Sizes,     \* bound: lengths and disk usages files have
  Day,       \* seconds in a day
  Start,     \* when the index was built
  Seconds,   \* bound: how many pass after that
  Jobs,      \* --jobs
  Options,   \* bound: command lines
  Changes,   \* bound: what others do to the files
  MaxRuns,   \* bound: runs of xdu-rm
  None

File == 1 .. NFiles
Time == 0 .. Start + Seconds

Option == [s3 : BOOLEAN, min : Sizes \cup {None}, max : Sizes \cup {None},
           older : Nat \cup {None}, newer : Nat \cup {None}, limit : Nat \cup {None},
           safe : BOOLEAN, force : BOOLEAN]

RmOK ==
  /\ {NFiles, Start, Seconds, Changes, MaxRuns} \subseteq Nat
  /\ {Jobs, Day} \subseteq Nat \ {0}
  /\ Sizes \subseteq Nat
  /\ Options \subseteq Option

VARIABLES
  rows,     \* file -> its indexed size and atime
  disk,     \* file -> what is there now
  now, changes,
  opts,     \* the command line, --dry-run aside
  run, dry, phase,
  asof,     \* when this run turned the options into conditions
  files,    \* the selection
  since,    \* the threshold of safe mode
  step,     \* file -> how far this run's worker is with it
  preview,  \* the selection of the latest dry run, and its asof
  shown,
  touched   \* files others changed after this run's stat of them
rmVars == <<rows, disk, now, changes, opts, run, dry, phase, asof, files, since, step,
            preview, shown, touched>>

\* What is at a path: "gone", "stuck" (neither stat nor unlink is permitted),
\* "kept" (unlink is not permitted) or "file".
Entry == [state : {"file", "gone", "stuck", "kept"}, len : Sizes, usage : Sizes, atime : Time]

-----------------------------------------------------------------------------
(* Selection.                                                              *)

\* days_ago_epoch: it moves every second, and so between two runs.
DaysAgo(days) == now - days * Day

\* QueryFilters' conditions on a row.
Selected(f) ==
  /\ opts.min # None   => rows[f].size >= opts.min
  /\ opts.max # None   => rows[f].size <= opts.max
  /\ opts.older # None => rows[f].atime < DaysAgo(opts.older)
  /\ opts.newer # None => rows[f].atime >= DaysAgo(opts.newer)

\* A slip: LIMIT without ORDER BY.
Limited_AnyOrder(matching) ==
  IF opts.limit = None THEN {matching}
  ELSE {S \in SUBSET matching : Cardinality(S) = Min({opts.limit, Cardinality(matching)})}

\* ORDER BY path LIMIT n.
Limited(matching) ==
  IF opts.limit = None THEN {matching}
  ELSE {{f \in matching : Cardinality({g \in matching : g < f}) < opts.limit}}

-----------------------------------------------------------------------------
(* A run.                                                                  *)

RunXduRm(d) ==
  /\ phase = "idle" /\ run < MaxRuns
  /\ run' = run + 1
  /\ dry' = d
  /\ phase' = IF opts.s3 THEN "idle" ELSE "select"
  /\ UNCHANGED <<rows, disk, now, changes, opts, asof, files, since, step, preview, shown, touched>>

\* The process and what it knew are gone.
Ends ==
  /\ phase' = "idle"
  /\ asof' = None /\ files' = {} /\ since' = None /\ touched' = {}
  /\ step' = [f \in File |-> "none"]

\* A dry run prints what it selects and ends; otherwise there must be something to ask for.
Select ==
  /\ phase = "select"
  /\ \E chosen \in Limited({f \in File : Selected(f)}) :
       /\ IF dry THEN preview' = chosen /\ shown' = now ELSE UNCHANGED <<preview, shown>>
       /\ IF dry \/ chosen = {} THEN Ends
          ELSE /\ phase' = "confirm" /\ asof' = now /\ files' = chosen
               /\ step' = [f \in File |-> IF f \in chosen THEN "todo" ELSE "none"]
               /\ UNCHANGED <<since, touched>>
  /\ UNCHANGED <<rows, disk, now, changes, opts, run, dry>>

\* The threshold of safe mode is computed after the answer.
Confirm ==
  /\ phase = "confirm" /\ phase' = "delete"
  /\ since' = IF opts.older = None THEN None ELSE DaysAgo(opts.older)
  /\ UNCHANGED <<rows, disk, now, changes, opts, run, dry, asof, files, step, preview, shown, touched>>

\* Without --force the user may decline.
Decline ==
  /\ phase = "confirm" /\ ~opts.force
  /\ Ends
  /\ UNCHANGED <<rows, disk, now, changes, opts, run, dry, preview, shown>>

Deleting == phase = "delete"
Busy == {f \in files : step[f] = "checked"}
Settle(f, outcome) == step' = [step EXCEPT ![f] = outcome]

\* A slip: safe mode looks at the indexed access time.
Stat_FromIndex(f) ==
  CASE disk[f].state = "gone"  -> "missing"
    [] disk[f].state = "stuck" -> "failed"
    [] since # None /\ rows[f].atime >= since -> "skipped"
    [] opts.max # None /\ disk[f].len > opts.max -> "skipped"
    [] OTHER -> "checked"

\* Safe mode's fs::metadata and what it leads to.
Stat(f) ==
  CASE disk[f].state = "gone"  -> "missing"
    [] disk[f].state = "stuck" -> "failed"
    [] since # None /\ disk[f].atime >= since -> "skipped"
    [] opts.max # None /\ disk[f].len > opts.max -> "skipped"
    [] OTHER -> "checked"

\* A worker takes a file.
Check(f) ==
  /\ Deleting /\ f \in files /\ step[f] = "todo"
  /\ Cardinality(Busy) < Jobs
  /\ Settle(f, IF opts.safe THEN Stat(f) ELSE "checked")
  /\ UNCHANGED <<rows, disk, now, changes, opts, run, dry, phase, asof, files, since, preview, shown, touched>>

\* fs::remove_file.
Unlink(f) ==
  /\ Deleting /\ f \in files /\ step[f] = "checked"
  /\ IF disk[f].state = "file"
     THEN Settle(f, "deleted") /\ disk' = [disk EXCEPT ![f].state = "gone"]
     ELSE Settle(f, IF disk[f].state = "gone" THEN "missing" ELSE "failed") /\ disk' = disk
  /\ UNCHANGED <<rows, now, changes, opts, run, dry, phase, asof, files, since, preview, shown, touched>>

\* The summary; the process succeeds whatever the counters say.
Finish ==
  /\ Deleting
  /\ \A f \in files : step[f] \notin {"todo", "checked"}
  /\ Ends
  /\ UNCHANGED <<rows, disk, now, changes, opts, run, dry, preview, shown>>

-----------------------------------------------------------------------------
(* Everybody else.                                                         *)

Tick ==
  /\ now < Start + Seconds
  /\ now' = now + 1
  /\ UNCHANGED <<rows, disk, changes, opts, run, dry, phase, asof, files, since, step,
                 preview, shown, touched>>

\* Another process reads, rewrites, removes, recreates or protects a file.
Disturb(f) ==
  /\ changes < Changes
  /\ changes' = changes + 1
  /\ \E e \in Entry :
       /\ e.atime \in {disk[f].atime, now}
       /\ e.state = "gone" => e = [disk[f] EXCEPT !.state = "gone"]
       /\ e # disk[f]
       /\ disk' = [disk EXCEPT ![f] = e]
  /\ touched' = IF step[f] = "checked" THEN touched \cup {f} ELSE touched
  /\ UNCHANGED <<rows, now, opts, run, dry, phase, asof, files, since, step, preview, shown>>

RmInit ==
  /\ now = Start
  /\ disk \in [File -> {e \in Entry : e.state = "file" /\ e.atime <= Start}]
  /\ rows = [f \in File |-> [size |-> disk[f].usage, atime |-> disk[f].atime]]
  /\ changes = 0 /\ run = 0 /\ dry = FALSE /\ phase = "idle" /\ since = None
  /\ opts \in Options
  /\ asof = None /\ files = {} /\ preview = None /\ shown = None /\ touched = {}
  /\ step = [f \in File |-> "none"]

RmNext ==
  \/ \E d \in BOOLEAN : RunXduRm(d)
  \/ Select
  \/ Confirm
  \/ Decline
  \/ \E f \in File : Check(f) \/ Unlink(f) \/ Disturb(f)
  \/ Finish
  \/ Tick

RmSpec == RmInit /\ [][RmNext]_rmVars

-----------------------------------------------------------------------------
(* Properties.                                                             *)

\* With --safe, a file that was used since and is no longer old enough, or that
\* grew beyond the limit, stays, however long the prompt and the queue took.
\* Only a change between the stat and the unlink of that very file goes unseen.
KeepsChangedFiles ==
  \A f \in File \ touched :
    step[f] = "checked" /\ step'[f] = "deleted" /\ opts.safe =>
      /\ opts.older # None => disk[f].atime < DaysAgo(opts.older)
      /\ opts.max # None => disk[f].len <= opts.max

SafeKeepsChangedFiles == [][KeepsChangedFiles]_rmVars

Acting == ~dry /\ phase \in {"confirm", "delete"}

\* --limit: "The selection is deterministic, so a --dry-run preview lists exactly the
\* files a subsequent real run deletes."  It does not hold beside an age: the second
\* run computes its thresholds anew, and a file that has come of age meanwhile takes
\* the place of one that was listed.
PreviewIsExact ==
  Acting /\ opts.limit # None /\ preview # None => files = preview

\* What does hold of a dry run and a later run over the same index: without an age
\* they select the same, as they do with one in the same second; and without a limit
\* files only come of age, so --older-than takes on all that was listed and
\* --newer-than nothing that was not.
PreviewUpToAge ==
  Acting /\ preview # None =>
    /\ (opts.older = None /\ opts.newer = None) \/ asof = shown => files = preview
    /\ opts.limit = None /\ opts.newer = None => preview \subseteq files
    /\ opts.limit = None /\ opts.older = None => files \subseteq preview
===============================================================================
