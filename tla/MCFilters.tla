------------------------------- MODULE MCFilters -------------------------------
\* Every combination of the day filters, given at some second and still in force
\* later: xdu-view keeps the thresholds it started with.
EXTENDS Filters

CONSTANTS
  DayCounts, \* the day counts on the command line
  Rows,      \* rows of an index
  Start,     \* the second of the command
  MaxTick    \* bound: seconds that pass

\* The seconds of the days are an i64, and so is the time.
AgesOK ==
  /\ WordsOK
  /\ DayCounts \subseteq Nat /\ \A d \in DayCounts : d * Day < SignBit
  /\ Start \in Nat /\ Start < SignBit /\ MaxTick \in Nat
  /\ \A row \in Rows : {row.atime, row.mtime} \subseteq Int

ASSUME AgesOK

VARIABLES
  asked,     \* the arguments; few: whether the size, the owner and the mode are given
  filters,   \* the QueryFilters made of them
  rows,      \* what the index holds
  started,   \* when
  now

ageVars == <<asked, filters, rows, started, now>>

Optional == {NotGiven} \cup {Some(d) : d \in DayCounts}

Threshold(days) == {DaysAgoEpoch(d, now) : d \in days}

Ask(older, newer, mtime_older, few) ==
  /\ asked = [older |-> older, newer |-> newer, mtime_older |-> mtime_older, few |-> few]
  /\ filters = [older_than |-> Threshold(older), newer_than |-> Threshold(newer),
                mtime_older_than |-> Threshold(mtime_older), mtime_newer_than |-> NotGiven,
                min_size |-> IF few THEN Some(1) ELSE NotGiven,
                max_size |-> IF few THEN Some(2) ELSE NotGiven,
                owner_uid |-> IF few THEN Some(0) ELSE NotGiven, group_gid |-> NotGiven,
                mode |-> IF few THEN ParseModeSpec(<<"/", "2">>) ELSE NotGiven]

AgesInit ==
  /\ now = Start /\ started = now /\ rows = Rows
  /\ \E o, n, m \in Optional, few \in BOOLEAN : Ask(o, n, m, few)

\* Time passes.
AgesTick ==
  /\ now < started + MaxTick
  /\ now' = now + 1
  /\ UNCHANGED <<asked, filters, rows, started>>

AgesSpec == AgesInit /\ [][AgesTick]_ageVars

-----------------------------------------------------------------------------
\* "Files not accessed in N days", "Files accessed within N days", and the
\* modification-time analogue: of the rows that fit the other filters those are listed
\* whose age, the day the command was given, says so.  A file is on one side of N days
\* or the other, as long as N days in seconds are an i64.
ListedByAge ==
  \A row \in rows :
    Selected(filters, row) <=>
      /\ FitsOtherwise(filters, row)
      /\ \A d \in asked.older : started - row.atime > d * Day
      /\ \A d \in asked.newer : started - row.atime <= d * Day
      /\ \A d \in asked.mtime_older : started - row.mtime > d * Day

\* The footer's "[older:Nd]" starts as what was asked, and however long the view
\* stays open every row it lists is older than the days it shows.
FooterIsTrue ==
  \A t \in filters.older_than :
    /\ now = started => asked.older = {DaysSinceEpoch(t, now)}
    /\ \A row \in rows :
         Selected(filters, row) => now - row.atime > DaysSinceEpoch(t, now) * Day

\* --older-than and --newer-than list by age, and the footer never overstates the age
\* of what is listed.
AgeDecides == ListedByAge /\ FooterIsTrue

\* The other filters, where they are given: a byte or two, of root's, that others
\* may write.
OthersDecide ==
  asked.few =>
    \A row \in rows :
      FitsOtherwise(filters, row) <=> row.size = 1 /\ row.uid = 0 /\ row.mode \in {2, 3}
===============================================================================
