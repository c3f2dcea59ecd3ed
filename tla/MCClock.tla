--------------------------------- MODULE MCClock ---------------------------------
\* A calendar on the wall, turned by hand from the epoch on, next to the stamps.
EXTENDS Clock

CONSTANTS
  LastYear,   \* bound: where the calendar ends
  Step        \* bound: seconds between two looks at the clock

ASSUME ClockOK == LastYear \in Nat /\ Step \in Nat \ {0} /\ Step <= 86400

VARIABLES
  days, rest, \* since the epoch: days, and seconds of the last one
  wall        \* what a calendar and a clock show

clockVars == <<days, rest, wall>>

Leap(y) == y % 4 = 0 /\ (y % 100 = 0 => y % 400 = 0)
Length(y, m) == IF m = 2 THEN (IF Leap(y) THEN 29 ELSE 28) ELSE IF m \in {4, 6, 9, 11} THEN 30 ELSE 31

NextDay(d) ==
  IF d.day < Length(d.year, d.month) THEN [d EXCEPT !.day = @ + 1]
  ELSE IF d.month < 12 THEN [d EXCEPT !.day = 1, !.month = @ + 1]
  ELSE [year |-> d.year + 1, month |-> 1, day |-> 1]

ClockInit ==
  /\ days = 0 /\ rest = 0
  /\ wall = [date |-> [year |-> 1970, month |-> 1, day |-> 1], time |-> [h |-> 0, m |-> 0, s |-> 0]]

\* Step seconds later, within the hour, at its end, or at the end of the day.
Later(t) == LET s == t.h * 3600 + t.m * 60 + t.s + Step IN [h |-> s \div 3600, m |-> (s % 3600) \div 60, s |-> s % 60]

ClockTick ==
  /\ wall.date.year < LastYear
  /\ days' = days + (rest + Step) \div 86400
  /\ rest' = (rest + Step) % 86400
  /\ wall' = LET t == Later(wall.time)
             IN IF t.h < 24 THEN [wall EXCEPT !.time = t]
                ELSE [date |-> NextDay(wall.date), time |-> [t EXCEPT !.h = @ - 24]]

ClockSpec == ClockInit /\ [][ClockTick]_clockVars

-----------------------------------------------------------------------------
\* "Render a `SystemTime` as a UTC `YYYY-MM-DDTHH:MM:SSZ` stamp": the stamp is what
\* the calendar and the clock show, over every leap day and every century.
StampIsCivil == Stamp(days, rest) = wall
===============================================================================
