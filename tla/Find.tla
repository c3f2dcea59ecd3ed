---------------------------------- MODULE Find ----------------------------------
(***************************************************************************)
(* What xdu-find prints once the gates of Readers have let it query: the   *)
(* rows as they come from the database, one write each, in one of its      *)
(* formats.  A path is a sequence of characters and may hold any of them;  *)
(* the numeric columns stand for themselves as one character.              *)
(***************************************************************************)
EXTENDS Integers, Sequences, SequencesExt

CONSTANTS
  Paths,    \* the paths a row may have
  MaxRows   \* bound: rows of a result

Comma == ","
DQ    == "dq"     \* "
BS    == "bs"     \* \
NL    == "nl"     \* a line feed; a carriage return and a tab are escaped like it
Ctl   == "ctl"    \* any other control character
Num   == "0"      \* the numeric columns of a row

VARIABLES
  format,   \* --format, or --count
  out,      \* the characters written to stdout
  printed,  \* the paths of the rows written
  first,    \* whether no object precedes the next one
  exit      \* running, ok or failed

vars == <<format, out, printed, first, exit>>

Formats == {"path", "size", "csv", "json", "count"}

\* str::replace
Replace(s, c, by) == FlattenSeq([i \in 1 .. Len(s) |-> IF s[i] = c THEN by ELSE <<s[i]>>])

\* "Escape commas and quotes in path for CSV"
CsvPath(p) ==
  IF \E i \in 1 .. Len(p) : p[i] \in {Comma, DQ} THEN <<DQ>> \o Replace(p, DQ, <<DQ, DQ>>) \o <<DQ>> ELSE p

\* A slip: the backslashes that escape the quotes are escaped in their turn.
JsonPath_QuotesFirst(p) == Replace(Replace(Replace(p, DQ, <<BS, DQ>>), BS, <<BS, BS>>), NL, <<BS, "n">>)

\* "Escape JSON special characters in path"
JsonPath(p) == Replace(Replace(Replace(p, BS, <<BS, BS>>), DQ, <<BS, DQ>>), NL, <<BS, "n">>)

\* A row as its format writes it.
Line(p) ==
  CASE format = "path" -> p \o <<NL>>
    [] format = "size" -> <<Num, "tab">> \o p \o <<NL>>
    [] format = "csv"  -> CsvPath(p) \o <<Comma, Num, NL>>
    [] format = "json" -> (IF first THEN <<>> ELSE <<Comma, NL>>) \o <<"{", DQ>> \o JsonPath(p) \o <<DQ, Comma, Num, "}">>

Header == CASE format = "csv" -> <<"p", Comma, Num, NL>> [] format = "json" -> <<"[", NL>> [] OTHER -> <<>>
Footer == IF format = "json" THEN <<NL, "]", NL>> ELSE <<>>

-----------------------------------------------------------------------------
Init ==
  /\ format \in Formats
  /\ out = Header
  /\ printed = <<>>
  /\ first = TRUE
  /\ exit = "running"

Running == exit = "running"

\* `while let Some(row) = rows.next()?`
Row(p) ==
  /\ Running
  /\ format # "count"
  /\ Len(printed) < MaxRows
  /\ out' = out \o Line(p)
  /\ printed' = Append(printed, p)
  /\ first' = FALSE
  /\ UNCHANGED <<format, exit>>

\* The rows are at an end.
Finish ==
  /\ Running
  /\ format # "count"
  /\ out' = out \o Footer
  /\ exit' = "ok"
  /\ UNCHANGED <<format, printed, first>>

\* SELECT COUNT(*): one row, the number.
Count ==
  /\ Running
  /\ format = "count"
  /\ out' = <<Num, NL>>
  /\ exit' = "ok"
  /\ UNCHANGED <<format, printed, first>>

\* The query or the write fails, between two rows: `?` leaves what is written.
Fail ==
  /\ Running
  /\ exit' = "failed"
  /\ UNCHANGED <<format, out, printed, first>>

Next == (\E p \in Paths : Row(p)) \/ Finish \/ Count \/ Fail

Spec == Init /\ [][Next]_vars
===============================================================================
