---------------------------------- MODULE Clock ----------------------------------
(***************************************************************************)
(* The stamp of a log record (format_log_timestamp in lib.rs): days since  *)
(* the epoch to a date of the civil calendar, in integers and without a    *)
(* table of months.                                                        *)
(***************************************************************************)
EXTENDS Integers

EpochDays == 719468   \* from 0000-03-01 to 1970-01-01
EraDays   == 146097   \* of four hundred years

\* A slip: the centuries are leap years, as one in four hundred is.
YearOfEra_NoCenturies(doe) == (doe - doe \div 1460) \div 365

YearOfEra(doe) == (doe - doe \div 1460 + doe \div 36524 - doe \div 146096) \div 365

\* The date of a day, of the years that begin in March.
CivilDate(days) ==
  LET z   == days + EpochDays
      doe == z % EraDays
      yoe == YearOfEra(doe)
      doy == doe - (365 * yoe + yoe \div 4 - yoe \div 100)
      mp  == (5 * doy + 2) \div 153
      m   == IF mp < 10 THEN mp + 3 ELSE mp - 9
      y   == yoe + (z \div EraDays) * 400
  IN [year |-> IF m <= 2 THEN y + 1 ELSE y, month |-> m, day |-> doy - (153 * mp + 2) \div 5 + 1]

TimeOfDay(t) == [h |-> t \div 3600, m |-> (t % 3600) \div 60, s |-> t % 60]

\* The seconds since the epoch are days, of 86400, and a rest.
Stamp(days, rest) == [date |-> CivilDate(days), time |-> TimeOfDay(rest)]
===============================================================================
