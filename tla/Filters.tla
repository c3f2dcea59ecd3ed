-------------------------------- MODULE Filters --------------------------------
(***************************************************************************)
(* The filters of xdu-find, xdu-rm and xdu-view (QueryFilters in lib.rs):  *)
(* what their arguments become, the rows they let through, and what the    *)
(* footer of xdu-view says of them while time goes by.                     *)
(***************************************************************************)
EXTENDS Integers, Sequences, SequencesExt

CONSTANTS
  SignBit, \* what the sign bit of an i64 stands for: 2^63
  Day,     \* seconds of a day
  Unit     \* bytes of a kibibyte

WordsOK == {SignBit, Day, Unit} \subseteq Nat \ {0}

\* An argument that may be missing is a set of at most one value.
NotGiven == {}
Some(x)  == {x}

\* `as i64`, and the arithmetic of a release build: the low bits, with a sign.
AsI64(n) ==
  LET m == n % (2 * SignBit) IN IF m >= SignBit THEN m - 2 * SignBit ELSE m

\* The cast of a float saturates.
FloatAsI64(n) == IF n >= SignBit THEN SignBit - 1 ELSE n

-----------------------------------------------------------------------------
\* days_ago_epoch and days_since_epoch; `/` rounds towards zero.
DaysAgoEpoch(days, now) == AsI64(now - AsI64(AsI64(days) * Day))

DaysSinceEpoch(threshold, now) ==
  LET s == AsI64(now - threshold) IN IF s >= 0 THEN s \div Day ELSE -((-s) \div Day)

(* parse_mode_spec: a spec is a sequence of characters, the bits a number. *)
Octal == <<"0", "1", "2", "3", "4", "5", "6", "7">>
Digit(c) == (CHOOSE i \in 1 .. 8 : Octal[i] = c) - 1
MaxBits == 8^4 - 1

Strip(s, prefix) == IF IsPrefix(prefix, s) THEN SubSeq(s, Len(prefix) + 1, Len(s)) ELSE s
OctalValue(digits) == FoldLeft(LAMBDA v, c : 8 * v + Digit(c), 0, digits)

Op(spec) == IF spec # <<>> /\ spec[1] \in {"/", "&"} THEN spec[1] ELSE "="

ParseModeSpec(spec) ==
  LET digits == Strip(Strip(spec, IF Op(spec) = "=" THEN <<>> ELSE <<Op(spec)>>), <<"0", "o">>)
  IN IF digits = <<>> \/ ~(ToSet(digits) \subseteq ToSet(Octal)) THEN NotGiven
     ELSE IF OctalValue(digits) > MaxBits THEN NotGiven
     ELSE Some([op |-> Op(spec), bits |-> OctalValue(digits)])

\* Display of a ModePredicate, as the footer has it: `{:o}` has no leading zero.
ShownBits(bits) ==
  LET digits == [k \in 1 .. 4 |-> Octal[((bits \div 8^(4 - k)) % 8) + 1]]
      zeros  == {k \in 1 .. 3 : \A j \in 1 .. k : digits[j] = "0"}
  IN SubSeq(digits, IF zeros = {} THEN 1 ELSE 1 + CHOOSE k \in zeros : \A j \in zeros : j <= k, 4)
ShowMode(pred) == (IF pred.op = "=" THEN <<>> ELSE <<pred.op>>) \o ShownBits(pred.bits)

(* parse_size, of text in capitals.  The unit of a suffix is a power of Unit. *)
Decimal == Octal \o <<"8", "9">>
Number(s) == FoldLeft(LAMBDA v, c : 10 * v + (CHOOSE i \in 1 .. 10 : Decimal[i] = c) - 1, 0, s)

\* A slip: the bytes are tried before the units that end like them.
Units_BytesFirst == << <<<<"B">>, 0>>, <<<<"M", "I", "B">>, 2>>, <<<<"M">>, 2>>, <<<<"K", "I", "B">>, 1>>, <<<<"K">>, 1>>, <<<<>>, 0>> >>

\* In the order they are tried; T and G go the way of M.
Units == << <<<<"M", "I", "B">>, 2>>, <<<<"M">>, 2>>, <<<<"K", "I", "B">>, 1>>, <<<<"K">>, 1>>, <<<<"B">>, 0>>, <<<<>>, 0>> >>

\* str::trim
Trim(s) ==
  LET inked == {i \in 1 .. Len(s) : s[i] # " "}
  IN IF inked = {} THEN <<>>
     ELSE SubSeq(s, CHOOSE i \in inked : \A j \in inked : i <= j, CHOOSE i \in inked : \A j \in inked : i >= j)

\* The first suffix that fits decides; what is left of it, trimmed, is a number.
ParseSize(s) ==
  LET fits   == {k \in 1 .. Len(Units) : IsSuffix(Units[k][1], s)}
      k      == CHOOSE x \in fits : \A y \in fits : x <= y
      number == Trim(SubSeq(s, 1, Len(s) - Len(Units[k][1])))
  IN IF number = <<>> \/ ~(ToSet(number) \subseteq ToSet(Decimal)) THEN NotGiven
     ELSE Some(FloatAsI64(Number(number) * Unit^Units[k][2]))

-----------------------------------------------------------------------------
\* A row of the index, and the filters as the builders leave them.
Bits(n) == {k \in 0 .. 11 : (n \div 2^k) % 2 = 1}

ModeMatches(pred, mode) ==
  CASE pred.op = "=" -> mode = pred.bits
    [] pred.op = "/" -> Bits(mode) \cap Bits(pred.bits) # {}
    [] pred.op = "&" -> Bits(pred.bits) \subseteq Bits(mode)

\* What the size, the owner, the group and the mode must be.
FitsOtherwise(f, row) ==
  /\ \A n \in f.min_size : row.size >= n
  /\ \A n \in f.max_size : row.size <= n
  /\ f.owner_uid \subseteq {row.uid}
  /\ f.group_gid \subseteq {row.gid}
  /\ \A pred \in f.mode : ModeMatches(pred, row.mode)

\* A slip: a file of the very second is on both sides.
Selected_OnBoth(f, row) ==
  /\ FitsOtherwise(f, row)
  /\ \A t \in f.older_than : row.atime <= t
  /\ \A t \in f.newer_than : row.atime >= t
  /\ \A t \in f.mtime_older_than : row.mtime <= t
  /\ \A t \in f.mtime_newer_than : row.mtime >= t

\* to_conditions, but for the pattern, which is Glob's and ViewQuery's.
Selected(f, row) ==
  /\ FitsOtherwise(f, row)
  /\ \A t \in f.older_than : row.atime < t
  /\ \A t \in f.newer_than : row.atime >= t
  /\ \A t \in f.mtime_older_than : row.mtime < t
  /\ \A t \in f.mtime_newer_than : row.mtime >= t
===============================================================================
