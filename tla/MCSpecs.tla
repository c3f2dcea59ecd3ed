-------------------------------- MODULE MCSpecs --------------------------------
\* Every short argument of --mode, --min-size and --max-size, typed a character at
\* a time.
EXTENDS Filters

CONSTANTS
  Typed,    \* the characters of an argument
  MaxSpec   \* bound: how many

VARIABLE spec

Init == spec = <<>>
Type(c) == Len(spec) < MaxSpec /\ spec' = Append(spec, c)
Next == \E c \in Typed : Type(c)
Spec == Init /\ [][Next]_spec

-----------------------------------------------------------------------------
Modes == {0, 2, 7, 16, 63, 448, 511, 2048, MaxBits}

\* Does a file's mode have the bit that the k-th octal digit from the right, of
\* weight 2^b, stands for?
Has(mode, k, b) == ((mode \div 8^k) \div 2^b) % 2 = 1

\* "bare octal (`644`, `0644`) is exact; a `/` prefix (`/002`) matches when any
\* listed bit is set; an `&` prefix (`&4000`) matches when all listed bits are set",
\* digit by digit, and what the footer shows of a spec is a spec of the same files.
ModeReadsAsListed ==
  \A pred \in ParseModeSpec(spec) :
    LET n == Len(spec)
        listed == {kb \in (0 .. n - 1) \X (0 .. 2) :
                     spec[n - kb[1]] \in ToSet(Octal) /\ Has(Digit(spec[n - kb[1]]), 0, kb[2])}
        set(mode) == {kb \in (0 .. n - 1) \X (0 .. 2) : Has(mode, kb[1], kb[2])}
        files == {mode \in Modes : ModeMatches(pred, mode)}
    IN /\ files = CASE spec[1] = "/" -> {mode \in Modes : \E kb \in listed : Has(mode, kb[1], kb[2])}
                    [] spec[1] = "&" -> {mode \in Modes : \A kb \in listed : Has(mode, kb[1], kb[2])}
                    [] OTHER -> {mode \in Modes : set(mode) = listed /\ mode < 8^n}
       /\ \E shown \in ParseModeSpec(ShowMode(pred)) : {mode \in Modes : ModeMatches(shown, mode)} = files

\* "Supports suffixes: K, M, G, T (and KiB, MiB, GiB, TiB variants)": a number in
\* front of any of them is that many of its units, and no suffix hides another.
SizeReadsAsWritten ==
  \A n \in {"1", "2"}, k \in 0 .. 2 :
    LET u == <<<<>>, <<"K">>, <<"M">>>>[k + 1]
    IN /\ spec = <<n>> \o u => ParseSize(spec) = Some(Number(<<n>>) * Unit^k)
       /\ k > 0 /\ spec = <<n>> \o u \o <<"I", "B">> => ParseSize(spec) = Some(Number(<<n>>) * Unit^k)
===============================================================================
