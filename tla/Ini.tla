---------------------------------- MODULE Ini ----------------------------------
(***************************************************************************)
(* The AWS shared files as xdu reads them (Ini in s3.rs): a file is a      *)
(* sequence of lines, parsed line by line.  What is inside a line is left  *)
(* out but for what the parser branches on.                                *)
(***************************************************************************)
EXTENDS Sequences, SequencesExt, TLC

NoName == <<>>  \* of a line that opens with `[` and is no header

\* A section's name is a pair, its keyword and its own name: <<"profile", "p">>.
\* A value is "" when nothing follows the `=`; other lines are those that are
\* blank, comments, or hold no `=`.
Header(name)  == [kind |-> "header", name |-> name]
Pair(k, v)    == [kind |-> "pair", key |-> k, value |-> v, indented |-> FALSE]
Inner(k, v)   == [Pair(k, v) EXCEPT !.indented = TRUE]
OtherLine     == [kind |-> "other"]

\* Values by section, nested block and key; a block is a set of at most one key, for a
\* line may be in none.
EmptyIni == [names |-> {}, values |-> <<>>]
IniStart == [ini |-> EmptyIni, current |-> NoName, block |-> {}]

ReadHeader(st, name) ==
  [ini     |-> [st.ini EXCEPT !.names = IF name = NoName THEN @ ELSE @ \cup {name}],
   current |-> name,
   block   |-> {}]

\* A slip: a line at the margin is still in the block above.
InnerBlock_Inside(st, line) == st.block

\* The block that a line is in, and that the next may be in.
InnerBlock(st, line) == IF line.indented THEN st.block ELSE {}
OpenBlock(inner, line) ==
  IF inner # {} THEN inner ELSE IF line.value = "" THEN {line.key} ELSE {}

\* HashMap::insert
Put(f, at, v) == [x \in DOMAIN f \cup {at} |-> IF x = at THEN v ELSE f[x]]

ReadPair(st, line) ==
  LET inner == InnerBlock(st, line)
  IN [ini     |-> [st.ini EXCEPT !.values = Put(@, <<st.current, inner, line.key>>, line.value)],
      current |-> st.current,
      block   |-> OpenBlock(inner, line)]

ParseLine(st, line) ==
  CASE line.kind = "header" -> ReadHeader(st, line.name)
    [] line.kind = "pair" /\ st.current # NoName -> ReadPair(st, line)
    [] OTHER -> st

Parse(text) == FoldLeft(ParseLine, IniStart, text).ini

\* An empty value counts as none.
At(ini, section, block, key) ==
  LET at == <<section, block, key>> IN IF at \in DOMAIN ini.values THEN ini.values[at] ELSE ""
Nested(ini, section, block, key) == At(ini, section, {block}, key)
Value(ini, section, key) == At(ini, section, {}, key)
===============================================================================
