--------------------------------- MODULE MCIni ---------------------------------
\* Every short text over an alphabet of lines, parsed as it grows.
EXTENDS Ini, Integers

CONSTANTS
  Alphabet,  \* lines
  MaxLines   \* bound: lines of a text

IsHeader(l) == l.kind = "header"
IsPair(l)   == l.kind = "pair" /\ l.indented \in BOOLEAN
IsOther(l)  == l.kind = "other"

ASSUME AlphabetOK == \A l \in Alphabet : IsHeader(l) \/ IsPair(l) \/ IsOther(l)

VARIABLES text, st
iniVars == <<text, st>>

IniInit == text = <<>> /\ st = IniStart

TypeLine(l) ==
  /\ Len(text) < MaxLines
  /\ text' = Append(text, l)
  /\ st' = ParseLine(st, l)

IniNext == \E l \in Alphabet : TypeLine(l)
IniSpec == IniInit /\ [][IniNext]_iniVars

-----------------------------------------------------------------------------
LastOf(I)  == CHOOSE i \in I : \A j \in I : j <= i
FirstAt(I) == CHOOSE i \in I : \A j \in I : i <= j

\* The section a line is in: what the last line above that opens with `[` names.
Above(i) == {j \in 1 .. i - 1 : IsHeader(text[j])}
SectionAt(i) == IF Above(i) = {} THEN NoName ELSE text[LastOf(Above(i))].name

\* The lines above that stand at the margin; the last of them and those since, as far as
\* they end in an empty value: the first opens the block that a line after it is in, if
\* indented.
AtMargin(l) == IsHeader(l) \/ (IsPair(l) /\ ~l.indented)
Openers(i) ==
  {j \in 1 .. i - 1 : /\ IsPair(text[j]) /\ text[j].value = ""
                      /\ \A m \in 1 .. i - 1 : AtMargin(text[m]) => m <= j}
OpenAt(i) == IF Openers(i) = {} THEN {} ELSE {text[FirstAt(Openers(i))].key}
BlockAt(i) == IF text[i].indented THEN OpenAt(i) ELSE {}

\* "the subset of the AWS shared-file INI dialect": every value is that of the
\* last line giving its section, block and key; an unreadable header's keys reach
\* no profile, and a services section's nested block is not flattened into it.
Given     == {i \in 1 .. Len(text) : IsPair(text[i]) /\ SectionAt(i) # NoName}
PlaceOf(i) == <<SectionAt(i), BlockAt(i), text[i].key>>

IniMeaning ==
  /\ DOMAIN st.ini.values = {PlaceOf(i) : i \in Given}
  /\ \A i \in Given : (\A j \in Given : PlaceOf(j) = PlaceOf(i) => j <= i)
                        => st.ini.values[PlaceOf(i)] = text[i].value
===============================================================================
