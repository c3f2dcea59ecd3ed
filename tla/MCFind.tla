--------------------------------- MODULE MCFind ---------------------------------
\* Readers of the two formats of Find that claim to be read by a machine.
EXTENDS Find

-----------------------------------------------------------------------------
\* RFC 4180: the first fields of the records of a text.
CsvStart == [at |-> "field", field |-> <<>>, col |-> 1, records |-> <<>>]

CsvChar(st, c) ==
  LET keep == IF st.col = 1 THEN [st EXCEPT !.field = Append(@, c)] ELSE st
  IN CASE st.at = "quoted" /\ c = DQ                      -> [st EXCEPT !.at = "quote"]
       [] st.at = "quoted"                                -> keep
       [] st.at = "quote" /\ c = DQ                       -> [keep EXCEPT !.at = "quoted"]
       [] c = Comma                                       -> [st EXCEPT !.at = "start", !.col = @ + 1]
       [] c = NL -> [at |-> "field", field |-> <<>>, col |-> 1, records |-> Append(st.records, st.field)]
       [] c = DQ /\ st.at = "field" /\ st.field = <<>>    -> [st EXCEPT !.at = "quoted"]
       [] OTHER                                           -> [keep EXCEPT !.at = "field"]

CsvRecords(text) == FoldLeft(CsvChar, CsvStart, text).records

\* JSON: the strings at the head of the objects of an array, or where it went wrong.
JsonStart == [at |-> "text", string |-> <<>>, strings |-> <<>>]

JsonChar(st, c) ==
  LET to(a) == [st EXCEPT !.at = a]
  IN CASE st.at = "string" /\ c = BS           -> to("escape")
       [] st.at = "string" /\ c = DQ           -> [at |-> "head", string |-> <<>>, strings |-> Append(st.strings, st.string)]
       [] st.at = "string" /\ c \in {NL, Ctl}  -> to("error")
       [] st.at = "string"                     -> [st EXCEPT !.string = Append(@, c)]
       [] st.at = "escape" /\ c \in {BS, DQ}   -> [st EXCEPT !.at = "string", !.string = Append(@, c)]
       [] st.at = "escape" /\ c = "n"          -> [st EXCEPT !.at = "string", !.string = Append(@, NL)]
       [] st.at \in {"text", "open", "object", "next", "done"} /\ c = NL -> st
       [] st.at = "text" /\ c = "["            -> to("open")
       [] st.at \in {"open", "next"} /\ c = "{" -> to("key")
       [] st.at = "key" /\ c = DQ              -> to("string")
       [] st.at = "head" /\ c = Comma          -> to("number")
       [] st.at = "number" /\ c = Num          -> st
       [] st.at = "number" /\ c = "}"          -> to("object")
       [] st.at = "object" /\ c = Comma        -> to("next")
       [] st.at \in {"open", "object"} /\ c = "]" -> to("done")
       [] OTHER                                -> to("error")

Json(text) == FoldLeft(JsonChar, JsonStart, text)

Holds(p, c) == \E i \in 1 .. Len(p) : p[i] = c

\* "Results are written ... suitable for piping to other tools": a run that exits
\* zero has printed a CSV whose records are the paths of the rows, each whole, but
\* for one that holds a line break.
CsvReadsBack ==
  format = "csv" /\ exit = "ok" /\ (\A i \in DOMAIN printed : ~Holds(printed[i], NL)) =>
    CsvRecords(out) = <<<<"p">>>> \o printed

\* The same of an array of JSON objects, which closes only when the run succeeds,
\* but for a path that holds a control character other than a line break.
JsonReadsBack ==
  format = "json" /\ (\A i \in DOMAIN printed : ~Holds(printed[i], Ctl)) =>
    IF exit = "ok" THEN Json(out).at = "done" /\ Json(out).strings = printed
    ELSE Json(out).at # "done"
===============================================================================
