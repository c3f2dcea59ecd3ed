---------------------------------- MODULE Glob ----------------------------------
(***************************************************************************)
(* The translation of a --pattern glob into the regular expression that    *)
(* the query runs (glob_to_regex in lib.rs), character by character.  The  *)
(* expression is a sequence of characters, an escaped one marked as such,  *)
(* which the database's RE2 reads in its turn: it does not know where the  *)
(* translation began a class or ended one.                                 *)
(***************************************************************************)
EXTENDS Integers, Sequences, SequencesExt

CONSTANTS
  Order,  \* the characters there are, in the order of their codes
  Groups  \* the classes RE2 knows by a name, as alpha, and what is in them

Chars == {Order[i] : i \in 1 .. Len(Order)}
Code(c) == CHOOSE i \in 1 .. Len(Order) : Order[i] = c

\* Backslash: the glob's quote, and in what RE2 reads the mark of an escape.
Quote == "quote"
None  == "none"

Raw(c)     == [char |-> c, escaped |-> FALSE]
Escaped(c) == [char |-> c, escaped |-> TRUE]

\* What a regular expression would not take literally; the `$`, `+`, `(`, `)`, `{`, `}`
\* and `|` of the code go the way of the `.`.
Meta == {".", "*", "?", "[", "]", "^", Quote}

\* What a part of the glob becomes.
AnyPath    == <<Raw("."), Raw("*")>>
AnyChar    == <<Raw(".")>>
Literal(c) == <<IF c \in Meta THEN Escaped(c) ELSE Raw(c)>>
Class(b)   == <<Raw("[")>> \o b \o <<Raw("]")>>

\* Where the translator is: outside a class or in one, or after a quote in either;
\* "class?" has just seen the `[`.  prev is the last character a range could start at.
GlobStart == [at |-> "path", out |-> <<>>, body |-> <<>>, prev |-> None]
Failed(st) == [st EXCEPT !.at = "failed"]

\* push_class_literal
PushClassLiteral(body, c) == Append(body, IF c \in {"]", Quote, "^"} THEN Escaped(c) ELSE Raw(c))

\* class_has_content
HasContent(body) == body \notin {<<>>, <<Raw("^")>>}

PathChar(st, c) ==
  CASE c = "*"   -> [st EXCEPT !.out = @ \o AnyPath]
    [] c = "?"   -> [st EXCEPT !.out = @ \o AnyChar]
    [] c = Quote -> [st EXCEPT !.at = "quoted"]
    [] c = "["   -> [st EXCEPT !.at = "class?", !.body = <<>>, !.prev = None]
    [] OTHER     -> [st EXCEPT !.out = @ \o Literal(c)]

\* A slip: a range may go down.
Dash_AnyRange(st, next) ==
  [st EXCEPT !.body = Append(@, Raw("-")), !.prev = IF next \in {"]", None} THEN "-" ELSE None]

\* A `-` after a character it could start a range at; next is the one that follows.
Dash(st, next) ==
  IF next \notin {"]", None, Quote} /\ Code(st.prev) > Code(next) THEN Failed(st)
  ELSE [st EXCEPT !.body = Append(@, Raw("-")), !.prev = IF next \in {"]", None} THEN "-" ELSE None]

ClassChar(st, c, next) ==
  CASE c = "]" /\ HasContent(st.body) -> [st EXCEPT !.at = "path", !.out = @ \o Class(st.body)]
    [] c = "-" /\ st.prev # None      -> Dash(st, next)
    [] c = Quote                      -> [st EXCEPT !.at = "quoted in class"]
    [] OTHER -> [st EXCEPT !.body = PushClassLiteral(@, c), !.prev = c]

Quoted(st, c) ==
  IF st.at = "quoted" THEN [st EXCEPT !.at = "path", !.out = @ \o Literal(c)]
  ELSE [st EXCEPT !.at = "class", !.body = PushClassLiteral(@, c), !.prev = c]

Translate1(glob, st, i) ==
  LET c    == glob[i]
      next == IF i < Len(glob) THEN glob[i + 1] ELSE None
      in   == [st EXCEPT !.at = "class"]
  IN CASE st.at = "path"   -> PathChar(st, c)
       [] st.at = "class?" -> IF c = "!" THEN [in EXCEPT !.body = <<Raw("^")>>] ELSE ClassChar(in, c, next)
       [] st.at = "class"  -> ClassChar(st, c, next)
       [] st.at = "failed" -> st
       [] OTHER            -> Quoted(st, c)

\* The state after the last character; only one that is back in the path, and has
\* read something, gives an expression.
Translated(glob) ==
  FoldLeft(LAMBDA st, i : Translate1(glob, st, i), GlobStart, [i \in 1 .. Len(glob) |-> i])
Accepted(glob) == glob # <<>> /\ Translated(glob).at = "path"

-----------------------------------------------------------------------------
(* What RE2 makes of the expression re.                                    *)

\* Where the `:]` is that ends a name begun by `[:` at i, or 0: it is looked for in
\* all that follows, past the end of the class.
NameEnd(re, i) ==
  LET ends == {j \in i + 2 .. Len(re) - 1 : re[j] = Raw(":") /\ re[j + 1] = Raw("]")}
  IN IF i + 1 \notin DOMAIN re \/ <<re[i], re[i + 1]>> # <<Raw("["), Raw(":")>> \/ ends = {} THEN 0
     ELSE CHOOSE j \in ends : \A k \in ends : j <= k

\* The class whose `[` is at k: the characters in it and the position after it.  A
\* name stands for a group; a bare `-` before another character makes a range.  An
\* unknown name, a range that goes down and the end of the expression are errors.
ReadClass(re, k) ==
  LET n     == Len(re)
      not   == k < n /\ re[k + 1] = Raw("^")
      first == IF not THEN k + 2 ELSE k + 1
      AtRange(i) == i + 2 <= n /\ re[i + 1] = Raw("-") /\ re[i + 2] # Raw("]")
      Codes(i)   == Code(re[i].char) .. Code(re[i + 2].char)
      Name(i)    == [j \in 1 .. NameEnd(re, i) - i - 2 |-> re[i + 1 + j]]
      Known(i)   == \E g \in DOMAIN Groups : Name(i) = [j \in 1 .. Len(g) |-> Raw(g[j])]
      Group(i)   == Groups[[j \in 1 .. Len(Name(i)) |-> Name(i)[j].char]]
      Bad        == [ok |-> FALSE, set |-> {}, next |-> n + 1]
      read[i \in first .. n + 3] ==
        CASE i > n                 -> Bad
          [] i <= n /\ re[i] = Raw("]") -> [ok |-> TRUE, set |-> {}, next |-> i + 1]
          [] i <= n /\ NameEnd(re, i) # 0 ->
               IF Known(i) THEN [read[NameEnd(re, i) + 2] EXCEPT !.set = @ \cup Group(i)] ELSE Bad
          [] i <= n /\ re[i] # Raw("]") /\ AtRange(i) ->
               IF Codes(i) = {} THEN Bad
               ELSE [read[i + 3] EXCEPT !.set = @ \cup {Order[c] : c \in Codes(i)}]
          [] OTHER -> [read[i + 1] EXCEPT !.set = @ \cup {re[i].char}]
  IN [read[first] EXCEPT !.set = IF not THEN Chars \ @ ELSE @]

\* Whether there is an error.
Compiles(re) ==
  LET f[k \in 1 .. Len(re) + 1] ==
        IF k > Len(re) THEN TRUE
        ELSE IF re[k] # Raw("[") THEN f[k + 1]
        ELSE ReadClass(re, k).ok /\ f[ReadClass(re, k).next]
  IN f[1]

\* regexp_matches(path, '^(?:...)$'), for each suffix of re and of the path.
RegexMatches(re, path) ==
  LET n == Len(path)
      m[k \in 1 .. Len(re) + 1, i \in 1 .. n + 1] ==
        IF k > Len(re) THEN i = n + 1
        ELSE IF re[k] = Raw("[")
        THEN i <= n /\ path[i] \in ReadClass(re, k).set /\ m[ReadClass(re, k).next, i + 1]
        ELSE IF k < Len(re) /\ <<re[k], re[k + 1]>> = AnyPath THEN \E j \in i .. n + 1 : m[k + 2, j]
        ELSE i <= n /\ (re[k] = Raw(".") \/ re[k].char = path[i]) /\ m[k + 1, i + 1]
  IN m[1, 1]
===============================================================================
