--------------------------------- MODULE MCGlob ---------------------------------
\* Every short glob, typed one character at a time, and what it should mean.
EXTENDS Glob

CONSTANTS
  MaxGlob,  \* bound: characters of a glob
  Typed,    \* the characters it is made of
  Opening   \* what it begins with

VARIABLE glob

Init == glob = Opening
Type(c) ==
  /\ Len(glob) < MaxGlob
  /\ glob' = Append(glob, c)
Next == \E c \in Typed : Type(c)
Spec == Init /\ [][Next]_glob

-----------------------------------------------------------------------------
\* The characters after their quotes, outside and inside classes alike.
Read(g) ==
  LET f[i \in 1 .. Len(g) + 2] ==
        IF i > Len(g) THEN <<>>
        ELSE IF g[i] = Quote /\ i < Len(g) THEN <<Escaped(g[i + 1])>> \o f[i + 2]
        ELSE <<Raw(g[i])>> \o f[i + 1]
  IN f[1]

\* Where the class that opens at i closes: a `]` is literal when it comes first.
Closes(r, i) ==
  LET from == IF i < Len(r) /\ r[i + 1] = Raw("!") THEN i + 3 ELSE i + 2
      ends == {j \in from .. Len(r) : r[j] = Raw("]")}
  IN IF ends = {} THEN 0 ELSE CHOOSE j \in ends : \A k \in ends : j <= k

\* "`[...]` is a character class (`[!...]` negates it, `[a-z]` is a range), and `\`
\* quotes the next character literally."
InGlobClass(r, i, j, c) ==
  LET not == r[i + 1] = Raw("!")
      lo  == IF not THEN i + 2 ELSE i + 1
      f[k \in lo .. j + 3] ==
        IF k >= j THEN FALSE
        ELSE IF k + 2 < j /\ r[k + 1] = Raw("-")
        THEN Code(c) \in Code(r[k].char) .. Code(r[k + 2].char) \/ f[k + 3]
        ELSE c = r[k].char \/ f[k + 1]
  IN f[lo] # not

\* What the glob should match: the whole path, `*` any part of it.
GlobMatches(g, path) ==
  LET r == Read(g)
      n == Len(path)
      m[k \in 1 .. Len(r) + 1, i \in 1 .. n + 1] ==
        CASE k > Len(r)        -> i = n + 1
          [] k <= Len(r) /\ r[k] = Raw("*") -> \E j \in i .. n + 1 : m[k + 1, j]
          [] k <= Len(r) /\ r[k] = Raw("?") -> i <= n /\ m[k + 1, i + 1]
          [] k <= Len(r) /\ r[k] = Raw("[") ->
               i <= n /\ Closes(r, k) # 0 /\ InGlobClass(r, k, Closes(r, k), path[i])
                 /\ m[Closes(r, k) + 1, i + 1]
          [] OTHER -> i <= n /\ r[k].char = path[i] /\ m[k + 1, i + 1]
  IN m[1, 1]

Paths == {<<>>} \cup {<<c>> : c \in Chars}
           \cup {<<c, d>> : c \in {"a", "]", "[", ":"}, d \in {"b", "-", "]"}}

\* The expression matches what the glob does.
Means == \A path \in Paths : RegexMatches(Translated(glob).out, path) = GlobMatches(glob, path)

Quotes(g, c) == \E i \in 1 .. Len(g) - 1 : g[i] = Quote /\ g[i + 1] = c

\* Two neighbours c and d in r, quoted or not, from i on.
Has(r, i, c, d) == \E j \in i .. Len(r) - 1 : r[j].char = c /\ r[j + 1].char = d
Names(g) ==
  LET r == Read(g)
  IN \E i \in 2 .. Len(r) - 1 : <<r[i].char, r[i + 1].char>> = <<"[", ":">> /\ Has(r, i + 2, ":", "]")

\* "The translation cannot smuggle in regex syntax the user did not write": an accepted
\* glob matches, as the database reads its expression, what it says.  Two kinds of
\* globs do not, and are left out: one with a quoted dash, which the expression has
\* bare; and one with a `[:` past its first character and a `:]` behind, which RE2
\* takes for the name of a class.
MeansTheGlob == Accepted(glob) /\ ~Quotes(glob, "-") /\ ~Names(glob) => Means

\* "Every glob failure surfaces at ingestion rather than at the database": the database
\* takes what was accepted, but for such a name and for a range with a quoted end.
DatabaseAccepts ==
  Accepted(glob) /\ Quote \notin Range(glob) /\ ~Names(glob) => Compiles(Translated(glob).out)
===============================================================================
