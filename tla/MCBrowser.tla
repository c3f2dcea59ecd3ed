-------------------------------- MODULE MCBrowser --------------------------------
\* The names of an index, where xdu makes them and where xdu-view shows them, for TLC,
\* one part at a time: the directory that is crawled (TopLevel), the queries of
\* xdu-view (MCViewQuery), the list and the tree over an index that stays and over one
\* that is crawled again while queries fail (View), the pager over a file that stays
\* and over one that changes (Pager), and what fits on the screen (Layout).  What is
\* not looked at stands still.
EXTENDS TopLevel, MCViewQuery, Layout, Pager

CONSTANT k   \* a name

VARIABLE scene   \* what is looked at

view   == <<faults, recrawls, app>>

-----------------------------------------------------------------------------
(* What can be in the directory to crawl.                                  *)

MCNames == {"a", "a*", "a~", "b", "\\xfe", "\\xff", "__root__", ".xdu-complete"}
MCLossy == [n \in MCNames |-> IF n \in {"\\xfe", "\\xff"} THEN "<?>" ELSE n]
Texts == {MCLossy[n] : n \in MCNames} \cup {"p", "", ".", "?"}
MCEncoded ==
  [s \in Texts |-> CASE s = "a~" -> "a%7E" [] s = "<?>" -> "%EF%BF%BD" [] s = "." -> "%2E"
                     [] OTHER -> s]
MCExpands ==
  [s \in Texts |-> CASE s = "a*" -> {"a", "a*", "a~"} [] s = "?" -> {"a", "b", "p"}
                     [] OTHER -> {s}]

\* Of the directories there are two at a time, and besides them b, whatever it is.
MCSources ==
  {[n \in MCNames |-> IF n \in D THEN "dir" ELSE IF n = "b" THEN b ELSE "none"] :
     D \in {E \in SUBSET (MCNames \ {"b"}) : Cardinality(E) <= 2}, b \in Types}

\* Besides names, "." for any path to a directory that is no entry, and the text that
\* a name without one is stored as.
MCFilters  == {{}, {"a"}, {"b"}, {"a", "b"}, {"a", "."}, {"<?>"}}
MCLocators == {<<>>, <<"p">>, <<"p", "b", "", "">>, <<"", "p">>, <<"p", "", "b">>, <<".">>,
               <<"p", "?">>, <<"a~">>}

-----------------------------------------------------------------------------
(* A small tree of two partitions.                                         *)

File(part, path, size, atime) ==
  [partition |-> part, path |-> path, size |-> size, atime |-> atime]

\* Partition p has a file and a directory with one, t a file, and the crawled
\* directory itself a file.
Whole == {File(p, <<p, f>>, 1, 3), File(p, <<p, d, g>>, 2, 1),
          File(t, <<t, f>>, 4, 2), File("__root__", <<k>>, 1, 1)}

\* After a crawl that no longer found p.
LessP == {r \in Whole : r.partition # p}

NamesInOrder == <<h, d, u, f, g, k, long, p, t>>
Lengths == [n \in {NamesInOrder[i] : i \in DOMAIN NamesInOrder} |-> IF n = long THEN 6 ELSE 1]
Lookalikes == {u} \X {d, f, g, h, k, p, t, u}

\* What may be typed at the prompts: patterns that match nothing, a file of each
\* partition, or only t's, and a number of days only old enough files pass.
MCTyped == [m \in {"Pattern", "OlderThan"} |->
            IF m = "Pattern" THEN {{}, {<<t, f>>, <<p, d, g>>}} ELSE {2}]
OnlyT == [m \in {"Pattern"} |-> {{<<t, f>>}}]

\* View itself is the list and the tree over an index that stays.
MCIndexes == {Whole}

\* The other starts in p, from where the list of the partitions is one key away.
Faulty == INSTANCE View WITH
  Indexes <- {Whole, LessP}, Recrawls <- 1, Faults <- {TRUE}, Sorts <- {"Name"},
  Typed <- OnlyT, Argument <- {p}

-----------------------------------------------------------------------------
(* Files to preview.                                                       *)

\* bound: their length
MaxBytes == 8

Over(bytes, n) == UNION {[1 .. i -> bytes] : i \in 0 .. n}

\* Text, with a two-byte character in shorter files; with Windows line ends, broken
\* off by a byte that is no text, or gone.
Text == Over({"a", "\n"}, MaxBytes) \cup Over({"a", "\n", "lead", "trail"}, 5)
AnyFile == LET texts == Over({"\n", "\r"}, 5) IN
           texts \cup {Append(s, "bad") : s \in texts} \cup {Gone}

\* Pager itself is a file that stays.
Changing == INSTANCE Pager WITH FileContents <- AnyFile, ReadsFail <- TRUE, Changes <- 1

-----------------------------------------------------------------------------
(* Terminals and the names in them.                                        *)

Plain(n) == [i \in 1 .. n |-> 1]
MCRowNames == {Plain(n) : n \in {1, 9, 30, 60}}
                \cup {[i \in 1 .. 30 |-> 2], [i \in 1 .. 30 |-> IF i = 2 THEN 3 ELSE 1]}

\* A tree of one directory, on no screen.
Blank == [view |-> "Tree", overlay |-> FALSE, kind |-> "dir", name |-> Plain(1), stats |-> 18,
          tree |-> [columns |-> 1, active |-> 1, file |-> FALSE]]

ASSUME BoundsOK ==
  ViewOK /\ Faulty!ViewOK /\ IndexOK(Files)
    /\ Changing!SizesOK /\ Changing!FilesOK /\ LayoutOK

-----------------------------------------------------------------------------
IndexRests  == rows = {}
ViewRests   == faults = TRUE /\ recrawls = 0 /\ app = AppNew
PagerRests  == file = <<>> /\ kind = "" /\ changes = 0 /\ preview = Unreadable
LayoutRests == width = 0 /\ screen = Blank
CrawlRests  ==
  /\ transport = "" /\ prefix = <<>> /\ source = "" /\ filter = {} /\ pc = "" /\ runs = 0
  /\ queue = {} /\ walked = {} /\ index = {} /\ marker = FALSE

MCInit ==
  \/ /\ scene = "crawl" /\ Init
     /\ IndexRests /\ ViewRests /\ PagerRests /\ LayoutRests
  \/ /\ \/ scene = "queries" /\ QueriesInit
        \/ scene = "steady" /\ ViewInit
        \/ scene = "faulty" /\ Faulty!ViewInit
     /\ CrawlRests /\ PagerRests /\ LayoutRests
  \/ /\ \/ scene = "pager"    /\ PagerInit /\ LayoutRests
        \/ scene = "changing" /\ Changing!PagerInit /\ LayoutRests
        \/ scene = "layout"   /\ LayoutInit /\ PagerRests
     /\ CrawlRests /\ IndexRests /\ ViewRests

MCNext ==
  /\ UNCHANGED scene
  /\ \/ scene = "crawl" /\ Next /\ UNCHANGED <<rows, view, pagerVars, layoutVars>>
     \/ /\ \/ scene = "queries" /\ QueriesNext
           \/ scene = "steady" /\ ViewNext
           \/ scene = "faulty" /\ Faulty!ViewNext
        /\ UNCHANGED <<vars, pagerVars, layoutVars>>
     \/ /\ \/ scene = "pager"    /\ PagerNext
           \/ scene = "changing" /\ Changing!PagerNext
        /\ UNCHANGED <<vars, rows, view, layoutVars>>
     \/ scene = "layout" /\ LayoutNext /\ UNCHANGED <<vars, rows, view, pagerVars>>

MCSpec == MCInit /\ [][MCNext]_<<scene, vars, rows, view, pagerVars, layoutVars>>

-----------------------------------------------------------------------------
\* EveryItemFound and ScopedToOne are those of TopLevel.

\* TotalsAddUp, ShownIsCurrent, ModesApart, ColumnsAreAChain and PathUnderRoot are
\* View's, for all three scenes of it.

\* View's KeepsPlace: "Toggle between list and tree view modes, preserving navigation
\* position", while no filter is set and no load fails.
ToggleKeepsPlace == [][KeepsPlace]_viewVars

\* View's NeverPanics: "Restore terminal", so no key ends the program by a panic.
KeysNeverPanic == scene = "steady" => NeverPanics

\* WindowIsTheFile and NeverSpins are Pager's, for both of its scenes.

\* ActiveAndPreviewShown and RowsLineUp are Layout's.
================================================================================
