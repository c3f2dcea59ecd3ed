-------------------------------- MODULE Pager --------------------------------
(***************************************************************************)
(* The file preview of xdu-view: what load_file_preview takes from a file, *)
(* the sliding window of its lines, and the pager's keys.                  *)
(*                                                                         *)
(* A file is a sequence of bytes of six kinds: an ASCII character, a       *)
(* newline, a carriage return, the two bytes of a two-byte character, and  *)
(* a byte no UTF-8 text has.  Escape sequences stripped from a line are    *)
(* not modelled.  The file can change, or go away, between two keys.       *)
(***************************************************************************)
EXTENDS Integers, Sequences, FiniteSets, FiniteSetsExt

CONSTANTS
  FileContents, \* contents the previewed file can have
  Gone,         \* what it has when there is none
  SniffSize,    \* SNIFF_SIZE, 8192 in the code
  ChunkBytes,   \* CHUNK_BYTES, 65536
  MaxLines,     \* MAX_BUFFER_LINES, 100000
  Ahead,        \* lines below the scroll position that trigger a load, 40
  HalfPage,     \* lines d and u move by, 20
  ReadsFail,    \* whether opening or reading the file once more can fail
  Changes       \* bound: how often the file changes while it is previewed

Char == "a"  Newline == "\n"  Cr == "\r"  Lead == "lead"  Trail == "trail"  Bad == "bad"
Byte == {Char, Newline, Cr, Lead, Trail, Bad}

\* The window holds more lines than a chunk can add while the cursor is near
\* its end: the code's values leave 34424 lines to spare.
SizesOK ==
  /\ {SniffSize, ChunkBytes, MaxLines, HalfPage} \subseteq Nat \ {0}
  /\ Ahead \in Nat /\ Changes \in Nat /\ ReadsFail \in BOOLEAN
  /\ MaxLines >= ChunkBytes + Ahead

FilesOK == \A s \in FileContents \ {Gone} : s \in Seq(Byte)

ASSUME PagerOK == SizesOK /\ FilesOK

VARIABLES
  file,     \* bytes of the file now, or Gone
  kind,     \* what its first bytes are besides text: "plain", "magic", "shebang"
  changes,
  preview
pagerVars == <<file, kind, changes, preview>>

-----------------------------------------------------------------------------
(* Text.                                                                   *)

FromUtf8(s) ==
  \A i \in DOMAIN s :
    /\ s[i] # Bad
    /\ s[i] = Lead  => i < Len(s) /\ s[i + 1] = Trail
    /\ s[i] = Trail => i > 1 /\ s[i - 1] = Lead

\* How many newlines there are up to a place, and where the k-th of them is.
NewlinesTo(s, i) == Cardinality({j \in 1 .. i : s[j] = Newline})
NewlineCount(s)  == NewlinesTo(s, Len(s))
NewlineAt(s, k)  == CHOOSE i \in 1 .. Len(s) : s[i] = Newline /\ NewlinesTo(s, i) = k

\* The k-th line, without its newline, and where it ends with it.  The text after the
\* last newline is a line too, were it empty.
EndOf(s, k) == IF k = 0 THEN 0 ELSE IF k <= NewlineCount(s) THEN NewlineAt(s, k) ELSE Len(s)
Line(s, k) ==
  SubSeq(s, EndOf(s, k - 1) + 1, IF k <= NewlineCount(s) THEN EndOf(s, k) - 1 ELSE Len(s))

\* str::split at newlines
Split(s) == [k \in 1 .. NewlineCount(s) + 1 |-> Line(s, k)]

Cut(s, n)  == SubSeq(s, 1, IF n < Len(s) THEN n ELSE Len(s))
From(s, n) == SubSeq(s, n + 1, Len(s))

\* infer's magic numbers, then a shebang line, then UTF-8 or not.
DetectText(s) ==
  CASE kind = "magic"   -> FALSE
    [] kind = "shebang" -> TRUE
    [] OTHER            -> FromUtf8(s)

-----------------------------------------------------------------------------
(* Loading.                                                                *)

Unreadable == [is_text |-> FALSE, lines |-> <<>>, first |-> 0, total |-> 0,
               offset |-> 0, eof |-> TRUE, scroll |-> 0, hung |-> FALSE]

\* A slip: eof_reached starts FALSE for binary files too.
Opened_NotEof(is_text) ==
  [Unreadable EXCEPT !.is_text = is_text, !.eof = FALSE]

\* The fields before any content is read.
Opened(is_text) == [Unreadable EXCEPT !.is_text = is_text, !.eof = ~is_text]

\* A slip: the offset is not backed up over the partial line.
FirstChunk_NoBackUp(s) ==
  LET chunk == Cut(s, ChunkBytes)
      eof   == Len(chunk) < ChunkBytes
      n     == IF ~FromUtf8(chunk) THEN 0 ELSE NewlineCount(chunk) + (IF eof THEN 1 ELSE 0)
  IN  [Opened(TRUE) EXCEPT !.lines = [k \in 1 .. n |-> Line(chunk, k)], !.total = n, !.eof = eof,
                           !.offset = Len(chunk)]

\* The first chunk.  Unless it is the whole file its last line may be partial
\* and is left for the next read.  A chunk that is not UTF-8 has no lines.
FirstChunk(s) ==
  LET chunk == Cut(s, ChunkBytes)
      eof   == Len(chunk) < ChunkBytes
      n     == IF ~FromUtf8(chunk) THEN 0 ELSE NewlineCount(chunk) + (IF eof THEN 1 ELSE 0)
      back  == IF FromUtf8(chunk) /\ ~eof THEN Len(Line(chunk, n + 1)) ELSE 0
  IN  [Opened(TRUE) EXCEPT !.lines = [k \in 1 .. n |-> Line(chunk, k)], !.total = n, !.eof = eof,
                           !.offset = Len(chunk) - back]

\* load_file_preview; the file is opened a second time for its content, and
\* that open or its read may fail.
LoadFilePreview(s) ==
  IF s \in {Gone, <<>>} THEN {Unreadable}
  ELSE IF ~DetectText(Cut(s, SniffSize)) THEN {Opened(FALSE)}
  ELSE {FirstChunk(s)} \cup
       IF ReadsFail THEN {Opened(TRUE), [Opened(TRUE) EXCEPT !.eof = TRUE]} ELSE {}

\* The lines that read_line yields one after another; it takes a carriage return off
\* with the newline, and nothing after the last newline is no line.
ReadCount(s) == NewlineCount(s) + (IF Line(s, NewlineCount(s) + 1) = <<>> THEN 0 ELSE 1)
NoCr(l)      == IF l # <<>> /\ l[Len(l)] = Cr THEN SubSeq(l, 1, Len(l) - 1) ELSE l
ReadLine(s, k) == IF k <= NewlineCount(s) THEN NoCr(Line(s, k)) ELSE Line(s, k)

\* Append lines one by one, dropping the front beyond the budget.
Push(p, new) ==
  LET all  == p.lines \o new
      over == IF Len(all) > MaxLines THEN Len(all) - MaxLines ELSE 0
  IN  [p EXCEPT !.lines = From(all, over), !.first = @ + over, !.total = @ + Len(new)]

\* The lines one call reads: up to the first that is not UTF-8, or to the one
\* with which the bytes read reach a chunk.
Taken(s) ==
  {k \in 1 .. ReadCount(s) : EndOf(s, k - 1) < ChunkBytes /\ \A j \in 1 .. k : FromUtf8(Line(s, j))}

LoadMore(p) ==
  IF p.eof \/ ~p.is_text THEN p
  ELSE IF file = Gone THEN [p EXCEPT !.eof = TRUE]
  ELSE LET s == From(file, p.offset)
           n == Max(Taken(s) \cup {0})
       IN  [Push(p, [k \in 1 .. n |-> ReadLine(s, k)]) EXCEPT
              !.offset = @ + EndOf(s, n), !.eof = EndOf(s, n) < ChunkBytes]

\* preview_load_to_eof's loop: every pass that does not end it reads a chunk.
Passes == IF file = Gone THEN 1 ELSE Len(file) + 1
LoadToEof(p) ==
  LET after[i \in 0 .. Passes] == IF i = 0 THEN p ELSE LoadMore(after[i - 1])
  IN  [after[Passes] EXCEPT !.hung = ~after[Passes].eof]

ReloadFromStart(p) ==
  LoadMore([p EXCEPT !.lines = <<>>, !.first = 0, !.total = 0, !.offset = 0,
                     !.eof = FALSE, !.scroll = 0])

-----------------------------------------------------------------------------
(* Keys.                                                                   *)

LastLine(p) == IF p.total = 0 THEN 0 ELSE p.total - 1
Clamped(p) == [p EXCEPT !.scroll = IF @ < LastLine(p) THEN @ ELSE LastLine(p)]
LastLoaded(p) == p.first + Len(p.lines)

Down(p) ==
  LET q == [p EXCEPT !.scroll = @ + 1]
      r == IF q.scroll + Ahead >= LastLoaded(q) THEN LoadMore(q) ELSE q
  IN  Clamped(r)

HalfDown(p) ==
  LET q == [p EXCEPT !.scroll = @ + HalfPage]
      r == IF q.scroll + Ahead >= LastLoaded(q) /\ ~q.eof THEN LoadMore(q) ELSE q
  IN  Clamped(r)

Up(p, n) == [p EXCEPT !.scroll = IF @ - n < p.first THEN p.first ELSE @ - n]

Top(p) == IF p.first > 0 THEN ReloadFromStart(p) ELSE [p EXCEPT !.scroll = 0]

End(p) == LET q == LoadToEof(p) IN [q EXCEPT !.scroll = LastLine(q)]

Press(p) == ~preview.hung /\ preview' = p /\ UNCHANGED <<file, kind, changes>>

KeyDown     == Press(Down(preview))
KeyHalfDown == Press(HalfDown(preview))
KeyUp       == Press(Up(preview, 1))
KeyHalfUp   == Press(Up(preview, HalfPage))
KeyTop      == Press(Top(preview))
KeyEnd      == Press(End(preview))

\* Another process rewrites or removes the file.
Change ==
  /\ changes < Changes
  /\ changes' = changes + 1
  /\ file' \in FileContents \ {file}
  /\ UNCHANGED <<kind, preview>>

PagerInit ==
  /\ file \in FileContents
  /\ kind \in {"plain", "magic", "shebang"}
  /\ changes = 0
  /\ preview \in LoadFilePreview(file)

PagerNext == KeyDown \/ KeyHalfDown \/ KeyUp \/ KeyHalfUp \/ KeyTop \/ KeyEnd \/ Change

PagerSpec == PagerInit /\ [][PagerNext]_pagerVars

-----------------------------------------------------------------------------
(* Properties.                                                             *)

\* The window's bookkeeping, whatever happens to the file: lines[0] is line
\* first_line_number, total_lines_loaded counts on from there, the window keeps
\* its budget and the cursor stays on a line in it.  The renderer subtracts
\* first_line_number from the cursor and indexes the window with the result.
WindowHoldsCursor ==
  /\ preview.first + Len(preview.lines) = preview.total
  /\ Len(preview.lines) <= MaxLines
  /\ preview.total > 0 => preview.scroll \in preview.first .. preview.total - 1

\* "Read forward in chunks until EOF" ends: the key loop waits for it.
NeverSpins == ~preview.hung

\* While the file stays as it is, the window is the file's lines first + 1,
\* first + 2, ... in order, none lost between two chunks or two loads and none
\* read twice; and at the end of a text that could be opened it has the last one.
\* A carriage return before the newline may be gone.  Of a file whose first chunk
\* ends inside a character that chunk's lines are lost.
WindowHoldsLines ==
  changes = 0 /\ preview.is_text /\ FromUtf8(Cut(file, ChunkBytes)) =>
    LET all == Split(file) IN
    /\ preview.total <= Len(all)
    /\ \A i \in DOMAIN preview.lines :
         LET l == all[preview.first + i] IN preview.lines[i] \in {l, NoCr(l)}
    /\ preview.eof /\ FromUtf8(file) /\ preview.total > 0 => preview.total >= ReadCount(file)

\* The window is the file's, and the cursor is in it.
WindowIsTheFile == WindowHoldsCursor /\ WindowHoldsLines

=============================================================================
