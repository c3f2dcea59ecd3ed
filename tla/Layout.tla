-------------------------------- MODULE Layout --------------------------------
(***************************************************************************)
(* What a frame of xdu-view shows: which columns of the tree fit, and how  *)
(* a row's name is cut to its cell.                                        *)
(*                                                                         *)
(* A screen is any that the keys of View can leave, in a terminal of any   *)
(* width; a step resizes the terminal.  A name is the sequence of its      *)
(* characters' sizes in bytes, each one cell wide.                         *)
(* Colours and wording are not modelled; the split of an area into panes   *)
(* is ratatui's.                                                           *)
(***************************************************************************)
EXTENDS Integers, Sequences, FiniteSets, FiniteSetsExt, SequencesExt

CONSTANTS
  Widths,           \* bound: widths the terminal can have
  RowNames,         \* bound: names an entry can have
  StatWidths,       \* bound: widths of a row's size, count and time together
  MaxColumns,       \* bound: columns of the tree
  MinColumnWidth,   \* MIN_COLUMN_WIDTH, 20
  MaxVisible        \* MAX_VISIBLE_COLUMNS, 5: room for a column and its preview

LayoutOK ==
  /\ Widths \cup StatWidths \subseteq Nat
  /\ {MaxColumns, MinColumnWidth} \subseteq Nat \ {0}
  /\ MaxVisible \in Nat \ {0, 1}
  /\ \A s \in RowNames : Range(s) \subseteq 1 .. 4

VARIABLES
  width,  \* of the area above the status bar
  screen  \* what the frame is drawn from, of App
layoutVars == <<width, screen>>

\* Columns of the tree, the active one, and whether a file's preview is loaded: the
\* chain View keeps.  The file may be one to the right of the column gone back to.
Trees == {t \in [columns : 1 .. MaxColumns, active : 1 .. MaxColumns, file : BOOLEAN] :
            t.columns \in t.active .. t.active + 1}

Kinds(view) == IF view = "List" THEN {"dir", "file", "up"} ELSE {"dir", "file"}

\* Least widths of a row's statistics.
LeastStats(view) == IF view = "List" THEN 10 + 8 + 12 ELSE 6 + 6 + 6

Screens ==
  {a \in [view : {"List", "Tree"}, overlay : BOOLEAN,
          tree : Trees, kind : {"dir", "file", "up"}, name : RowNames,
          stats : StatWidths] :
     /\ a.kind \in Kinds(a.view)
     /\ a.stats >= LeastStats(a.view)
     /\ a.overlay => a.view = "List"}

-----------------------------------------------------------------------------
(* Rows.                                                                   *)

SlicePanic == <<0>>  \* no character has no bytes
Ellipsis == 3
\* The arrow before a directory and the one before ".." have three bytes.
Displayed(a) == (IF a.kind = "file" THEN <<1, 1>> ELSE <<3, 1>>) \o a.name

Bytes(s) == FoldSeq(+, 0, s)

\* &s[..n]: a panic unless n is between two characters.
SliceTo(s, n) ==
  LET starts == {t \in {SubSeq(s, 1, k) : k \in 0 .. Len(s)} : Bytes(t) = n} IN
  IF starts = {} THEN SlicePanic ELSE CHOOSE t \in starts : TRUE

\* A slip: the ellipsis is not counted.
Shortened_NoEllipsis(s, room) ==
  LET cut == SliceTo(s, room) IN
  IF cut = SlicePanic THEN SlicePanic ELSE Append(cut, Ellipsis)

Shortened(s, room) ==
  LET cut == SliceTo(s, Max({0, room - 1})) IN
  IF cut = SlicePanic THEN SlicePanic ELSE Append(cut, Ellipsis)

\* The list fits a name by its bytes, the tree too but for cells of one column,
\* where the name is whole, and none, where it is dropped.
ListName(s, room) == IF Bytes(s) > room THEN Shortened(s, room) ELSE s
TreeName(s, room) ==
  IF room = 0 THEN <<>> ELSE IF Bytes(s) > room /\ room > 1 THEN Shortened(s, room) ELSE s

\* The overlay's lines are cut between characters.
TruncateToChars(s, max) ==
  CASE max = 0       -> <<>>
    [] Len(s) <= max -> s
    [] OTHER         -> Append(SubSeq(s, 1, max - 1), Ellipsis)

\* The overlay takes four fifths of the width, borders included.
OverlayRoom == Max({0, (width * 80) \div 100 - 2})

\* Room for the name: borders, the statistics, the gaps between them and the
\* highlight symbol go first.
ListRoom == Max({0, Max({0, width - 2}) - (screen.stats + 8)})
TreeRoom(pane) == Max({0, Max({0, Max({0, pane - 2}) - 2}) - (screen.stats + 6)})

-----------------------------------------------------------------------------
(* The tree's columns.                                                     *)

NeedExtraSlot == screen.tree.file
HasPreviewPane == screen.tree.file \/ screen.tree.columns > screen.tree.active
TotalPanes == screen.tree.columns + (IF NeedExtraSlot THEN 1 ELSE 0)

NumVisible ==
  Max({1, Min({TotalPanes, MaxVisible, width \div MinColumnWidth})})

\* A slip: the pane of a file's preview is not counted.
SlotsAfterActive_ColumnsOnly == IF screen.tree.columns > screen.tree.active THEN 2 ELSE 1

SlotsAfterActive == IF HasPreviewPane THEN 2 ELSE 1

\* Panes are numbered from 1 here.
FirstPane ==
  LET wanted == screen.tree.active - 1 + SlotsAfterActive IN
  1 + IF wanted > NumVisible THEN Min({wanted - NumVisible, Max({0, TotalPanes - NumVisible})})
      ELSE 0

Visible == FirstPane .. Min({FirstPane - 1 + NumVisible, TotalPanes})

\* Layout::split with equal ratios: off by one where they do not divide.
PaneWidths ==
  LET n == Cardinality(Visible) IN {width \div n, (width + n - 1) \div n}

-----------------------------------------------------------------------------
Resize ==
  /\ width' \in Widths
  /\ UNCHANGED screen

LayoutInit == width \in Widths /\ screen \in Screens
LayoutNext == Resize
LayoutSpec == LayoutInit /\ [][LayoutNext]_layoutVars

-----------------------------------------------------------------------------
(* Properties.                                                             *)

\* "Ensure the active column + its preview are visible": the slots before the
\* active column give way first, and of a chain too long for the screen the part up
\* to the preview is shown.  A terminal too narrow for two panes shows the preview
\* alone.
ActiveAndPreviewShown ==
  screen.view = "Tree" /\ width >= 2 * MinColumnWidth =>
    /\ screen.tree.active \in Visible
    /\ HasPreviewPane => screen.tree.active + 1 \in Visible

\* A name is cut to its cell, so that the columns after it line up and the row
\* ends inside its border, wherever there is room for an arrow and an ellipsis.  The
\* list and the tree cut by bytes, which panics inside a character: what is said of
\* them is said of names in ASCII.  "Byte-index slicing panics on a multibyte name":
\* the overlay's lines are cut by characters, whatever the name.
RowsLineUp ==
  LET Fits(cell, room) ==
        room >= 4 /\ Bytes(screen.name) = Len(screen.name) => cell # SlicePanic /\ Len(cell) <= room IN
  /\ screen.view = "List" => Fits(ListName(Displayed(screen), ListRoom), ListRoom)
  /\ screen.view = "Tree" => \A w \in PaneWidths :
       Fits(TreeName(Displayed(screen), TreeRoom(w)), TreeRoom(w))
  /\ screen.overlay =>
       Len(TruncateToChars(<<1, 1>> \o screen.name, OverlayRoom)) <= OverlayRoom
=============================================================================
