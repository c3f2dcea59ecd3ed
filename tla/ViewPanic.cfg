SPECIFICATION MCSpec
CONSTANTS
  EntryNames <- MCNames
  Lossy <- MCLossy
  Encoded <- MCEncoded
  Expands <- MCExpands
  Sources <- MCSources
  Filters <- MCFilters
  Elsewhere = {"."}
  Locators <- MCLocators
  MaxRuns = 1
  d = d
  f = f
  g = g
  h = h
  k = k
  long = long
  p = p
  t = t
  u = u
  None = None
  NameOrder <- NamesInOrder
  NameLen <- Lengths
  Wild <- Lookalikes
  Indexes <- MCIndexes
  Recrawls = 0
  MaxPath = 3
  Faults = {FALSE}
  Sorts = {"AgeAsc", "Name", "SizeDesc", "SizeAsc"}
  Typed <- MCTyped
  Argument = {None, p}
  FileContents <- Text
  Gone = Gone
  SniffSize = 4
  ChunkBytes = 3
  MaxLines = 4
  Ahead = 1
  HalfPage = 2
  ReadsFail = FALSE
  Changes = 0
  Widths = {30, 39, 40, 41, 59, 60, 79, 99, 140}
  RowNames <- MCRowNames
  StatWidths = {18, 33}
  MaxColumns = 7
  MinColumnWidth = 20
  MaxVisible = 5
INVARIANTS
  KeysNeverPanic
CHECK_DEADLOCK FALSE
