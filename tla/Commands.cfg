SPECIFICATION MCSpec
CONSTANTS
  None = None
  NFiles = 2
  Sizes = {1, 2}
  Day = 2
  Start = 3
  Seconds = 1
  Jobs = 2
  Options <- MCOptions
  Changes = 1
  Partitions = {1, 2}
  MaxCrawls = 2
  MaxErrors = 2
  MaxRuns = 2
INVARIANTS
  SilenceMeansComplete
  UnattestedIsRefused
  PreviewUpToAge
  OutputReadsBack
PROPERTIES
  SafeKeepsChangedFiles
CHECK_DEADLOCK FALSE
