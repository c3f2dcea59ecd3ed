SPECIFICATION Spec
CONSTANTS
  d1 = d1
  reserved = reserved
  Drivers = {d1}
  NParts = 1
  Refused = {reserved}
  Sink = "local"
  BuffSize = 1
  MaxEntries = 2
  MaxRuns = 2
  OldChunks = 3
  OldFormat = 2
  ScopedRuns = FALSE
  Faults = {"crash"}
INVARIANTS
  AttestedExact
