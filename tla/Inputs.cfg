SPECIFICATION MCSpec
CONSTANTS
  Worlds <- MCWorlds
  Regional <- MCRegional
  Url <- MCUrl
  Faults <- AllFaults
  Alphabet <- MCAlphabet
  MaxLines = 5
  SignBit = 128
  Day = 3
  Unit = 4
  DayCounts = {0, 1, 15, 42}
  Rows <- MCRows
  Start = 20
  MaxTick = 7
  LastYear = 2410
  Step = 86399
INVARIANTS
  OneKeyPair
  SameEndpoint
  VerifiedFirst
  WriterIsReadable
  IniMeaning
  MeansTheGlob
  AgeDecides
  ReadsAsWritten
  StampIsCivil
CHECK_DEADLOCK FALSE
