CONSTANTS
  NULL = NULL
  SeedKb = seed_kb
  Request = {r1, r2, r3}
  MaxVersion = 3
  Model = {bge, hashing}
  AppModel = bge
  MaxScripts = 2
SYMMETRY RequestSymmetry
SPECIFICATION KbSpec
INVARIANTS KbTypeOK ServedStaysIndexed QuietIsCurrent
PROPERTIES CurrentMovesForward VersionsAreKept
CHECK_DEADLOCK FALSE
