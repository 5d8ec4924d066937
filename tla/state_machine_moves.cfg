SPECIFICATION Spec
CONSTANTS
  Contents <- MCContents
  Checksum <- MCChecksum
  PassesCheck <- MCPassesCheck
  TNames = {"go", "back"}
  Holders = {"h1"}
  NoSnapshot = NoSnapshot
  MaxStates = 2
  MaxTransitions = 2
  MaxDepth = 1
  MaxVersion = 5
  MaxFailures = 1
CONSTRAINT SmallInstance
PROPERTIES MovesAlongTransitions
CHECK_DEADLOCK FALSE
