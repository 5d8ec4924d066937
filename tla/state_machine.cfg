SPECIFICATION Spec
CONSTANTS
  Contents <- MCContents
  Checksum <- MCChecksum
  PassesCheck <- MCPassesCheck
  TNames = {"go", "back"}
  Holders = {"h1"}
  NoSnapshot = NoSnapshot
  MaxStates = 2
  MaxTransitions = 2
  MaxDepth = 2
  MaxVersion = 5
  MaxFailures = 1
CONSTRAINT SmallInstance
INVARIANTS TypeOK SnapshotsCurrent VerifyIsSound
PROPERTIES NoEntryPastLock LocksOnlyByCall ChangesRaiseVersion
CHECK_DEADLOCK FALSE
