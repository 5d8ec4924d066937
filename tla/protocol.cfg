SPECIFICATION Spec
CONSTANTS
  MaxTransitions = 4
  MaxDepth = 2
  MaxVersion = 4
  MaxFailures = 1
  MaxSequence = 3
  MaxTouches = 2
CONSTRAINT SmallInstance
ACTION_CONSTRAINT InstalledFirst
INVARIANTS TypeOK SessionTracksMachine HandshakeSent
PROPERTIES SessionRespectsLocks MachineSpec
CHECK_DEADLOCK FALSE
