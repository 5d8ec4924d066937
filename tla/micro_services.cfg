SPECIFICATION Spec
CONSTANTS
  ServiceIds = {0, 1}
  MaxServices = 3
  MaxCommands = 2
  Timeout = 1
  Times <- MCTimes
  MaxBatch = 2
  MaxOffered = 3
  NotSweeping = NotSweeping
INVARIANTS TypeOK CountMatchesMask QueuesInOrder SweepTakesAsManyAsDue
CHECK_DEADLOCK FALSE
