SPECIFICATION Spec
CONSTANTS
  MaxMessages = 2
  MaxSequence = 2
  MaxSockets = 2
  MaxEvents = 2
  MaxRetries = 2
  NoSocket = 0
INVARIANTS TypeOK Awaited OnceInOrder WaitsForSomething
PROPERTIES EverySendSettles QueueNeverForgotten
CHECK_DEADLOCK FALSE
