SPECIFICATION Spec
CONSTANTS
  BufferSize = 6
  Capacity = 6
  Inputs <- SomeInputs
  Operations <- SomeOperations
  MaxInputs = 3
  NoInput = NoInput
  NodeLimits <- SomeLimits
  ChildCapacity = 2
INVARIANT ChildrenFit
CHECK_DEADLOCK FALSE
