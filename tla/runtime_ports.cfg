SPECIFICATION Spec
CONSTANTS
  MaxPrograms = 2
  MaxPorts = 3
  PortLow = 8080
  PortHigh = 8082
  HostBase = 3000
  ContainerBase = 8080
  Default = Default
  Lines <- MCLines
  Directories <- MCDirectories
  MaxStarted = 3
  MaxForeign = 1
INVARIANT BoundWhereSaid
CHECK_DEADLOCK FALSE
