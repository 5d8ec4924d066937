SPECIFICATION Spec
CONSTANTS
  c1 = c1
  c2 = c2
  c3 = c3
  Clients <- MCClients
  NoClient = NoClient
  MaxClients = 2
  MaxSent <- MCMaxSent
PROPERTIES DisconnectIsHandled
CHECK_DEADLOCK FALSE
