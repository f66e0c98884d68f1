\* Two slots, three clients, sockets that inherit O_NONBLOCK and that do not.
CONSTANTS
  MaxClients = 2
  MaxConnections = 3
  Inherits = {TRUE, FALSE}
SPECIFICATION FairSpec
INVARIANTS
  TypeOK
  NoLostConnection
  CallUsesItsClient
  AtMostOneLeft
PROPERTIES
  FreeSlotServes
  DestructorReturns
  ImplementsPool
