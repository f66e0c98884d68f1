\* One slot, one client: enough to fill the slots.
CONSTANTS
  MaxClients = 1
  MaxConnections = 1
  Inherits = {FALSE}
SPECIFICATION Spec
INVARIANT SlotInBounds
