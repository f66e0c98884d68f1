\* Linux: a socket from accept() does not inherit O_NONBLOCK.
CONSTANTS
  MaxClients = 1
  MaxConnections = 1
  Inherits = {FALSE}
SPECIFICATION FairSpec
PROPERTY NonblockingReturns
