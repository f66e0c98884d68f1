\* A receive buffer of two bytes, a packager that is too small and one that is large
\* enough, three datagrams of zero to three bytes, two of them waiting at once.
CONSTANTS
  MessageLength = 2
  PackageSizes = {1, 3}
  MaxDatagrams = 3
  QueueSize = 2
  Peers = {p1}
SPECIFICATION Spec
INVARIANTS TypeOK ReadIsLatest OverwritesAccounted NoUseAfterFree
PROPERTIES DestructorReturns ReadReturns QueueDrained ImplementsMailbox
