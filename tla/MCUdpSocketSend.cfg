\* Two addresses: the one a datagram comes from and the one a message is sent to.
CONSTANTS
  MessageLength = 1
  PackageSizes = {1}
  MaxDatagrams = 1
  QueueSize = 1
  Peers = {p1, p2}
SPECIFICATION Spec
INVARIANT SendGoesToTarget
