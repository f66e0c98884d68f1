\* All chains of up to three of six blocks, within a big-endian simulation and from a
\* big-endian to a little-endian one; buffers sized automatically, and one size that is
\* too small for some chains and too large for others.
CONSTANTS
  Blocks <- MCBlocks
  MaxBlocks = 3
  UserSizes = {6}
  Hosts <- MCHosts
  MaxCycles = 2
SPECIFICATION Spec
INVARIANTS TypeOK AutoSizeExact CursorInBounds RoundTrip
\* The simulations end.
CHECK_DEADLOCK FALSE
