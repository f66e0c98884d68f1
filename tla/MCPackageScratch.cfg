\* One unsigned integer of the full width, three bits behind a byte boundary.
CONSTANTS
  Blocks <- Wide
  MaxBlocks = 1
  UserSizes = {}
  Hosts <- MCHosts
  MaxCycles = 1
SPECIFICATION Spec
INVARIANT ScratchSuffices
CHECK_DEADLOCK FALSE
