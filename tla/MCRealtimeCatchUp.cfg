\* Windows alone.
CONSTANTS
  Platforms = {"windows"}
  NSEC = 3
  Starts = {2, 4}
  Scalings = {0, 1, 2}
  MaxRun = 7
  MaxSim = 3
SPECIFICATION Spec
INVARIANT CatchesUp
