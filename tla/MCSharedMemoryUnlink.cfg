\* Two processes on Linux
CONSTANTS
  Processes = {p1, p2}
  Cleanup = {p1, p2}
  Sizes = {1, 2}
  Memories = {m1, m2}
  Semaphores = {s1, s2}
  Platforms = {"linux"}
  None = none
  Nobody = nobody
SPECIFICATION Spec
INVARIANT ExclusiveAccess
