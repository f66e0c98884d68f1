\* Two processes that end and start again, one or two bytes
CONSTANTS
  Processes = {p1, p2}
  Cleanup = {p1, p2}
  Sizes = {1, 2}
  Memories = {m1, m2}
  Semaphores = {s1, s2}
  Platforms = {"linux", "windows"}
  None = none
  Nobody = nobody
SPECIFICATION Spec
INVARIANTS TypeOK Undisturbed CleanedUp
PROPERTY LockIsPassedOn
