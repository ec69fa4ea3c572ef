SPECIFICATION Spec
CONSTANTS
  Keys = {k1, k2}
  RunIds = {o1, o2, o3, o4}
  TTL = 2
  MaxRun = 1
  PruneSize = 2
  MaxTime = 5
  MaxRestarts = 1
SYMMETRY Symmetry
INVARIANTS TypeOK OncePerWindow
PROPERTY EntriesKept
CHECK_DEADLOCK FALSE
