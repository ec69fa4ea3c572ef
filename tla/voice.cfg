SPECIFICATION Spec
CONSTANTS
  Keys = {k1, k2}
  RunIds = {o1, o2}
  TTL = 5
  Cap = 2
  Deadline = 3
  ComposeTime = 1
  PruneSize = 2
  MaxTime = 7
  MaxRestarts = 1
INVARIANTS TypeOK DeadlineKept
PROPERTY ImplementsIdempotency
CHECK_DEADLOCK FALSE
