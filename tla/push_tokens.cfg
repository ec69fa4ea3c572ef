SPECIFICATION Spec
CONSTANTS
  Users = {u1, u2}
  Tokens = {p1, p2}
  Sends = {n1}
  None = None
SYMMETRY Symmetry
INVARIANTS TypeOK SignedInIsReachable NoPushAfterSignOff
CHECK_DEADLOCK FALSE
