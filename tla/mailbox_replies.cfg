SPECIFICATION Spec
CONSTANTS
  Users = {u1, u2}
  Devices = {}
  EmailIds = {e1, e2}
  DraftIds = {}
  Requests = {r1, r2}
  Calls = {}
  Operations <- RemovalOps
  MaxCrashes = 0
  None = None
SYMMETRY Symmetry
INVARIANTS ReplyAnswers KeptUntilAsked
PROPERTY ImplementsCorrespondence
CHECK_DEADLOCK FALSE
