SPECIFICATION Spec
CONSTANTS
  Users = {u1, u2}
  Devices = {}
  Calls = {}
  EmailIds = {e1}
  DraftIds = {}
  Requests = {r1, r2}
  Operations <- RemovalOps
  MaxCrashes = 0
  None = None

INVARIANT PurgedOnlyFromTrash

CHECK_DEADLOCK FALSE
