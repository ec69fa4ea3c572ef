SPECIFICATION Spec
CONSTANTS
  Users = {u1, u2}
  Devices = {v1}
  EmailIds = {e1}
  DraftIds = {d1, d2}
  Requests = {r1}
  Calls = {c1}
  Operations <- SideOps
  MaxCrashes = 1
  None = None
SYMMETRY Symmetry
INVARIANTS TypeOK EveryEmailAnnounced DraftsKeepToOwners
PROPERTIES SentStaysOut
CHECK_DEADLOCK FALSE
