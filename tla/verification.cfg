SPECIFICATION Spec
CONSTANTS
  Users = {u1}
  CodeIds = {c1, c2, c3}
  Calls = {t1, t2}
  TTL = 1
  ResendAfter = 1
  MaxAttempts = 2
  MaxTime = 2
  MaxLogouts = 1
  None = None
SYMMETRY Symmetry
INVARIANTS TypeOK SessionsNeedMail SupersededStayUsed AttemptsBounded RevivedOnlyByOverlap
PROPERTIES ImplementsAccounts
CHECK_DEADLOCK FALSE
