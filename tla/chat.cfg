SPECIFICATION Spec
CONSTANTS
  u1 = u1
  u2 = u2
  u3 = u3
  c1 = c1
  s1 = s1
  s2 = s2
  s3 = s3
  t1 = t1
  t2 = t2
  m1 = m1
  m2 = m2
  Users = {u1, u2, u3}
  Conversations = {c1}
  Members <- Pair
  UserOf <- Owner
  Sockets = {s1, s2, s3}
  MessageIds = {m1}
  Calls = {t1, t2}
  MaxTime = 1
  None = None
SYMMETRY Alike
INVARIANTS TypeOK OnlyParticipants ReadStaysRead EveryoneInRoomHears
CHECK_DEADLOCK FALSE
