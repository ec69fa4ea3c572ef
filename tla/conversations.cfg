SPECIFICATION ReaderSpec
CONSTANTS
  Users = {u1, u2}
  ConvIds = {c1, c2}
  MessageIds = {m1, m2, m3}
  Calls = {t1, t2}
  MaxTime = 2
  MaxOld = 2
  Limit = 1
  None = None
CONSTRAINT FewMessages
SYMMETRY Symmetry
INVARIANTS TypeOK OpensAgree OpensSucceed LastMessageIsLatest PagesMissNothing
CHECK_DEADLOCK FALSE
