SPECIFICATION RateSpec
CONSTANTS
  k1 = k1
  k2 = k2
  s1 = s1
  HttpKeys <- Http
  SocketKeys <- Socket
  Limit <- Limits
  Window = 2
  SweepEvery = 3
  MaxTime = 4
  MaxRefused = 1
INVARIANTS RateTypeOK LimitsKept ExpiredGo
CHECK_DEADLOCK FALSE
