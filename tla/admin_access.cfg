CONSTANTS
  s1 = s1
  s2 = s2
  a1 = a1
  a2 = a2
  a3 = a3
  t1 = t1
  NoToken = NoToken
  Sources = {s1, s2}
  Attempts = {a1, a2}
  Tokens = {t1}
  Threshold = 2
  Window <- ShortWindow
  LockTime <- ShortLockTime
  MaxKept = 3
  MaxTracked = 1
  IdleTime = 2
  SweepEvery = 2
  MaxFlight = 1
  MaxFailures = 4
  MaxTime = 5
SPECIFICATION Spec
SYMMETRY Symmetry
CHECK_DEADLOCK FALSE
INVARIANTS TypeOK DecidesAsFull GuessesBounded SessionsReclaimed HandedOutIsAudited
PROPERTY LockKept
