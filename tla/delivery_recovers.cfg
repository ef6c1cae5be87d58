CONSTANTS
  m1 = m1
  m2 = m2
  None = None
  Msgs = {m1}
  Parts <- Long
  Buffer = 1
  MaxAttempts = 2
  MaxReopen = 1
  ReapBatch = 1
  GraceHolds = TRUE
  MaxFaults = 2
  MaxGlitches = 2
  MaxSlips = 9
SPECIFICATION FairSpec
INVARIANT AwaitedIsHeld
PROPERTY QueuedResolves
