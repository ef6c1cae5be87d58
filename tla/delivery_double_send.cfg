CONSTANTS
  m1 = m1
  m2 = m2
  None = None
  Msgs = {m1}
  Parts <- Plain
  Buffer = 1
  MaxAttempts = 2
  MaxReopen = 1
  ReapBatch = 1
  GraceHolds = FALSE
  MaxFaults = 0
  MaxGlitches = 1
  MaxSlips = 9
SPECIFICATION Spec
INVARIANT NeverDoubleSends
