CONSTANTS
  m1 = m1
  m2 = m2
  None = None
  Msgs = {m1, m2}
  Parts <- PlainAndLong
  Buffer = 1
  MaxAttempts = 2
  MaxReopen = 1
  ReapBatch = 1
  GraceHolds = TRUE
  MaxFaults = 0
  MaxGlitches = 2
  MaxSlips = 9
SPECIFICATION Spec
PROPERTY OutboxSpec
