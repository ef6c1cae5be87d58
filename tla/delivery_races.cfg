CONSTANTS
  m1 = m1
  m2 = m2
  None = None
  Msgs = {m1, m2}
  Parts <- Plain
  Buffer = 1
  MaxAttempts = 2
  MaxReopen = 1
  ReapBatch = 1
  GraceHolds = FALSE
  MaxFaults = 1
  MaxGlitches = 0
  MaxSlips = 1
SPECIFICATION Spec
SYMMETRY Symmetry
CONSTRAINT SlipsBounded
INVARIANTS TypeOK SentMeansAired CopiesBounded OutcomesAgree
