CONSTANTS
  m1 = m1
  m2 = m2
  None = None
  Msgs = {m1, m2}
  Enc <- Mixed
  Parts <- LongOnce
  MaxAttempts = 2
  MaxLate = 2
  MaxFaults = 2
  MaxTardy = 1
  MaxStrays = 1
SPECIFICATION FairSpec
INVARIANTS TypeOK NoCommandSwallowed PromptIsOwnWithin NoTextExecutedWithin SentIsTakenWithin TextInItsCharset
PROPERTY SendEnds
