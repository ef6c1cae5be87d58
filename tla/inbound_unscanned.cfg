CONSTANTS
  m1 = m1
  m2 = m2
  m3 = m3
  None = None
  Msgs = {m1, m2}
  Slots = {1, 2}
  MaxReads = 3
  MaxLate = 0
  MaxFaults = 0
SPECIFICATION FairSpec
PROPERTY AnnouncedIsHandled
