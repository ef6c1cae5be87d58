SPECIFICATION Spec
CONSTANTS
  Latest = 2
  Found <- MCFound
  Setups <- MCSetups
  Disks = {1, 2}
  MaxTrouble = 3
  Single <- MCSingle
  Multi <- MCMulti
  MaxParts = 3
  ApiKeys = {k1}
  k1 = k1
  CustomLimit <- MCCustomLimit
  Posts <- MCPosts
  Missing = Missing
  MaxBody = 9
  Slots = {r1, r2}
  Second = 2
  IdleTime = 2
  MaxLag = 1
  MaxTime = 4
  Absence = Absence
  Limits = {Absence, 0, 1, 9}
  PageDefault = 1
  PageMax = 2
  Capacity = 2
  RowCap = 2
  ShowMax = 1
  Day = 1
  MaxRows = 3
  MaxWall = 2
  Workloads <- MCWorkloads
  Steady = "env"
  LoadInputs <- MCLoadInputs
  Bodies <- MCBodies
  Attempts = {1, 2, 3, 4, 5, 6, 7, 8, 9, 10, 32, 33, 64, 65, 1000}
INVARIANTS
  TypeOK SchemaAsRecorded ReadyMeansComplete
  BurstBounded RetryAfterSuffices RowsSendable NothingUnseen RecentRight
  LoadsAreRight SegmentsRight StatusAgrees BackoffDoubles
PROPERTY ComesUp
CHECK_DEADLOCK FALSE
