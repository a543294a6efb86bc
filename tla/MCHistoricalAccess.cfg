SPECIFICATION FairSpec
CHECK_DEADLOCK FALSE
CONSTANTS
  Clients = {c1, c2}
  numberEntries = 10
  UInt32 = 16
  PageSizes <- AllPageSizes
  None = None
INVARIANTS TypeOK CollectsPrefix CompleteMeansAll
PROPERTY EventuallyComplete
