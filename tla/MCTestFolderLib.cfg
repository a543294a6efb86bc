SPECIFICATION FairSpec
CHECK_DEADLOCK FALSE
CONSTANTS
  Workers = {w1}
  NumNodes = 2
  MaxWrites = 2
INVARIANTS TypeOK ReadNotBehind SubscribersInSync
PROPERTIES ImplementsStore StatusRecovers
