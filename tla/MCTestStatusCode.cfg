SPECIFICATION FairSpec
CHECK_DEADLOCK FALSE
CONSTANTS
  Workers = {w1}
  NumNodes = 1
  Shared = 0
  MaxLength = 3
  Width = 4
  MaxWrites = 1
INVARIANTS TypeOK StatusShown OneForeignElement ElementsKeepPace
PROPERTY SubscribersSeeBoth
