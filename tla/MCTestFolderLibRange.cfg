SPECIFICATION Spec
CHECK_DEADLOCK FALSE
CONSTANTS
  Workers = {w1}
  NumNodes = 2
  MaxWrites = 2
INVARIANT PublishedIsComputed
