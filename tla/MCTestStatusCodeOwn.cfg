SPECIFICATION Spec
CHECK_DEADLOCK FALSE
CONSTANTS
  Workers = {w1}
  NumNodes = 2
  Shared = 2
  MaxLength = 3
  Width = 4
  MaxWrites = 1
INVARIANT PublishedIsOwn
