SPECIFICATION Spec
CHECK_DEADLOCK FALSE
CONSTANTS
  Sessions = {s1}
  NoContext = NoContext
INVARIANT EventsDenied
