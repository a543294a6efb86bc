SPECIFICATION Spec
CONSTANTS
  Half32 = 512
  Half64 = 4096
  Huge = 2048
  NaN = NaN
INVARIANTS TypeOK TickInRange NotStuck
PROPERTIES StaysNear
