SPECIFICATION Spec
CONSTANTS
  Bits = 3
  TicksPerUnit = 2
  Lifetimes = {2, 5}
  MaxDrift = 5
  MaxAge = 12
CHECK_DEADLOCK FALSE
INVARIANT TimeNotTorn
PROPERTY UnwrappedReplyKept
