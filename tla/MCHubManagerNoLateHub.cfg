\* Two hubs to stop, and a creator that may be late.
SPECIFICATION Spec
CONSTANTS
  Room = {r1, r2}
  MaxHubs = 1
  MaxUsers = 1
  MaxCreators = 1
INVARIANT NoLateHub
CHECK_DEADLOCK FALSE
