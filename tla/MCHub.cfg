\* Two connections over channels of one message: each can block the other.
SPECIFICATION FairSpec
CONSTANTS
  Client = {c1, c2}
  NoClient = nil
  BroadcastCap = 1
  SendCap = 1
INVARIANTS
  TypeOK
  HubInvariant
  NoStrandedPump
  PanicsExplained
PROPERTIES
  MembershipSpec
  LifeSpec
  DepartureServed
  DeadConnectionLeaves
  StopReturnsUnlessJammed
\* A server whose shutdown is complete, or that died of a panic, stops.
CHECK_DEADLOCK FALSE
