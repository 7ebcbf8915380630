\* Two names, a second hub of each, two hubs to stop, and a creator that may be late.
SPECIFICATION FairSpec
CONSTANTS
  Room = {r1, r2}
  MaxHubs = 2
  MaxUsers = 1
  MaxCreators = 1
INVARIANTS
  TypeOK
  ManagerInvariant
  RoomsAreHubs
  NoUpdateLost
  CrashesExplained
PROPERTIES
  LateHubsAreCreated
  ShutdownCompletes
  LobbyConverges
\* A server that has shut down, or that died of a panic, stops.
CHECK_DEADLOCK FALSE
