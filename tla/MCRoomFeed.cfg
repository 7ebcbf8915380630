\* Two connections; an announcement can wait behind another in the hub's queue.
SPECIFICATION FeedSpec
CONSTANTS
  Client = {c1, c2}
  NoClient = nil
  BroadcastCap = 2
  SendCap = 1
  Users = users
  Nothing = nothing
SYMMETRY AnyConnection
INVARIANTS
  FeedTypeOK
  UserCountRight
  NoGhostTyping
  OwnTypingUnseen
\* A room whose last member has left stops.
CHECK_DEADLOCK FALSE
