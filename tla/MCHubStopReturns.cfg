\* The instance of MCHub.cfg.
SPECIFICATION FairSpec
CONSTANTS
  Client = {c1, c2}
  NoClient = nil
  BroadcastCap = 1
  SendCap = 1
PROPERTY StopReturns
CHECK_DEADLOCK FALSE
