\* The instance of MCHub.cfg.
SPECIFICATION FairSpec
CONSTANTS
  Client = {c1, c2}
  NoClient = nil
  BroadcastCap = 1
  SendCap = 1
PROPERTY RegistrationServed
CHECK_DEADLOCK FALSE
