\* One connection is enough for a send on a closed channel.
SPECIFICATION Spec
CONSTANTS
  Client = {c1}
  NoClient = nil
  BroadcastCap = 2
  SendCap = 2
INVARIANT SendSafeIsSafe
CHECK_DEADLOCK FALSE
