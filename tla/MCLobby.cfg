SPECIFICATION FairSpec
CONSTANTS
  Stream = {s1}
  ChanCap = 2
  MaxChanges = 4
INVARIANTS
  TypeOK
  NothingLost
PROPERTIES
  NeverBackwards
  LobbyConverges
  StreamsEnd
