\* One tab that is reloaded stands for users one after the other; two names, so
\* that two submissions of the form overlap, and one socket.
SPECIFICATION FairSpec
CONSTANTS
  Nickname = {n1, n2}
  NoName = noname
  Stream = {s1, s2}
  Conn = {c1}
  Tab = {u}
  NoTab = nobody
  NoConn = null
INVARIANTS
  TypeOK
  NoNameLeaked
  ReservationExact
PROPERTIES
  LobbyServed
  NamesComeFree
