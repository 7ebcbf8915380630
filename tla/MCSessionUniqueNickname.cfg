\* Two tabs that want one nickname, and a connection.
SPECIFICATION Spec
CONSTANTS
  Nickname = {n}
  NoName = noname
  Stream = {s1, s2}
  Conn = {c1}
  Tab = {u1, u2}
  NoTab = nobody
  NoConn = null
INVARIANTS
  UniqueNickname
