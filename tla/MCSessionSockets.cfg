\* One tab with two sockets that open and close in every order.
SPECIFICATION Spec
CONSTANTS
  Nickname = {n}
  NoName = noname
  Stream = {s1, s2}
  Conn = {c1, c2}
  Tab = {u}
  NoTab = nobody
  NoConn = null
INVARIANTS
  OneStreamPerTab
  ChatIsConnected
