------------------------------- MODULE Session -------------------------------
(***************************************************************************)
(* The browsers and the server together: every tab runs the page's code    *)
(* (main.js, websocket.js), asks for its nickname, keeps a lobby stream    *)
(* and opens WebSocket connections; the server is module Nicknames.        *)
(*                                                                         *)
(* A tab is single-threaded: an event handler is one action, except that   *)
(* it ends at an await and goes on in another action.  The two ends of a   *)
(* connection learn independently that it is gone.  Rooms, messages and    *)
(* what the views show are left out; the connection asked for may be       *)
(* refused at any time, as its room may be gone.  The loader that covers   *)
(* the list of rooms is one of the things left out: the keyboard still     *)
(* reaches what is under it.                                               *)
(***************************************************************************)
EXTENDS Nicknames

CONSTANTS
  Tab,     \* the browser tabs
  NoTab,   \* nobody
  NoConn   \* null

ASSUME SessionAssumption == NoTab \notin Tab /\ NoConn \notin Conn

VARIABLES
  view,        \* view[u]: state.currentView
  nick,        \* nick[u]: state.myNickname
  enabled,     \* the tabs whose submit button is shown and enabled
  asked,       \* asked[u]: the names for which handleNicknameSubmit awaits an answer
  free,        \* free[u]: those of them whose answer "available" is on its way
  source,      \* source[u]: readyState of state.lobbyEventSource
  sourceName,  \* sourceName[u]: the nickname in its URL
  peer,        \* peer[s]: the tab at the other end of stream s, while it is there
  socket,      \* socket[u]: state.socket
  owner,       \* owner[c]: the tab whose script has events of socket c to come
  ready,       \* ready[c]: readyState of socket c
  sockName,    \* sockName[c]: the nickname in its URL
  leaving,     \* the sockets on which leave_room was sent
  timers,      \* the sockets whose onclose has scheduled a show-lobby event
  creating     \* the tabs that wait for the answer to createRoom

formVars == <<enabled, asked, free>>
pageVars == <<view, nick, creating, formVars>>
linkVars == <<source, sourceName, peer>>
sockVars == <<socket, owner, ready, sockName, leaving, timers>>
vars == <<serverVars, pageVars, linkVars, sockVars>>

Init ==
  /\ ServerInit
  /\ view = [u \in Tab |-> "nickname"] /\ nick = [u \in Tab |-> NoName]
  /\ creating = {} /\ enabled = {}
  /\ asked = [u \in Tab |-> {}] /\ free = [u \in Tab |-> {}]
  /\ source = [u \in Tab |-> "none"] /\ sourceName = [u \in Tab |-> NoName]
  /\ peer = [s \in Stream |-> NoTab]
  /\ socket = [u \in Tab |-> NoConn]
  /\ owner = [c \in Conn |-> NoTab] /\ ready = [c \in Conn |-> "none"]
  /\ sockName = [c \in Conn |-> NoName]
  /\ leaving = {} /\ timers = {}

-----------------------------------------------------------------------------
(* Parts of handlers.                                                      *)

\* Seeded fault: connectLobbyStream does not look for a stream it has.
ConnectLobbyStream_Always(u, n) ==
  /\ source' = [source EXCEPT ![u] = "connecting"]
  /\ sourceName' = [sourceName EXCEPT ![u] = n]

\* connectLobbyStream(n): a stream that is open, or that the browser is about to
\* reconnect by itself, is kept, with the name it was asked for.
ConnectLobbyStream(u, n) ==
  IF source[u] \in {"none", "closed"}
  THEN /\ source' = [source EXCEPT ![u] = "connecting"]
       /\ sourceName' = [sourceName EXCEPT ![u] = n]
  ELSE UNCHANGED <<source, sourceName>>

\* Seeded fault: the stream is left to be opened when the tab becomes visible.
ShowLobby_NoStream(u, n) ==
  /\ view' = [view EXCEPT ![u] = "lobby"]
  /\ UNCHANGED <<source, sourceName>>

\* showLobby, when state.myNickname is n.
ShowLobby(u, n) ==
  /\ view' = [view EXCEPT ![u] = "lobby"]
  /\ ConnectLobbyStream(u, n)

\* joinRoom: a new socket becomes state.socket; the one before is not closed.
JoinRoom(u, c) ==
  /\ ready[c] = "none"
  /\ ready' = [ready EXCEPT ![c] = "connecting"]
  /\ owner' = [owner EXCEPT ![c] = u]
  /\ sockName' = [sockName EXCEPT ![c] = nick[u]]
  /\ socket' = [socket EXCEPT ![u] = c]

-----------------------------------------------------------------------------
(* The nickname form.  A call of handleNicknameSubmit is known by its tab   *)
(* and its name: two that await the answer about one name would read the   *)
(* same registry and do the same, and are one here.                        *)

\* handleNicknameInput: the button is disabled while the user types, and when the
\* server says that the name typed is taken; it is enabled when a name is free,
\* whatever was submitted meanwhile.
TypeNickname(u) ==
  /\ view[u] = "nickname"
  /\ \/ \E n \in Nickname : IsNicknameAvailable(n) /\ enabled' = enabled \cup {u}
     \/ enabled' = enabled \ {u}
  /\ UNCHANGED <<serverVars, view, nick, creating, asked, free, linkVars, sockVars>>

\* handleNicknameSubmit up to its await: the name is valid, the server is asked.
SubmitNickname(u, n) ==
  /\ view[u] = "nickname" /\ u \in enabled
  /\ enabled' = enabled \ {u}
  /\ asked' = [asked EXCEPT ![u] = @ \cup {n}]
  /\ UNCHANGED <<serverVars, view, nick, creating, free, linkVars, sockVars>>

\* nicknameCheckHandler answers that the name is free.
AnswerFree(u, n) ==
  /\ n \in asked[u] /\ IsNicknameAvailable(n)
  /\ asked' = [asked EXCEPT ![u] = @ \ {n}] /\ free' = [free EXCEPT ![u] = @ \cup {n}]
  /\ UNCHANGED <<serverVars, view, nick, creating, enabled, linkVars, sockVars>>

\* The name is taken, or the request fails: if the form is still shown, its
\* button is enabled again.
SubmitFails(u, n) ==
  /\ n \in asked[u] /\ asked' = [asked EXCEPT ![u] = @ \ {n}]
  /\ enabled' = enabled \cup {v \in {u} : view[v] = "nickname"}
  /\ UNCHANGED <<serverVars, view, nick, creating, free, linkVars, sockVars>>

\* The answer "available" arrives, in whatever view the tab is by then:
\* state.myNickname = nickname, showLobby.
EnterLobby(u, n) ==
  /\ n \in free[u] /\ free' = [free EXCEPT ![u] = @ \ {n}]
  /\ nick' = [nick EXCEPT ![u] = n]
  /\ enabled' = enabled \ {u}
  /\ ShowLobby(u, n)
  /\ UNCHANGED <<serverVars, creating, asked, peer, sockVars>>

-----------------------------------------------------------------------------
(* The lobby stream (EventSource).                                         *)

\* The browser's request is accepted.
StreamOpens(u, s) ==
  /\ source[u] = "connecting"
  /\ OpenStream(s, sourceName[u])
  /\ source' = [source EXCEPT ![u] = "open"] /\ peer' = [peer EXCEPT ![s] = u]
  /\ UNCHANGED <<pageVars, sourceName, sockVars>>

\* It is refused: onmessage finds no prefix "error:" and takes the message for a
\* list; as the stream ends the browser will ask again.
StreamRefused(u) ==
  /\ source[u] = "connecting"
  /\ RefuseStream(sourceName[u])
  /\ UNCHANGED <<pageVars, linkVars, sockVars>>

\* The stream is lost, or cannot be established: the browser reconnects by
\* itself, or gives up.  The server does not know yet.
StreamLost(u, next) ==
  /\ source[u] = "open" \/ (source[u] = "connecting" /\ next = "closed")
  /\ source' = [source EXCEPT ![u] = next]
  /\ peer' = [s \in Stream |-> IF peer[s] = u THEN NoTab ELSE peer[s]]
  /\ UNCHANGED <<serverVars, pageVars, sourceName, sockVars>>

-----------------------------------------------------------------------------
(* The lobby and the rooms.                                                *)

\* A room is chosen from the list.
ChooseRoom(u, c) ==
  /\ view[u] = "lobby"
  /\ JoinRoom(u, c)
  /\ UNCHANGED <<serverVars, pageVars, linkVars, leaving, timers>>

\* A new room is asked for: await createRoom.  The button is disabled meanwhile.
CreateRoom(u) ==
  /\ view[u] = "lobby" /\ u \notin creating
  /\ creating' = creating \cup {u}
  /\ UNCHANGED <<serverVars, view, nick, formVars, linkVars, sockVars>>

\* The answer: join the room, whatever was done meanwhile; or an error message.
CreateAnswered(u) ==
  /\ u \in creating /\ creating' = creating \ {u}
  /\ \/ /\ \E c \in Conn : JoinRoom(u, c)
        /\ UNCHANGED <<leaving, timers>>
     \/ UNCHANGED sockVars
  /\ UNCHANGED <<serverVars, view, nick, formVars, linkVars>>

\* The server upgrades the connection of a tab that waits for it.
Upgrade(c) ==
  /\ ready[c] = "connecting"
  /\ ServeWS(c, sockName[c])
  /\ UNCHANGED <<pageVars, linkVars, sockVars>>

\* onopen.
SocketOpens(c) ==
  /\ ready[c] = "connecting" /\ connPc[c] # "idle"
  /\ ready' = [ready EXCEPT ![c] = "open"]
  /\ view' = [view EXCEPT ![owner[c]] = "chat"]
  /\ UNCHANGED <<serverVars, nick, creating, formVars, linkVars>>
  /\ UNCHANGED <<socket, owner, sockName, leaving, timers>>

\* What onclose leaves behind: a scheduled show-lobby event, or nothing.
ScheduleLobby(c) == timers' = timers \cup {c} /\ UNCHANGED owner
NothingToDo(c) == owner' = [owner EXCEPT ![c] = NoTab] /\ UNCHANGED timers

\* Seeded fault: onclose cares only for state.socket.
SocketCloses_OnlyCurrent(c) ==
  /\ ready[c] \in {"connecting", "open"} /\ owner[c] # NoTab
  /\ ready' = [ready EXCEPT ![c] = "closed"] /\ leaving' = leaving \ {c}
  /\ IF view[owner[c]] = "lobby" \/ socket[owner[c]] # c
     THEN NothingToDo(c) ELSE ScheduleLobby(c)
  /\ UNCHANGED <<serverVars, pageVars, linkVars, socket, sockName>>

\* onclose: the server has closed the connection or turned it away, or it is
\* lost.  In the lobby nothing is left to do.
SocketCloses(c) ==
  /\ ready[c] \in {"connecting", "open"} /\ owner[c] # NoTab
  /\ ready' = [ready EXCEPT ![c] = "closed"] /\ leaving' = leaving \ {c}
  /\ IF view[owner[c]] = "lobby" THEN NothingToDo(c) ELSE ScheduleLobby(c)
  /\ UNCHANGED <<serverVars, pageVars, linkVars, socket, sockName>>

\* The show-lobby event that onclose has scheduled.
TimerFires(c) ==
  /\ c \in timers /\ timers' = timers \ {c}
  /\ ShowLobby(owner[c], nick[owner[c]])
  /\ owner' = [owner EXCEPT ![c] = NoTab]
  /\ UNCHANGED <<serverVars, nick, creating, formVars, peer>>
  /\ UNCHANGED <<socket, ready, sockName, leaving>>

\* The Leave Room button: leave_room on the current socket, if it is open.
LeaveRoom(u) ==
  /\ view[u] = "chat"
  /\ leaving' = leaving \cup {c \in Conn : c = socket[u] /\ ready[c] = "open"}
  /\ ShowLobby(u, nick[u])
  /\ UNCHANGED <<serverVars, nick, creating, formVars, peer>>
  /\ UNCHANGED <<socket, owner, ready, sockName, timers>>

\* visibilitychange: a lobby without a stream gets one, a chat view whose
\* current socket is closed goes back to the lobby.
BecomesVisible(u) ==
  /\ \/ view[u] = "lobby" /\ source[u] = "closed"
     \/ view[u] = "chat" /\ \E c \in Conn : c = socket[u] /\ ready[c] = "closed"
  /\ ShowLobby(u, nick[u])
  /\ UNCHANGED <<serverVars, nick, creating, formVars, peer, sockVars>>

\* The tab is closed or reloaded: its connections and requests are dropped, its
\* script starts again.
Reload(u) ==
  /\ view' = [view EXCEPT ![u] = "nickname"] /\ nick' = [nick EXCEPT ![u] = NoName]
  /\ creating' = creating \ {u} /\ enabled' = enabled \ {u}
  /\ asked' = [asked EXCEPT ![u] = {}] /\ free' = [free EXCEPT ![u] = {}]
  /\ source' = [source EXCEPT ![u] = "none"]
  /\ sourceName' = [sourceName EXCEPT ![u] = NoName]
  /\ peer' = [s \in Stream |-> IF peer[s] = u THEN NoTab ELSE peer[s]]
  /\ socket' = [socket EXCEPT ![u] = NoConn]
  /\ ready' = [c \in Conn |-> IF owner[c] = u THEN "closed" ELSE ready[c]]
  /\ owner' = [c \in Conn |-> IF owner[c] = u THEN NoTab ELSE owner[c]]
  /\ timers' = {c \in timers : owner[c] # u}
  /\ leaving' = {c \in leaving : owner[c] # u}
  /\ UNCHANGED <<serverVars, sockName>>

-----------------------------------------------------------------------------
(* The server by itself.                                                   *)

\* Seeded fault: streamEvents waits for the next list only.
StreamEnds_NoContext(s) ==
  /\ EndStream(s) /\ peer[s] # NoTab
  /\ source' = [source EXCEPT ![peer[s]] = "connecting"]
  /\ peer' = [peer EXCEPT ![s] = NoTab]
  /\ UNCHANGED <<pageVars, sourceName, sockVars>>

\* A handler ends when its peer is gone.  It may take the peer for gone.
StreamEnds(s) ==
  /\ EndStream(s)
  /\ IF peer[s] = NoTab THEN UNCHANGED linkVars
     ELSE /\ source' = [source EXCEPT ![peer[s]] = "connecting"]
          /\ peer' = [peer EXCEPT ![s] = NoTab]
  /\ UNCHANGED <<pageVars, sourceName, sockVars>>

\* The other steps of the server do not touch the browser.
ServerStep ==
  /\ \/ \E s \in Stream : ReleaseStream(s)
     \/ \E c \in Conn : Register(c) \/ EndConn(c) \/ ReleaseConn(c)
  /\ UNCHANGED <<pageVars, linkVars, sockVars>>

-----------------------------------------------------------------------------
TabStep(u) ==
  \/ TypeNickname(u)
  \/ \E n \in Nickname : SubmitNickname(u, n) \/ AnswerFree(u, n) \/ SubmitFails(u, n)
                          \/ EnterLobby(u, n)
  \/ \E s \in Stream : StreamOpens(u, s)
  \/ StreamRefused(u)
  \/ \E next \in {"connecting", "closed"} : StreamLost(u, next)
  \/ \E c \in Conn : ChooseRoom(u, c)
  \/ CreateRoom(u) \/ CreateAnswered(u)
  \/ LeaveRoom(u) \/ BecomesVisible(u) \/ Reload(u)

SocketStep(c) == Upgrade(c) \/ SocketOpens(c) \/ SocketCloses(c) \/ TimerFires(c)

Next ==
  \/ \E u \in Tab : TabStep(u)
  \/ \E c \in Conn : SocketStep(c)
  \/ \E s \in Stream : StreamEnds(s)
  \/ ServerStep

Spec == Init /\ [][Next]_vars

-----------------------------------------------------------------------------
(* Fairness.  The goroutines of the server are scheduled.  A handler whose *)
(* peer is gone learns it (the request's context, a failed write, or TCP   *)
(* keepalive), a readPump too (the close frame, the read deadline), and it *)
(* reads a leave_room that was sent.  A browser runs the events it has     *)
(* queued, and an EventSource that is connecting asks again and again.     *)
(* Nothing is assumed of the network, nor that the tab is ever looked at;  *)
(* of the users only that they close the alerts that hold up a script.     *)

PeerIsGone(c) == ready[c] = "closed" \/ c \in leaving

ServerFairness ==
  /\ \A s \in Stream :
       /\ WF_vars(ReleaseStream(s) /\ ServerStep)
       /\ WF_vars(peer[s] = NoTab /\ StreamEnds(s))
  /\ \A c \in Conn :
       /\ WF_vars(ReleaseConn(c) /\ ServerStep)
       /\ WF_vars(PeerIsGone(c) /\ EndConn(c) /\ ServerStep)

BrowserFairness ==
  /\ \A u \in Tab : WF_vars(\E n \in Nickname : EnterLobby(u, n))
                    /\ WF_vars(\E s \in Stream : StreamOpens(u, s))
  /\ \A c \in Conn : WF_vars(TimerFires(c))

FairSpec == Spec /\ ServerFairness /\ BrowserFairness

-----------------------------------------------------------------------------
(* Safety.                                                                 *)

\* What a tab has before a nickname is accepted: nothing but the form.  What it
\* asks the server for afterwards it asks for with a nickname.
NicknameFirst ==
  /\ \A u \in Tab :
       /\ view[u] # "nickname" => nick[u] \in Nickname /\ sourceName[u] \in Nickname
       /\ view[u] = "nickname" => /\ source[u] = "none" /\ u \notin creating
                                  /\ \A s \in Stream : peer[s] # u
                                  /\ \A c \in Conn : owner[c] # u
  /\ \A c \in Conn : ready[c] # "none" => sockName[c] \in Nickname

\* Type correctness of the browsers' part; ServerTypeOK is the server's.
TypeOK ==
  /\ ServerTypeOK
  /\ view \in [Tab -> {"nickname", "lobby", "chat"}]
  /\ nick \in [Tab -> Nickname \cup {NoName}]
  /\ enabled \in SUBSET Tab /\ creating \in SUBSET Tab
  /\ asked \in [Tab -> SUBSET Nickname] /\ free \in [Tab -> SUBSET Nickname]
  /\ source \in [Tab -> {"none", "connecting", "open", "closed"}]
  /\ sourceName \in [Tab -> Nickname \cup {NoName}]
  /\ peer \in [Stream -> Tab \cup {NoTab}]
  /\ socket \in [Tab -> Conn \cup {NoConn}]
  /\ owner \in [Conn -> Tab \cup {NoTab}]
  /\ ready \in [Conn -> {"none", "connecting", "open", "closed"}]
  /\ sockName \in [Conn -> Nickname \cup {NoName}]
  /\ \A c \in Conn : /\ ready[c] \in {"connecting", "open"} => owner[c] \in Tab
                     /\ ready[c] = "none" => owner[c] = NoTab
  /\ leaving \in SUBSET Conn /\ timers \in SUBSET Conn
  /\ \A c \in timers : owner[c] \in Tab /\ ready[c] = "closed"
  /\ NicknameFirst

\* A tab has one lobby stream at most, and knows its state: showLobby, the
\* browser's own reconnection and visibilitychange never leave it with two.
OneStreamPerTab ==
  \A s, t \in Stream :
    peer[s] # NoTab => /\ source[peer[s]] = "open"
                       /\ peer[s] = peer[t] => s = t

\* A tab that shows a room has an open socket, or the event that takes it back
\* to the lobby is on its way: no order in which its sockets open and close, old
\* ones and new ones, leaves it in a room it has no connection to.
ChatIsConnected ==
  \A u \in Tab : view[u] = "chat" =>
    \E c \in Conn : owner[c] = u /\ (ready[c] = "open" \/ c \in timers)

-----------------------------------------------------------------------------
(* Liveness, of FairSpec.                                                  *)

\* The stream of a tab that asks for n, or has it.
Asks(u, n) == source[u] \in {"connecting", "open"} /\ sourceName[u] = n

\* The stream of another tab asks for the name that u's asks for.
Rival(u) == \E v \in Tab \ {u} : Asks(v, sourceName[u])

\* A tab that has entered the lobby comes to have a stream that has reserved the
\* name it was asked for, although the handler of the stream it lost may still
\* hold it, unless the browser has given up or another tab asks for the same.
LobbyServed ==
  \A u \in Tab :
    view[u] # "nickname" ~>
      \/ \E s \in Stream : /\ peer[s] = u /\ streamPc[s] = "open"
                            /\ streamName[s] = sourceName[u]
      \/ view[u] = "nickname" \/ source[u] = "closed" \/ Rival(u)

\* A nickname that no tab's stream asks for can be chosen again.  (A tab may show
\* one name and hold another: of two submissions the first to be answered opens
\* the stream, the last gives state.myNickname.)
NamesComeFree ==
  \A n \in Nickname :
    (\A u \in Tab : ~Asks(u, n)) ~> (IsNicknameAvailable(n) \/ \E u \in Tab : Asks(u, n))

-----------------------------------------------------------------------------
(* What the comments and the README say, and the code does not do.         *)

\* "HubManager manages all chat rooms (Hubs) and global nickname uniqueness"
\* (hub_manager.go), which the README promises for the whole application: no two
\* tabs use one nickname over streams that the server has accepted.
UniqueNickname ==
  \A s, t \in Stream :
    /\ peer[s] # NoTab /\ peer[t] # NoTab /\ peer[s] # peer[t]
    /\ streamPc[s] = "open" /\ streamPc[t] = "open"
    => streamName[s] # streamName[t]
=============================================================================
