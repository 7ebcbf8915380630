---------------------------- MODULE SessionProofs ----------------------------
(***************************************************************************)
(* Theorems about Session, for every number of tabs, streams, connections  *)
(* and nicknames: type correctness, that the browsers are callers of the   *)
(* server as module Nicknames has it, so that what is proved there holds   *)
(* here, and the safety properties of the page.                            *)
(***************************************************************************)
EXTENDS Session, NicknamesProofs

(* The server's part of every step.                                        *)

\* Whatever the browsers do is a step of the server, or none: it is asked for a
\* stream or a connection only with a nickname (connectLobbyStream, joinRoom).
LEMMA StepOfServer ==
  ASSUME TypeOK, [Next]_vars
  PROVE  [ServerNext]_serverVars
<1> USE SessionAssumption DEF SessionAssumption
<1>1. ASSUME NEW u \in Tab, TabStep(u)
      PROVE  [ServerNext]_serverVars
  <2>1. ASSUME NEW s \in Stream, StreamOpens(u, s)
        PROVE  [ServerNext]_serverVars
    <3>1. sourceName[u] \in Nickname
      BY <2>1 DEF TypeOK, NicknameFirst, StreamOpens
    <3> QED BY <2>1, <3>1 DEF StreamOpens, ServerNext
  <2>2. CASE ~\E s \in Stream : StreamOpens(u, s)
    BY <1>1, <2>2
    DEF TabStep, TypeNickname, SubmitNickname, AnswerFree, SubmitFails, EnterLobby,
        StreamRefused, RefuseStream, StreamLost, ChooseRoom, CreateRoom, CreateAnswered, LeaveRoom,
        BecomesVisible, Reload
  <2> QED BY <2>1, <2>2
<1>2. ASSUME NEW c \in Conn, SocketStep(c)
      PROVE  [ServerNext]_serverVars
  <2>1. CASE Upgrade(c)
    <3>1. sockName[c] \in Nickname
      BY <2>1 DEF TypeOK, NicknameFirst, Upgrade
    <3> QED BY <2>1, <3>1 DEF Upgrade, ServerNext
  <2>2. CASE SocketOpens(c) \/ SocketCloses(c) \/ TimerFires(c)
    BY <2>2 DEF SocketOpens, SocketCloses, TimerFires
  <2> QED BY <1>2, <2>1, <2>2 DEF SocketStep
<1>3. CASE (\E s \in Stream : StreamEnds(s)) \/ ServerStep
  BY <1>3 DEF StreamEnds, ServerStep, ServerNext
<1>4. CASE UNCHANGED vars
  BY <1>4 DEF vars
<1> QED BY <1>1, <1>2, <1>3, <1>4 DEF Next

-----------------------------------------------------------------------------
(* Type correctness.                                                       *)

LEMMA TypeInit == Init => TypeOK
<1> SUFFICES ASSUME Init
             PROVE  TypeOK
  OBVIOUS
<1>1. ServerTypeOK
  BY ServerTypeInit DEF Init
<1> QED BY <1>1, SessionAssumption DEF SessionAssumption, Init, TypeOK, NicknameFirst

\* A new socket of a tab that has a nickname.
LEMMA TypeJoinRoom ==
  ASSUME TypeOK, NEW u \in Tab, NEW c \in Conn, nick[u] \in Nickname, JoinRoom(u, c)
  PROVE  /\ socket' \in [Tab -> Conn \cup {NoConn}]
         /\ owner' \in [Conn -> Tab \cup {NoTab}]
         /\ ready' \in [Conn -> {"none", "connecting", "open", "closed"}]
         /\ sockName' \in [Conn -> Nickname \cup {NoName}]
         /\ \A d \in Conn : ready'[d] # "none" => sockName'[d] \in Nickname
         /\ \A d \in Conn : ready'[d] \in {"connecting", "open"} => owner'[d] \in Tab
         /\ \A d \in Conn : ready'[d] = "none" => owner'[d] = NoTab
         /\ \A d \in timers : owner'[d] \in Tab /\ ready'[d] = "closed"
         /\ \A d \in Conn : owner'[d] \in {owner[d], u}
BY DEF TypeOK, NicknameFirst, JoinRoom

LEMMA TypeTab ==
  ASSUME TypeOK, ServerTypeOK', NEW u \in Tab, TabStep(u)
  PROVE  TypeOK'
<1> USE SessionAssumption DEF SessionAssumption, TypeOK, NicknameFirst
<1>1. CASE \/ TypeNickname(u)
           \/ \E n \in Nickname : SubmitNickname(u, n) \/ AnswerFree(u, n) \/ SubmitFails(u, n)
  BY <1>1
  DEF TypeNickname, SubmitNickname, AnswerFree, SubmitFails, linkVars, sockVars
<1>2. CASE LeaveRoom(u) \/ BecomesVisible(u) \/ \E n \in Nickname : EnterLobby(u, n)
  BY <1>2
  DEF EnterLobby, LeaveRoom, BecomesVisible, ShowLobby, ConnectLobbyStream, formVars,
      sockVars
<1>3. CASE (\E s \in Stream : StreamOpens(u, s)) \/ StreamRefused(u)
  BY <1>3 DEF StreamOpens, StreamRefused, pageVars, formVars, linkVars, sockVars
<1>4. CASE \E next \in {"connecting", "closed"} : StreamLost(u, next)
  BY <1>4 DEF StreamLost, pageVars, formVars, sockVars
<1>5. CASE \E c \in Conn : ChooseRoom(u, c)
  <2>1. PICK c \in Conn : ChooseRoom(u, c)
    BY <1>5
  <2>2. JoinRoom(u, c) /\ nick[u] \in Nickname
    BY <2>1 DEF ChooseRoom
  <2> HIDE DEF TypeOK
  <2>3. /\ socket' \in [Tab -> Conn \cup {NoConn}]
        /\ owner' \in [Conn -> Tab \cup {NoTab}]
        /\ ready' \in [Conn -> {"none", "connecting", "open", "closed"}]
        /\ sockName' \in [Conn -> Nickname \cup {NoName}]
        /\ \A d \in Conn : ready'[d] # "none" => sockName'[d] \in Nickname
        /\ \A d \in Conn : ready'[d] \in {"connecting", "open"} => owner'[d] \in Tab
        /\ \A d \in Conn : ready'[d] = "none" => owner'[d] = NoTab
        /\ \A d \in timers : owner'[d] \in Tab /\ ready'[d] = "closed"
        /\ \A d \in Conn : owner'[d] \in {owner[d], u}
    BY <2>2, TypeJoinRoom
  <2> QED BY <2>1, <2>3 DEF TypeOK, NicknameFirst, ChooseRoom, pageVars, formVars, linkVars
<1>6. CASE CreateRoom(u)
  BY <1>6 DEF CreateRoom, formVars, linkVars, sockVars
<1>7. CASE CreateAnswered(u)
  <2>1. CASE UNCHANGED sockVars
    BY <1>7, <2>1 DEF CreateAnswered, formVars, linkVars, sockVars
  <2>2. ASSUME NEW c \in Conn, JoinRoom(u, c), UNCHANGED <<leaving, timers>>
        PROVE  TypeOK'
    <3> HIDE DEF TypeOK
    <3>1. /\ socket' \in [Tab -> Conn \cup {NoConn}]
          /\ owner' \in [Conn -> Tab \cup {NoTab}]
          /\ ready' \in [Conn -> {"none", "connecting", "open", "closed"}]
          /\ sockName' \in [Conn -> Nickname \cup {NoName}]
          /\ \A d \in Conn : ready'[d] # "none" => sockName'[d] \in Nickname
          /\ \A d \in Conn : ready'[d] \in {"connecting", "open"} => owner'[d] \in Tab
          /\ \A d \in Conn : ready'[d] = "none" => owner'[d] = NoTab
          /\ \A d \in timers : owner'[d] \in Tab /\ ready'[d] = "closed"
          /\ \A d \in Conn : owner'[d] \in {owner[d], u}
      BY <1>7, <2>2, TypeJoinRoom DEF TypeOK, NicknameFirst, CreateAnswered
    <3> QED BY <1>7, <2>2, <3>1 DEF TypeOK, NicknameFirst, CreateAnswered, formVars, linkVars
  <2> QED BY <1>7, <2>1, <2>2 DEF CreateAnswered
<1>8. CASE Reload(u)
  BY <1>8 DEF Reload
<1> QED BY <1>1, <1>2, <1>3, <1>4, <1>5, <1>6, <1>7, <1>8 DEF TabStep

LEMMA TypeSocket ==
  ASSUME TypeOK, ServerTypeOK', NEW c \in Conn, SocketStep(c)
  PROVE  TypeOK'
<1> USE SessionAssumption DEF SessionAssumption, TypeOK, NicknameFirst
<1>1. CASE Upgrade(c)
  BY <1>1 DEF Upgrade, pageVars, formVars, linkVars, sockVars
<1>2. CASE SocketOpens(c)
  BY <1>2 DEF SocketOpens, formVars, linkVars
<1>3. CASE SocketCloses(c)
  BY <1>3 DEF SocketCloses, ScheduleLobby, NothingToDo, pageVars, formVars, linkVars
<1>4. CASE TimerFires(c)
  BY <1>4 DEF TimerFires, ShowLobby, ConnectLobbyStream, formVars
<1> QED BY <1>1, <1>2, <1>3, <1>4 DEF SocketStep

LEMMA TypeNext == TypeOK /\ [Next]_vars => TypeOK'
<1> SUFFICES ASSUME TypeOK, [Next]_vars
             PROVE  TypeOK'
  OBVIOUS
<1>1. ServerTypeOK'
  BY StepOfServer, ServerTypeNext DEF TypeOK
<1>2. ASSUME NEW s \in Stream, StreamEnds(s)
      PROVE  TypeOK'
  <2>1. UNCHANGED <<pageVars, sockVars>>
    BY <1>2 DEF StreamEnds
  <2>2. CASE peer[s] = NoTab
    BY <1>1, <1>2, <2>1, <2>2
    DEF TypeOK, NicknameFirst, StreamEnds, pageVars, formVars, linkVars, sockVars
  <2>3. CASE peer[s] # NoTab
    <3>1. /\ peer[s] \in Tab
          /\ source' = [source EXCEPT ![peer[s]] = "connecting"]
          /\ peer' = [peer EXCEPT ![s] = NoTab]
          /\ UNCHANGED sourceName
      BY <1>2, <2>3 DEF TypeOK, StreamEnds
    <3>2. view[peer[s]] # "nickname" /\ sourceName[peer[s]] \in Nickname
      BY <3>1 DEF TypeOK, NicknameFirst
    <3>3. /\ source' \in [Tab -> {"none", "connecting", "open", "closed"}]
          /\ peer' \in [Stream -> Tab \cup {NoTab}]
      BY <3>1 DEF TypeOK
    <3>4. NicknameFirst'
      BY <2>1, <3>1, <3>2, SessionAssumption
      DEF SessionAssumption, TypeOK, NicknameFirst, pageVars, formVars, sockVars
    <3> QED BY <1>1, <2>1, <3>1, <3>3, <3>4 DEF TypeOK, pageVars, formVars, sockVars
  <2> QED BY <2>2, <2>3
<1>3. CASE ServerStep \/ UNCHANGED vars
  <2>1. UNCHANGED <<pageVars, linkVars, sockVars>>
    BY <1>3 DEF ServerStep, vars
  <2> QED BY <1>1, <2>1 DEF TypeOK, NicknameFirst, pageVars, formVars, linkVars, sockVars
<1> QED BY <1>1, <1>2, <1>3, TypeTab, TypeSocket DEF Next

\* The variables keep their types, and a tab has no stream, no socket and no
\* request before the form has given it a nickname (handleNicknameSubmit).
THEOREM SessionTypeCorrect == Spec => []TypeOK
<1> QED BY TypeInit, TypeNext, PTL DEF Spec

\* The browsers and the server together implement the server with any callers,
\* so no nickname is locked forever and only readPump breaks their uniqueness.
THEOREM SessionImplementsServer ==
  Spec => ServerSpec /\ []NoNameLeaked /\ []ReservationExact
<1>1. Init => ServerInit
  BY DEF Init
<1>2. TypeOK /\ [Next]_vars => [ServerNext]_serverVars
  BY StepOfServer
<1>3. Spec => ServerSpec
  BY <1>1, <1>2, SessionTypeCorrect, PTL DEF Spec, ServerSpec
<1> QED BY <1>3, NamesHeld, ReservationsExact

-----------------------------------------------------------------------------
(* The page.                                                               *)

LEMMA StreamNext ==
  TypeOK /\ OneStreamPerTab /\ [Next]_vars => OneStreamPerTab'
<1> SUFFICES ASSUME TypeOK, OneStreamPerTab, [Next]_vars
             PROVE  OneStreamPerTab'
  OBVIOUS
<1> USE SessionAssumption DEF SessionAssumption, TypeOK, OneStreamPerTab
<1>1. ASSUME NEW u \in Tab, TabStep(u)
      PROVE  OneStreamPerTab'
  <2>1. CASE LeaveRoom(u) \/ BecomesVisible(u) \/ \E n \in Nickname : EnterLobby(u, n)
    BY <2>1 DEF EnterLobby, LeaveRoom, BecomesVisible, ShowLobby, ConnectLobbyStream
  <2>2. CASE \E s \in Stream : StreamOpens(u, s)
    BY <2>2 DEF StreamOpens
  <2>3. CASE Reload(u) \/ \E next \in {"connecting", "closed"} : StreamLost(u, next)
    BY <2>3 DEF Reload, StreamLost
  <2>4. CASE \/ TypeNickname(u)
             \/ (\E n \in Nickname :
                   SubmitNickname(u, n) \/ AnswerFree(u, n) \/ SubmitFails(u, n))
             \/ StreamRefused(u) \/ (\E c \in Conn : ChooseRoom(u, c))
             \/ CreateRoom(u) \/ CreateAnswered(u)
    BY <2>4 DEF TypeNickname, SubmitNickname, AnswerFree, SubmitFails, StreamRefused,
                ChooseRoom, CreateRoom, CreateAnswered, linkVars
  <2> QED BY <1>1, <2>1, <2>2, <2>3, <2>4 DEF TabStep
<1>2. ASSUME NEW c \in Conn, SocketStep(c)
      PROVE  OneStreamPerTab'
  BY <1>2 DEF SocketStep, Upgrade, SocketOpens, SocketCloses, TimerFires, ShowLobby,
              ConnectLobbyStream, linkVars
<1>3. CASE (\E s \in Stream : StreamEnds(s)) \/ ServerStep \/ UNCHANGED vars
  BY <1>3 DEF StreamEnds, ServerStep, vars, linkVars
<1> QED BY <1>1, <1>2, <1>3 DEF Next

\* A tab never has two lobby streams: connectLobbyStream keeps the one it finds,
\* and the browser reconnects only after it has lost it.
THEOREM StreamsUnique == Spec => []OneStreamPerTab
<1>1. Init => OneStreamPerTab
  BY DEF Init, OneStreamPerTab
<1> QED BY <1>1, StreamNext, SessionTypeCorrect, PTL DEF Spec

LEMMA ChatNext ==
  TypeOK /\ ChatIsConnected /\ [Next]_vars => ChatIsConnected'
<1> SUFFICES ASSUME TypeOK, ChatIsConnected, [Next]_vars,
                    NEW v \in Tab, view'[v] = "chat"
             PROVE  \E d \in Conn : owner'[d] = v /\ (ready'[d] = "open" \/ d \in timers')
  BY DEF ChatIsConnected
<1> USE SessionAssumption DEF SessionAssumption, TypeOK
<1>1. view[v] = "chat" =>
        \E d \in Conn : owner[d] = v /\ (ready[d] = "open" \/ d \in timers)
  BY DEF ChatIsConnected
<1>2. ASSUME NEW u \in Tab, TabStep(u)
      PROVE  \E d \in Conn : owner'[d] = v /\ (ready'[d] = "open" \/ d \in timers')
  <2>1. CASE LeaveRoom(u) \/ BecomesVisible(u) \/ \E n \in Nickname : EnterLobby(u, n)
    BY <1>1, <2>1 DEF EnterLobby, LeaveRoom, BecomesVisible, ShowLobby, sockVars
  <2>2. ASSUME NEW c \in Conn, JoinRoom(u, c), UNCHANGED <<view, timers>>
        PROVE  \E d \in Conn : owner'[d] = v /\ (ready'[d] = "open" \/ d \in timers')
    BY <1>1, <2>2 DEF JoinRoom
  <2>3. CASE Reload(u)
    BY <1>1, <2>3 DEF Reload
  <2>4. CASE \/ TypeNickname(u)
             \/ (\E n \in Nickname :
                   SubmitNickname(u, n) \/ AnswerFree(u, n) \/ SubmitFails(u, n))
             \/ (\E s \in Stream : StreamOpens(u, s)) \/ StreamRefused(u)
             \/ (\E next \in {"connecting", "closed"} : StreamLost(u, next))
             \/ CreateRoom(u)
    BY <1>1, <2>4 DEF TypeNickname, SubmitNickname, AnswerFree, SubmitFails, StreamOpens,
                      StreamRefused, StreamLost, CreateRoom, pageVars, sockVars
  <2> QED BY <1>1, <1>2, <2>1, <2>2, <2>3, <2>4
          DEF TabStep, ChooseRoom, CreateAnswered, pageVars, sockVars
<1>3. ASSUME NEW c \in Conn, SocketStep(c)
      PROVE  \E d \in Conn : owner'[d] = v /\ (ready'[d] = "open" \/ d \in timers')
  <2>1. CASE Upgrade(c)
    BY <1>1, <2>1 DEF Upgrade, pageVars, sockVars
  <2>2. CASE SocketOpens(c)
    BY <1>1, <2>2 DEF SocketOpens
  <2>3. CASE SocketCloses(c)
    BY <1>1, <2>3 DEF SocketCloses, ScheduleLobby, NothingToDo, pageVars
  <2>4. CASE TimerFires(c)
    BY <1>1, <2>4 DEF TimerFires, ShowLobby
  <2> QED BY <1>3, <2>1, <2>2, <2>3, <2>4 DEF SocketStep
<1>4. CASE (\E s \in Stream : StreamEnds(s)) \/ ServerStep \/ UNCHANGED vars
  BY <1>1, <1>4 DEF StreamEnds, ServerStep, vars, pageVars, sockVars
<1> QED BY <1>2, <1>3, <1>4 DEF Next

\* A tab that shows a room has an open socket or is about to go back to the
\* lobby, in whatever order its sockets open and close (onclose in websocket.js).
THEOREM ChatsConnected == Spec => []ChatIsConnected
<1>1. Init => ChatIsConnected
  BY DEF Init, ChatIsConnected
<1> QED BY <1>1, ChatNext, SessionTypeCorrect, PTL DEF Spec

-----------------------------------------------------------------------------
(* Who uses which nickname.                                                *)

\* The handler at the other end of a tab's stream knows the name in the URL of
\* the tab's EventSource; a socket that no tab has asked for has no handler.
PeersAgree ==
  /\ \A c \in Conn : ready[c] = "none" => connPc[c] = "idle"
  /\ \A s \in Stream : peer[s] # NoTab =>
       streamPc[s] = "open" /\ streamName[s] = sourceName[peer[s]]
  /\ \A c \in Conn : connPc[c] # "idle" => connName[c] = sockName[c]

LEMMA AgreeServer ==
  ASSUME TypeOK, PeersAgree, (\E s \in Stream : StreamEnds(s)) \/ ServerStep
  PROVE  PeersAgree'
<1> USE SessionAssumption
    DEF SessionAssumption, TypeOK, ServerTypeOK, PeersAgree, linkVars, sockVars
<1>1. ASSUME NEW s \in Stream, StreamEnds(s)
      PROVE  PeersAgree'
  BY <1>1 DEF StreamEnds, EndStream
<1>2. ASSUME NEW s \in Stream, ReleaseStream(s), UNCHANGED <<pageVars, linkVars, sockVars>>
      PROVE  PeersAgree'
  BY <1>2 DEF ReleaseStream
<1>3. ASSUME NEW c \in Conn, Register(c) \/ EndConn(c) \/ ReleaseConn(c),
             UNCHANGED <<pageVars, linkVars, sockVars>>
      PROVE  PeersAgree'
  BY <1>3 DEF Register, EndConn, ReleaseConn
<1> QED BY <1>1, <1>2, <1>3 DEF ServerStep

LEMMA AgreeTab ==
  ASSUME TypeOK, OneStreamPerTab, PeersAgree, NEW u \in Tab, TabStep(u)
  PROVE  PeersAgree'
<1> USE SessionAssumption
    DEF SessionAssumption, TypeOK, ServerTypeOK, NicknameFirst, OneStreamPerTab,
        PeersAgree, serverVars, linkVars, sockVars
<1>1. CASE \/ TypeNickname(u) \/ CreateRoom(u)
           \/ \E n \in Nickname : SubmitNickname(u, n) \/ AnswerFree(u, n) \/ SubmitFails(u, n)
  BY <1>1 DEF TypeNickname, SubmitNickname, AnswerFree, SubmitFails, CreateRoom
<1>2. CASE LeaveRoom(u) \/ BecomesVisible(u) \/ \E n \in Nickname : EnterLobby(u, n)
  BY <1>2 DEF EnterLobby, LeaveRoom, BecomesVisible, ShowLobby, ConnectLobbyStream
<1>3. CASE \E s \in Stream : StreamOpens(u, s)
  BY <1>3 DEF StreamOpens, OpenStream
<1>4. CASE StreamRefused(u) \/ \E next \in {"connecting", "closed"} : StreamLost(u, next)
  BY <1>4 DEF StreamRefused, RefuseStream, StreamLost
<1>5. CASE CreateAnswered(u) \/ \E c \in Conn : ChooseRoom(u, c)
  BY <1>5 DEF CreateAnswered, ChooseRoom, JoinRoom
<1>6. CASE Reload(u)
  BY <1>6 DEF Reload
<1> QED BY <1>1, <1>2, <1>3, <1>4, <1>5, <1>6 DEF TabStep

LEMMA AgreeSocket ==
  ASSUME TypeOK, OneStreamPerTab, PeersAgree, NEW c \in Conn, SocketStep(c)
  PROVE  PeersAgree'
<1> USE SessionAssumption
    DEF SessionAssumption, TypeOK, ServerTypeOK, OneStreamPerTab, PeersAgree, serverVars,
        linkVars, sockVars
<1>1. CASE Upgrade(c)
  BY <1>1 DEF Upgrade, ServeWS
<1>2. CASE SocketOpens(c) \/ SocketCloses(c) \/ TimerFires(c)
  BY <1>2 DEF SocketOpens, SocketCloses, ScheduleLobby, NothingToDo, TimerFires, ShowLobby,
              ConnectLobbyStream
<1> QED BY <1>1, <1>2 DEF SocketStep

LEMMA NamesAgree == Spec => []PeersAgree
<1>1. Init => PeersAgree
  BY DEF Init, ServerInit, PeersAgree
<1>2. TypeOK /\ OneStreamPerTab /\ PeersAgree /\ [Next]_vars => PeersAgree'
  <2>1. TypeOK /\ PeersAgree /\ UNCHANGED vars => PeersAgree'
    BY DEF PeersAgree, vars, serverVars, linkVars, sockVars
  <2> QED BY <2>1, AgreeServer, AgreeTab, AgreeSocket DEF Next
<1> QED BY <1>1, <1>2, SessionTypeCorrect, StreamsUnique, PTL DEF Spec

\* Two tabs whose open lobby streams were asked for with one name have it only
\* after a readPump has released it, which never reserved it: without the
\* RemoveNickname of readPump the names of streams are as unique as
\* hub_manager.go promises.  (state.myNickname need not be the stream's name:
\* submissions of the form may overlap.)
THEOREM OnlyPumpsBreakUniqueness ==
  Spec => [](\A s, t \in Stream :
               /\ peer[s] # NoTab /\ peer[t] # NoTab /\ peer[s] # peer[t]
               /\ sourceName[peer[s]] = sourceName[peer[t]]
               => FreedByPump(sourceName[peer[s]]))
<1>1. TypeOK /\ PeersAgree /\ ReservationExact =>
        \A s, t \in Stream :
          /\ peer[s] # NoTab /\ peer[t] # NoTab /\ peer[s] # peer[t]
          /\ sourceName[peer[s]] = sourceName[peer[t]]
          => FreedByPump(sourceName[peer[s]])
  BY DEF TypeOK, ServerTypeOK, PeersAgree, ReservationExact, Holders
<1> QED BY <1>1, SessionTypeCorrect, NamesAgree, SessionImplementsServer, PTL

\* Until a readPump has returned no two tabs share a nickname, whatever the tabs
\* reload, lose and open again.
THEOREM UniqueUntilPumpReturns ==
  Spec => []((\A c \in Conn : connPc[c] # "closed") => UniqueNickname)
<1>1. TypeOK /\ ReservationExact =>
        ((\A c \in Conn : connPc[c] # "closed") => UniqueNickname)
  BY DEF TypeOK, ServerTypeOK, ReservationExact, Holders, FreedByPump, UniqueNickname
<1> QED BY <1>1, SessionTypeCorrect, SessionImplementsServer, PTL
=============================================================================
