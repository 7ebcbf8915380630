----------------------------- MODULE LobbyProofs -----------------------------
(***************************************************************************)
(* Theorems about Lobby, for every number of streams and of changes and    *)
(* every capacity of the channels: type correctness, that no change is     *)
(* lost on the way to a page, and in which order a page shows the lists.   *)
(***************************************************************************)
EXTENDS Lobby, SequenceTheorems, TLAPS

(* Type correctness.                                                       *)

LEMMA CountType == TypeOK => Count \in Version /\ Current(Count) /\ Count <= version
BY LobbyAssumption DEF LobbyAssumption, TypeOK, Version, Count, Current

LEMMA TypeInit == Init => TypeOK
<1> SUFFICES ASSUME Init
             PROVE  TypeOK
  OBVIOUS
<1>1. 0 \in Version /\ 1 \in Version
  BY LobbyAssumption DEF LobbyAssumption, Version
<1>2. <<>> \in Seq(Version) /\ Len(<<>>) <= ChanCap
  BY LobbyAssumption DEF LobbyAssumption
<1>3. /\ streamPc \in [Stream -> StreamPc]
      /\ clientChan \in [Stream -> Seq(Version)]
      /\ hand \in [Stream -> Version] /\ shown \in [Stream -> Version]
      /\ own \in [Stream -> BOOLEAN] /\ missed \in [Stream -> BOOLEAN]
  BY <1>1, <1>2 DEF Init, StreamPc
<1>4. version \in Version \ {0} /\ list \in Version
  BY <1>1 DEF Init
<1>5. \A s \in Stream : clientChan[s] = <<>> /\ shown[s] = 0
  BY DEF Init
<1> QED BY <1>2, <1>3, <1>4, <1>5 DEF Init, TypeOK, HubPc, LobbyPc

LEMMA TypeRoutine ==
  ASSUME TypeOK, HubStep \/ LobbyRoutine \/ Shutdown
  PROVE  TypeOK'
<1> USE LobbyAssumption DEF LobbyAssumption, HubPc, LobbyPc, StreamPc
<1>1. CASE Change
  BY <1>1 DEF TypeOK, Version, Change, routine, streams
<1>2. CASE Notify \/ Relay \/ Select
  BY <1>2 DEF TypeOK, Notify, Relay, Select, routine, streams
<1>3. CASE TakeUpdate \/ ListRooms \/ Lock
  BY <1>3, CountType DEF TypeOK, TakeUpdate, ListRooms, Lock, hub, streams
<1>4. CASE Broadcast
  <2>1. clientChan' \in [Stream -> Seq(Version)]
    BY <1>4 DEF TypeOK, Broadcast
  <2>2. ASSUME NEW s \in Stream
        PROVE  Len(clientChan'[s]) <= ChanCap
    BY <1>4 DEF TypeOK, Broadcast
  <2>3. \A s \in Stream : streamPc[s] = "off" => clientChan'[s] = <<>>
    BY <1>4 DEF TypeOK, Broadcast, LobbyClients
  <2>4. missed' \in [Stream -> BOOLEAN]
    BY <1>4 DEF TypeOK, Broadcast
  <2>5. list' \in Version
    BY <1>4 DEF Broadcast, Version
  <2> QED BY <1>4, <2>1, <2>2, <2>3, <2>4, <2>5 DEF TypeOK, Broadcast, hub
<1>5. CASE Shutdown
  BY <1>5 DEF TypeOK, Shutdown, hub, routine, streams
<1> QED BY <1>1, <1>2, <1>3, <1>4, <1>5 DEF HubStep, LobbyRoutine

LEMMA TypeStream ==
  ASSUME TypeOK, NEW s \in Stream, StreamEvents(s)
  PROVE  TypeOK'
<1> USE LobbyAssumption DEF LobbyAssumption, TypeOK, StreamPc
<1>1. 0 \in Version
  BY DEF Version
<1>2. CASE RegisterLobbyClient(s) \/ WriteFails(s) \/ PeerGone(s)
  BY <1>2 DEF RegisterLobbyClient, WriteFails, PeerGone, hub, routine
<1>3. CASE FirstList(s)
  BY <1>3, CountType DEF FirstList, hub, routine
<1>4. CASE Receive(s)
  <2>1. /\ Head(clientChan[s]) \in Version /\ Tail(clientChan[s]) \in Seq(Version)
        /\ Len(Tail(clientChan[s])) <= ChanCap
    BY <1>4 DEF Receive
  <2> QED BY <1>4, <2>1 DEF Receive, hub, routine
<1>5. CASE SendSseMessage(s)
  BY <1>1, <1>5 DEF SendSseMessage, hub, routine
<1>6. CASE UnregisterLobbyClient(s)
  BY <1>1, <1>6 DEF UnregisterLobbyClient, hub, routine
<1> QED BY <1>2, <1>3, <1>4, <1>5, <1>6 DEF StreamEvents

LEMMA TypeNext == TypeOK /\ [Next]_vars => TypeOK'
<1>1. TypeOK /\ UNCHANGED vars => TypeOK'
  BY DEF TypeOK, vars, hub, routine, streams
<1> QED BY <1>1, TypeRoutine, TypeStream DEF Next

\* The variables keep their types; in particular no send to a lobby client ever
\* needs more room than its channel has.
THEOREM TypeCorrect == Spec => []TypeOK
<1> QED BY TypeInit, TypeNext, PTL DEF Spec

-----------------------------------------------------------------------------
(* Nothing is lost.                                                        *)

LEMMA LostInit == Init => NothingLost
BY DEF Init, NothingLost, ListCurrent, StreamsCurrent, Served

\* The hub and the lobby routine.
LEMMA LostRoutine ==
  ASSUME TypeOK, NothingLost, HubStep \/ LobbyRoutine \/ Shutdown
  PROVE  NothingLost'
<1> USE DEF NothingLost, ListCurrent, StreamsCurrent, Quiet
<1>1. CASE Change \/ Notify
  BY <1>1 DEF Change, Notify
<1>2. CASE Relay \/ Select \/ Shutdown
  BY <1>2 DEF Relay, Select, Shutdown, hub, routine, streams, Current, Served, Newest
<1>3. CASE TakeUpdate
  BY <1>3 DEF TakeUpdate
<1>4. CASE ListRooms
  BY <1>4, CountType DEF ListRooms, hub, Current
<1>5. CASE Lock
  BY <1>5 DEF Lock, hub, Current
<1>6. CASE Broadcast
  <2>1. ASSUME Quiet, NEW s \in Stream, Served(s)'
        PROVE  Current(Newest(s))' \/ missed'[s]
    <3>1. s \in LobbyClients
      BY <1>6, <2>1 DEF Broadcast, Served, LobbyClients
    <3>2. CASE Len(clientChan[s]) < ChanCap
      <4>1. clientChan'[s] = Append(clientChan[s], list)
        BY <1>6, <3>1, <3>2 DEF Broadcast
      <4>2. clientChan'[s] # <<>> /\ clientChan'[s][Len(clientChan'[s])] = list
        <5>1. clientChan[s] \in Seq(Version) /\ list \in Version
          BY DEF TypeOK
        <5> QED BY <4>1, <5>1
      <4>3. Current(list)
        BY <1>6, <2>1 DEF Broadcast
      <4> QED BY <1>6, <4>2, <4>3 DEF Broadcast, hub, Newest, Current
    <3>3. CASE ~(Len(clientChan[s]) < ChanCap)
      BY <1>6, <3>1, <3>3 DEF Broadcast
    <3> QED BY <3>2, <3>3
  <2> QED BY <1>6, <2>1 DEF Broadcast, hub
<1> QED BY <1>1, <1>2, <1>3, <1>4, <1>5, <1>6 DEF HubStep, LobbyRoutine

\* What a channel that held a list holds after a receive.
LEMMA TailOfChannel ==
  ASSUME NEW S, NEW q \in Seq(S), q # <<>>
  PROVE  /\ Head(q) = q[1]
         /\ Len(q) = 1 => Tail(q) = <<>>
         /\ Len(q) # 1 => Tail(q) # <<>> /\ Tail(q)[Len(Tail(q))] = q[Len(q)]
<1>1. /\ Len(q) \in Nat \ {0} /\ Tail(q) \in Seq(S) /\ Len(Tail(q)) = Len(q) - 1
      /\ \A i \in 1 .. Len(Tail(q)) : Tail(q)[i] = q[i + 1]
  BY EmptySeq, HeadTailProperties
<1>2. Len(q) = 1 => Tail(q) = <<>>
  <2>1. Len(q) = 1 => Len(Tail(q)) = 0
    BY <1>1
  <2>2. Tail(q) # <<>> => Len(Tail(q)) # 0
    BY <1>1, EmptySeq
  <2> QED BY <2>1, <2>2
<1>3. ASSUME Len(q) # 1
      PROVE  Tail(q) # <<>> /\ Tail(q)[Len(Tail(q))] = q[Len(q)]
  <2>1. Len(Tail(q)) \in 1 .. Len(Tail(q))
    BY <1>1, <1>3
  <2>2. Len(Tail(q)) + 1 = Len(q)
    BY <1>1
  <2>3. Tail(q) # <<>>
    <3>1. Tail(q) = <<>> => Len(Tail(q)) = 0
      BY EmptySeq
    <3>2. Len(Tail(q)) # 0
      BY <1>1, <1>3
    <3> QED BY <3>1, <3>2
  <2> QED BY <1>1, <2>1, <2>2, <2>3
<1>4. Head(q) = q[1]
  BY <1>1
<1> QED BY <1>2, <1>3, <1>4

\* A stream that takes a list out of its channel keeps the newest.
LEMMA NewestStays ==
  ASSUME TypeOK, NEW s \in Stream, Receive(s) \/ SendSseMessage(s)
  PROVE  Newest(s)' = Newest(s) /\ Served(s)
<1> USE DEF TypeOK, Newest, Served
<1>1. CASE Receive(s)
  <2>1. /\ streamPc'[s] = "write" /\ hand'[s] = Head(clientChan[s])
        /\ clientChan'[s] = Tail(clientChan[s]) /\ clientChan[s] # <<>>
    BY <1>1 DEF Receive
  <2>2. CASE Len(clientChan[s]) = 1
    BY <1>1, <2>1, <2>2, TailOfChannel DEF Receive
  <2>3. CASE Len(clientChan[s]) # 1
    BY <1>1, <2>1, <2>3, TailOfChannel DEF Receive
  <2> QED BY <2>2, <2>3
<1>2. CASE SendSseMessage(s)
  BY <1>2 DEF SendSseMessage
<1> QED BY <1>1, <1>2

LEMMA LostStream ==
  ASSUME TypeOK, NothingLost, NEW s \in Stream, StreamEvents(s)
  PROVE  NothingLost'
<1> USE DEF NothingLost, ListCurrent, StreamsCurrent, Quiet, Current
<1>1. /\ UNCHANGED <<hub, update, routine>>
      /\ \A t \in Stream \ {s} :
           /\ Served(t)' = Served(t) /\ Newest(t)' = Newest(t)
           /\ missed'[t] = missed[t]
  BY DEF TypeOK, StreamEvents, RegisterLobbyClient, FirstList, Receive,
         SendSseMessage, WriteFails, PeerGone, UnregisterLobbyClient, Served, Newest
<1>2. Served(s)' /\ lobbyPc = "wait" /\ Quiet => Current(Newest(s))' \/ missed'[s]
  <2>1. CASE RegisterLobbyClient(s)
    BY <2>1 DEF TypeOK, RegisterLobbyClient, Served
  <2>2. CASE WriteFails(s) \/ PeerGone(s) \/ UnregisterLobbyClient(s)
    BY <2>2 DEF TypeOK, WriteFails, PeerGone, UnregisterLobbyClient, Served
  <2>3. CASE FirstList(s)
    BY <2>3, CountType DEF TypeOK, FirstList, Served, Newest, hub
  <2>4. CASE Receive(s) \/ SendSseMessage(s)
    BY <2>4, <1>1, NewestStays DEF Receive, SendSseMessage, hub
  <2> QED BY <2>1, <2>2, <2>3, <2>4 DEF StreamEvents
<1> QED BY <1>1, <1>2 DEF hub, routine

LEMMA LostNext == TypeOK /\ NothingLost /\ [Next]_vars => NothingLost'
<1>1. NothingLost /\ UNCHANGED vars => NothingLost'
  BY DEF NothingLost, ListCurrent, StreamsCurrent, Quiet, Current, Served, Newest,
         vars, hub, routine, streams
<1> QED BY <1>1, LostRoutine, LostStream DEF Next

\* Merging notifications in lobbyUpdates loses no change, nor does the opening of
\* a stream: when everything is at rest every page will show the last change,
\* unless the list was dropped for a full channel or a hub did not answer.
THEOREM NothingIsLost == Spec => []NothingLost
<1> QED BY TypeCorrect, LostInit, LostNext, PTL DEF Spec

\* No channel is full when a list is broadcast: every stream has taken out all but
\* the last ChanCap - 1 of the lists before it.
RoomInChannels ==
  lobbyPc = "send" => \A s \in LobbyClients : Len(clientChan[s]) < ChanCap

NothingMissed == \A s \in Stream : ~missed[s]

LEMMA MissedNext ==
  ASSUME TypeOK, RoomInChannels, NothingMissed, [Next]_vars
  PROVE  NothingMissed'
<1>1. CASE Broadcast
  BY <1>1 DEF Broadcast, RoomInChannels, NothingMissed
<1>2. ASSUME NEW s \in Stream, UnregisterLobbyClient(s)
      PROVE  NothingMissed'
  BY <1>2 DEF TypeOK, UnregisterLobbyClient, NothingMissed
<1>3. CASE ~(Broadcast \/ \E s \in Stream : UnregisterLobbyClient(s))
  <2>1. UNCHANGED missed
    BY <1>3
    DEF Next, HubStep, LobbyRoutine, StreamEvents, Change, Notify, Relay, Select,
        TakeUpdate, ListRooms, Lock, Shutdown, RegisterLobbyClient, FirstList, Receive,
        SendSseMessage, WriteFails, PeerGone, vars, streams
  <2> QED BY <2>1 DEF NothingMissed
<1> QED BY <1>1, <1>2, <1>3

\* Pages that keep up show what there is: when everything is at rest and a page
\* has been written all there was for it, it shows a current list, with no
\* exception for dropped lists.
THEOREM PromptPagesAreCurrent ==
  Spec /\ []RoomInChannels =>
    [](lobbyPc = "wait" /\ Quiet =>
         \A s \in Stream :
           streamPc[s] = "loop" /\ clientChan[s] = <<>> => Current(shown[s]))
<1> DEFINE AllCurrent ==
      lobbyPc = "wait" /\ Quiet =>
        \A s \in Stream :
          streamPc[s] = "loop" /\ clientChan[s] = <<>> => Current(shown[s])
<1>1. Init => NothingMissed
  BY DEF Init, NothingMissed
<1>2. TypeOK /\ RoomInChannels /\ NothingMissed /\ [Next]_vars => NothingMissed'
  BY MissedNext
<1>3. NothingLost /\ NothingMissed => AllCurrent
  BY DEF NothingLost, StreamsCurrent, Served, Newest, NothingMissed
<1> HIDE DEF AllCurrent
<1>4. Spec /\ []RoomInChannels => []AllCurrent
  BY <1>1, <1>2, <1>3, TypeCorrect, NothingIsLost, PTL DEF Spec
<1> QED BY <1>4 DEF AllCurrent
-----------------------------------------------------------------------------
(* The order of the lists.                                                 *)

\* A list the routine may have broadcast: no newer than the one it has now.
FromRoutine(v) ==
  v <= version /\ (lobbyPc \in {"lock", "send"} => list = 0 \/ v <= list)

\* A list may be followed by a newer one, or by one whose hub did not answer.
Follows(v, w) == w = 0 \/ v <= w

\* What stream s holds, in the order it will be shown.
InOrder(s) ==
  /\ \A i \in DOMAIN clientChan[s] : FromRoutine(clientChan[s][i])
  /\ \A i, j \in DOMAIN clientChan[s] :
       i < j => Follows(clientChan[s][i], clientChan[s][j])
  /\ streamPc[s] = "write" =>
       /\ FromRoutine(hand[s])
       /\ \A i \in DOMAIN clientChan[s] : Follows(hand[s], clientChan[s][i])
  /\ ~own[s] =>
       /\ FromRoutine(shown[s])
       /\ \A i \in DOMAIN clientChan[s] : Follows(shown[s], clientChan[s][i])
       /\ streamPc[s] = "write" => Follows(shown[s], hand[s])
  /\ streamPc[s] \in {"off", "list", "first"} => shown[s] = 0

\* The inductive invariant: lists are shown in the order they were made, apart
\* from the one a stream makes by itself.
Ordered ==
  /\ lobbyPc \in {"lock", "send"} => list <= version
  /\ \A s \in Stream : InOrder(s)

LEMMA OrderInit == Init => Ordered
BY LobbyAssumption DEF LobbyAssumption, Init, Ordered, InOrder, FromRoutine, Follows

\* A step that leaves the streams alone, and makes no list older.
LEMMA OrderKept ==
  ASSUME TypeOK, Ordered, UNCHANGED streams,
         \A v \in Version : FromRoutine(v) => FromRoutine(v)',
         (lobbyPc \in {"lock", "send"} => list <= version)'
  PROVE  Ordered'
<1> SUFFICES ASSUME NEW s \in Stream
             PROVE  InOrder(s)'
  BY DEF Ordered
<1>1. InOrder(s) /\ clientChan[s] \in Seq(Version) /\ hand[s] \in Version
      /\ shown[s] \in Version
  BY DEF Ordered, TypeOK
<1>2. \A i \in DOMAIN clientChan[s] : clientChan[s][i] \in Version
  BY <1>1
<1> QED BY <1>1, <1>2 DEF InOrder, Follows, streams

LEMMA OrderRoutine ==
  ASSUME TypeOK, Ordered, HubStep \/ TakeUpdate \/ ListRooms \/ Lock \/ Shutdown
  PROVE  Ordered'
<1>1. UNCHANGED streams
  BY DEF HubStep, Change, Notify, Relay, Select, TakeUpdate, ListRooms, Lock, Shutdown
<1>2. version \in Int /\ version' \in Int /\ version <= version'
  BY DEF TypeOK, Version, HubStep, Change, Notify, Relay, Select, TakeUpdate,
         ListRooms, Lock, Shutdown, hub
<1>3. CASE ListRooms
  <2>1. list' = 0 \/ list' = version'
    BY <1>3 DEF ListRooms, Count, hub
  <2>2. \A v \in Version : FromRoutine(v) => FromRoutine(v)'
    BY <1>2, <2>1, <1>3 DEF FromRoutine, Version, ListRooms, hub
  <2>3. list' <= version'
    BY <1>2, <2>1 DEF TypeOK, Version, ListRooms, hub
  <2> QED BY <1>1, <2>2, <2>3, OrderKept
<1>4. CASE ~ListRooms
  <2>1. list' = list /\ (lobbyPc' \in {"lock", "send"} => lobbyPc \in {"lock", "send"})
    BY <1>4 DEF HubStep, Change, Notify, Relay, Select, TakeUpdate, Lock, Shutdown, routine
  <2>2. \A v \in Version : FromRoutine(v) => FromRoutine(v)'
    BY <1>2, <2>1 DEF FromRoutine, Version
  <2>3. (lobbyPc \in {"lock", "send"} => list <= version)'
    BY <1>2, <2>1 DEF Ordered, TypeOK, Version
  <2> QED BY <1>1, <2>2, <2>3, OrderKept
<1> QED BY <1>3, <1>4

\* The newest list goes to the end of a channel.
LEMMA OrderBroadcast ==
  ASSUME TypeOK, Ordered, Broadcast
  PROVE  Ordered'
<1> SUFFICES ASSUME NEW s \in Stream
             PROVE  InOrder(s)'
  BY DEF Ordered, Broadcast
<1>1. /\ lobbyPc = "send" /\ lobbyPc' = "wait"
      /\ UNCHANGED <<version, streamPc, hand, shown, own>>
  BY DEF Broadcast, hub
<1>2. /\ clientChan[s] \in Seq(Version) /\ list \in Version /\ version \in Version
      /\ hand[s] \in Version /\ shown[s] \in Version
      /\ InOrder(s) /\ list <= version
  BY <1>1 DEF TypeOK, Ordered
<1>3. CASE clientChan'[s] = clientChan[s]
  BY <1>1, <1>2, <1>3 DEF InOrder, FromRoutine
<1>4. CASE clientChan'[s] = Append(clientChan[s], list)
  <2>1. /\ DOMAIN clientChan'[s] = 1 .. Len(clientChan[s]) + 1
        /\ Len(clientChan[s]) \in Nat
        /\ DOMAIN clientChan[s] = 1 .. Len(clientChan[s])
        /\ \A i \in DOMAIN clientChan[s] : /\ clientChan'[s][i] = clientChan[s][i]
                                           /\ clientChan[s][i] \in Version
        /\ clientChan'[s][Len(clientChan[s]) + 1] = list
    BY <1>2, <1>4
  <2>2. \A i \in DOMAIN clientChan'[s] :
          i \in DOMAIN clientChan[s] \/ i = Len(clientChan[s]) + 1
    BY <2>1
  <2>3. \A v \in Version : FromRoutine(v) => FromRoutine(v)' /\ Follows(v, list)
    BY <1>1 DEF FromRoutine, Follows
  <2>4. \A v \in Version : v = list => FromRoutine(v)'
    BY <1>1, <1>2 DEF FromRoutine
  <2>5. (\A i \in DOMAIN clientChan[s] : FromRoutine(clientChan[s][i]))'
    BY <1>2, <2>1, <2>2, <2>3, <2>4 DEF InOrder
  <2>6. \A i, j \in DOMAIN clientChan'[s] :
          i < j => Follows(clientChan'[s][i], clientChan'[s][j])
    BY <1>2, <2>1, <2>2, <2>3 DEF InOrder
  <2>7. ASSUME NEW v \in Version, FromRoutine(v),
               \A i \in DOMAIN clientChan[s] : Follows(v, clientChan[s][i])
        PROVE  \A i \in DOMAIN clientChan'[s] : Follows(v, clientChan'[s][i])
    BY <2>1, <2>2, <2>3, <2>7
  <2> QED BY <1>1, <1>2, <2>3, <2>5, <2>6, <2>7 DEF InOrder
<1> QED BY <1>3, <1>4 DEF Broadcast, TypeOK

LEMMA OrderStream ==
  ASSUME TypeOK, Ordered, NEW s \in Stream, StreamEvents(s)
  PROVE  Ordered'
<1> USE DEF InOrder
<1>1. UNCHANGED <<hub, routine>>
  BY DEF StreamEvents, RegisterLobbyClient, FirstList, Receive, SendSseMessage,
         WriteFails, PeerGone, UnregisterLobbyClient
<1>2. ASSUME NEW t \in Stream \ {s}
      PROVE  InOrder(t)'
  <2>1. /\ streamPc'[t] = streamPc[t] /\ clientChan'[t] = clientChan[t]
        /\ hand'[t] = hand[t] /\ shown'[t] = shown[t] /\ own'[t] = own[t]
    BY DEF TypeOK, StreamEvents, RegisterLobbyClient, FirstList, Receive,
           SendSseMessage, WriteFails, PeerGone, UnregisterLobbyClient
  <2> QED BY <1>1, <2>1 DEF Ordered, FromRoutine, hub, routine
<1>3. InOrder(s)'
  <2>1. /\ InOrder(s) /\ clientChan[s] \in Seq(Version) /\ version \in Version
        /\ list \in Version /\ hand[s] \in Version /\ shown[s] \in Version
    BY DEF Ordered, TypeOK
  <2>2. \A v : FromRoutine(v)' <=> FromRoutine(v)
    BY <1>1 DEF FromRoutine, hub, routine
  <2>3. FromRoutine(0)
    BY <2>1 DEF FromRoutine, Version
  <2>4. CASE RegisterLobbyClient(s) \/ FirstList(s) \/ WriteFails(s) \/ PeerGone(s)
    BY <2>1, <2>2, <2>4
    DEF TypeOK, RegisterLobbyClient, FirstList, WriteFails, PeerGone
  <2>5. CASE UnregisterLobbyClient(s)
    <3>1. /\ clientChan'[s] = <<>> /\ shown'[s] = 0 /\ streamPc'[s] = "off"
      BY <2>5 DEF TypeOK, UnregisterLobbyClient
    <3> QED BY <2>2, <2>3, <3>1
  <2>6. CASE SendSseMessage(s)
    <3>1. /\ streamPc'[s] = "loop" /\ shown'[s] = hand[s]
          /\ own'[s] <=> streamPc[s] = "first"
          /\ clientChan'[s] = clientChan[s] /\ streamPc[s] \in {"first", "write"}
      BY <2>6 DEF TypeOK, SendSseMessage
    <3> QED BY <2>1, <2>2, <3>1
  <2>7. CASE Receive(s)
    <3>1. /\ streamPc'[s] = "write" /\ hand'[s] = Head(clientChan[s])
          /\ clientChan'[s] = Tail(clientChan[s]) /\ clientChan[s] # <<>>
          /\ shown'[s] = shown[s] /\ own'[s] = own[s]
      BY <2>7 DEF TypeOK, Receive
    <3>2. /\ Len(clientChan[s]) \in Nat \ {0}
          /\ DOMAIN clientChan[s] = 1 .. Len(clientChan[s])
          /\ DOMAIN clientChan'[s] = 1 .. Len(clientChan[s]) - 1
          /\ \A i \in DOMAIN clientChan'[s] : clientChan'[s][i] = clientChan[s][i + 1]
          /\ hand'[s] = clientChan[s][1]
      BY <2>1, <3>1, EmptySeq, HeadTailProperties, LenProperties, TailOfChannel
    <3>3. 1 \in DOMAIN clientChan[s]
      BY <3>2
    <3>4. \A i \in DOMAIN clientChan'[s] : i + 1 \in DOMAIN clientChan[s] /\ 1 < i + 1
      BY <3>2
    <3>5. \A i, j \in DOMAIN clientChan'[s] : i < j => i + 1 < j + 1
      BY <3>2
    <3> QED BY <2>1, <2>2, <3>1, <3>2, <3>3, <3>4, <3>5
  <2> QED BY <2>4, <2>5, <2>6, <2>7 DEF StreamEvents
<1> QED BY <1>1, <1>2, <1>3 DEF Ordered, hub, routine

LEMMA OrderNext == TypeOK /\ Ordered /\ [Next]_vars => Ordered'
<1>1. TypeOK /\ Ordered /\ UNCHANGED vars => Ordered'
  BY DEF Ordered, InOrder, FromRoutine, Follows, vars, hub, routine, streams
<1> QED BY <1>1, OrderRoutine, OrderBroadcast, OrderStream DEF Next, LobbyRoutine

\* A page goes back to an older list only from the one its stream made by itself
\* or because a hub did not answer: channels, and the dropping of lists when one
\* is full, never reorder what the lobby routine broadcasts.
THEOREM PagesGoForward == Spec => NeverBackwards
<1>1. TypeOK /\ Ordered /\ [Next]_vars =>
        \A s \in Stream : shown'[s] < shown[s] => own[s] \/ shown'[s] = 0
  <2> SUFFICES ASSUME TypeOK, Ordered, [Next]_vars, NEW s \in Stream, ~own[s]
               PROVE  shown'[s] = 0 \/ ~(shown'[s] < shown[s])
    OBVIOUS
  <2>1. shown[s] \in Int /\ hand[s] \in Int
    BY DEF TypeOK, Version
  <2>2. CASE SendSseMessage(s)
    <3>1. shown'[s] = hand[s] /\ streamPc[s] \in {"first", "write"}
      BY <2>2 DEF TypeOK, SendSseMessage
    <3>2. hand[s] \in Nat
      BY DEF TypeOK, Version
    <3> QED BY <2>1, <3>1, <3>2 DEF Ordered, InOrder, Follows
  <2>3. CASE UnregisterLobbyClient(s)
    BY <2>3 DEF TypeOK, UnregisterLobbyClient
  <2>4. CASE ~(SendSseMessage(s) \/ UnregisterLobbyClient(s))
    <3>1. shown'[s] = shown[s]
      BY <2>4
      DEF TypeOK, Next, HubStep, LobbyRoutine, StreamEvents, Change, Notify, Relay,
          Select, TakeUpdate, ListRooms, Lock, Broadcast, RegisterLobbyClient,
          FirstList, Receive, SendSseMessage, WriteFails, PeerGone,
          UnregisterLobbyClient, Shutdown, vars, streams
    <3> QED BY <2>1, <3>1
  <2> QED BY <2>2, <2>3, <2>4
<1> QED BY <1>1, TypeCorrect, OrderInit, OrderNext, PTL DEF Spec, NeverBackwards
=============================================================================
