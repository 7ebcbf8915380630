----------------------------- MODULE HubProofs ------------------------------
(***************************************************************************)
(* Theorems about Hub, for every number of connections and every capacity  *)
(* of the channels: type correctness, the inductive invariant and the      *)
(* safety properties it implies, and that Hub implements Membership.       *)
(***************************************************************************)
EXTENDS Hub, FiniteSetTheorems, TLAPS

(* The buffered channels.                                                  *)

\* An announcement leaves h.broadcast a queue of payloads within its capacity,
\* whether it is queued or dropped (broadcastNewMessage).
LEMMA AnnounceType ==
  ASSUME TypeOK, Announce
  PROVE  /\ broadcast' \in Seq(Client \cup {NoClient})
         /\ Len(broadcast') <= BroadcastCap
BY HubAssumption DEF HubAssumption, TypeOK, Announce

\* sendSafe never puts more messages in c.send than it has room for.
LEMMA SendSafeType ==
  ASSUME TypeOK, NEW S, SendSafe(S)
  PROVE  pending' \in [Client -> 0 .. SendCap]
BY HubAssumption DEF HubAssumption, TypeOK, SendSafe

-----------------------------------------------------------------------------
(* Type correctness.                                                       *)

LEMMA TypeInit == Init => TypeOK
<1> SUFFICES ASSUME Init
             PROVE  TypeOK
  OBVIOUS
<1> USE HubAssumption DEF HubAssumption, Init
<1>1. broadcast \in Seq(Client \cup {NoClient}) /\ Len(broadcast) <= BroadcastCap
  OBVIOUS
<1>2. /\ reader \in [Client -> ReaderPc] /\ writer \in [Client -> WriterPc]
      /\ pending \in [Client -> 0 .. SendCap] /\ closed \in [Client -> BOOLEAN]
  BY DEF ReaderPc, WriterPc
<1> QED BY <1>1, <1>2 DEF TypeOK, HubPc

\* Every step of Run keeps the types.
LEMMA TypeRun ==
  ASSUME TypeOK, Run
  PROVE  TypeOK'
<1> USE HubAssumption DEF HubAssumption, HubPc, ReaderPc, WriterPc
<1>1. CASE \/ AnnounceJoin \/ AnnounceJoinCount \/ AnnounceLeave
           \/ AnnounceLeaveCount
  BY <1>1, AnnounceType
  DEF TypeOK, AnnounceJoin, AnnounceJoinCount, AnnounceLeave, AnnounceLeaveCount,
      NotifyLobby
<1>2. CASE RemoveHub \/ DrainDone \/ StopCase
  BY <1>2 DEF TypeOK, RemoveHub, DrainDone, StopCase, NotifyLobby
<1>3. CASE Admit
  <2>1. pending' \in [Client -> 0 .. SendCap]
    BY <1>3, SendSafeType DEF Admit, HubSends
  <2>2. clients' \in SUBSET Client
    BY <1>3 DEF TypeOK, Admit
  <2> QED BY <1>3, <2>1, <2>2 DEF TypeOK, Admit, HubSends
<1>4. CASE HandleBroadcast
  <2>1. pending' \in [Client -> 0 .. SendCap]
    BY <1>4, SendSafeType DEF HandleBroadcast, HubSends
  <2>2. /\ broadcast' \in Seq(Client \cup {NoClient})
        /\ Len(broadcast') <= BroadcastCap
    BY <1>4 DEF TypeOK, HandleBroadcast
  <2> QED BY <1>4, <2>1, <2>2 DEF TypeOK, HandleBroadcast, HubSends
<1>5. ASSUME NEW c \in Client, Receive(c)
      PROVE  TypeOK'
  BY <1>5 DEF TypeOK, Receive, Register, Unregister, DrainUnregister
<1> QED BY <1>1, <1>2, <1>3, <1>4, <1>5 DEF Run, HubHandler

\* Every step of a connection's goroutines keeps the types.
LEMMA TypeConnection ==
  ASSUME TypeOK, NEW c \in Client, ServeWS(c) \/ ReadPump(c) \/ WritePump(c)
  PROVE  TypeOK'
<1> USE HubAssumption DEF HubAssumption, HubPc, ReaderPc, WriterPc
<1>1. CASE ServeWS(c) \/ ReadEnds(c) \/ ReadRelayed(c) \/ Cleanup(c)
  BY <1>1 DEF TypeOK, ServeWS, ReadEnds, ReadRelayed, Cleanup
<1>2. CASE Publish(c)
  BY <1>2 DEF TypeOK, Publish
<1>3. CASE ReadTooLong(c)
  <2>1. pending' \in [Client -> 0 .. SendCap]
    BY <1>3, SendSafeType DEF TypeOK, ReadTooLong
  <2> QED BY <1>3, <2>1 DEF TypeOK, ReadTooLong
<1>4. CASE WriteMessage(c)
  <2>1. pending' \in [Client -> 0 .. SendCap]
    BY <1>4 DEF TypeOK, WriteMessage
  <2>2. writer' \in [Client -> WriterPc]
    BY <1>4 DEF TypeOK, WriteMessage, WriteFails
  <2> QED BY <1>4, <2>1, <2>2 DEF TypeOK, WriteMessage
<1>5. CASE WriterEnds(c) \/ PingFails(c)
  BY <1>5 DEF TypeOK, WriterEnds, PingFails, WriteFails
<1> QED BY <1>1, <1>2, <1>3, <1>4, <1>5 DEF ReadPump, WritePump

LEMMA TypeNext == TypeOK /\ [Next]_vars => TypeOK'
<1> SUFFICES ASSUME TypeOK, [Next]_vars
             PROVE  TypeOK'
  OBVIOUS
<1>1. CASE Run
  BY <1>1, TypeRun
<1>2. CASE Stop \/ CloseUpdates
  BY <1>2 DEF TypeOK, Stop, CloseUpdates
<1>3. CASE \E c \in Client : ServeWS(c) \/ ReadPump(c) \/ WritePump(c)
  BY <1>3, TypeConnection
<1>4. CASE UNCHANGED vars
  BY <1>4 DEF TypeOK, vars
<1> QED BY <1>1, <1>2, <1>3, <1>4 DEF Next

\* The variables keep their types, and h.broadcast and every c.send stay within
\* their capacity: what a full channel has no room for is dropped or waits.
THEOREM TypeCorrect == Spec => []TypeOK
<1> QED BY TypeInit, TypeNext, PTL DEF Spec

-----------------------------------------------------------------------------
(* The inductive invariant.                                                *)

LEMMA InvInit == Init => HubInvariant
BY HubAssumption
DEF HubAssumption, Init, HubInvariant, MembersAreInRoom, InRoom,
    NobodyLeftBehind, ClosedInDrain, DrainIsStopped,
    PanicsExplained

\* Every step of Run keeps h.clients exact, and finds no channel closed.
LEMMA InvRun ==
  ASSUME TypeOK, HubInvariant, Run
  PROVE  HubInvariant'
<1> USE DEF TypeOK, HubInvariant, MembersAreInRoom, InRoom, NobodyLeftBehind,
            ClosedInDrain, DrainIsStopped, PanicsExplained
<1>1. CASE AnnounceJoin \/ AnnounceJoinCount \/ AnnounceLeave
  BY <1>1 DEF AnnounceJoin, AnnounceJoinCount, AnnounceLeave, NotifyLobby
<1>2. CASE AnnounceLeaveCount
  BY <1>2 DEF AnnounceLeaveCount, NotifyLobby
<1>3. CASE RemoveHub \/ DrainDone
  BY <1>3 DEF RemoveHub, DrainDone, NotifyLobby
<1>4. CASE Admit
  BY <1>4 DEF Admit, HubSends
<1>5. CASE HandleBroadcast
  BY <1>5 DEF HandleBroadcast, HubSends
<1>6. CASE StopCase
  BY <1>6 DEF StopCase
<1>7. ASSUME NEW c \in Client, Register(c)
      PROVE  HubInvariant'
  BY <1>7 DEF Register, ReaderPc
<1>8. ASSUME NEW c \in Client, Unregister(c)
      PROVE  HubInvariant'
  BY <1>8 DEF Unregister, ReaderPc
<1>9. ASSUME NEW c \in Client, DrainUnregister(c)
      PROVE  HubInvariant'
  BY <1>9 DEF DrainUnregister, ReaderPc
<1> QED
  BY <1>1, <1>2, <1>3, <1>4, <1>5, <1>6, <1>7, <1>8, <1>9
  DEF Run, HubHandler, Receive

\* No step of a connection's goroutines changes who is in the room; a readPump
\* panics only on a closed channel.
LEMMA InvConnection ==
  ASSUME TypeOK, HubInvariant,
         NEW c \in Client, ServeWS(c) \/ ReadPump(c) \/ WritePump(c)
  PROVE  HubInvariant'
<1> USE DEF TypeOK, HubInvariant, MembersAreInRoom, InRoom, NobodyLeftBehind,
            ClosedInDrain, DrainIsStopped, PanicsExplained
<1>1. CASE ServeWS(c)
  BY <1>1 DEF ServeWS
<1>2. CASE ReadEnds(c) \/ ReadRelayed(c) \/ Publish(c)
  <2>1. UNCHANGED <<hubPc, cur, clients, stop, closed, panics, updatesClosed>>
    BY <1>2 DEF ReadEnds, ReadRelayed, Publish
  <2>2. \A d \in Client : InRoom(d)' <=> InRoom(d)
    BY <1>2 DEF ReadEnds, ReadRelayed, Publish
  <2> QED BY <2>1, <2>2
<1>3. CASE ReadTooLong(c)
  BY <1>3 DEF ReadTooLong
<1>4. CASE Cleanup(c)
  BY <1>4 DEF Cleanup
<1>5. CASE WritePump(c)
  BY <1>5 DEF WritePump, WriteMessage, WriterEnds, PingFails
<1> QED BY <1>1, <1>2, <1>3, <1>4, <1>5 DEF ReadPump

LEMMA InvNext == TypeOK /\ HubInvariant /\ [Next]_vars => HubInvariant'
<1> SUFFICES ASSUME TypeOK, HubInvariant, [Next]_vars
             PROVE  HubInvariant'
  OBVIOUS
<1> USE DEF HubInvariant, MembersAreInRoom, InRoom, NobodyLeftBehind,
            ClosedInDrain, DrainIsStopped, PanicsExplained
<1>1. CASE Run
  BY <1>1, InvRun
<1>2. CASE Stop \/ CloseUpdates
  BY <1>2 DEF Stop, CloseUpdates
<1>3. CASE \E c \in Client : ServeWS(c) \/ ReadPump(c) \/ WritePump(c)
  BY <1>3, InvConnection
<1>4. CASE UNCHANGED vars
  BY <1>4 DEF vars
<1> QED BY <1>1, <1>2, <1>3, <1>4 DEF Next

\* Whatever the order in which connections register, send, leave or die and the
\* server is stopped, h.clients holds exactly the connections whose readPump has
\* still to unregister.
THEOREM MembershipExact == Spec => []HubInvariant
<1>1. TypeOK /\ HubInvariant /\ [Next]_vars => TypeOK' /\ HubInvariant'
  BY TypeNext, InvNext
<1> QED BY <1>1, TypeInit, InvInit, PTL DEF Spec

\* A readPump never waits for a hub whose Run has returned.
THEOREM NoPumpIsStranded == Spec => []NoStrandedPump
<1>1. HubInvariant => NoStrandedPump
  BY DEF HubInvariant, MembersAreInRoom, InRoom, NobodyLeftBehind, NoStrandedPump
<1> QED BY <1>1, MembershipExact, PTL

\* Run panics only when it notifies the lobby for a hub the shutdown did not find,
\* and a readPump only once the stop case has closed the members' channels.
THEOREM PanicsAreExplained == Spec => []PanicsExplained
<1>1. HubInvariant => PanicsExplained
  BY DEF HubInvariant
<1> QED BY <1>1, MembershipExact, PTL

\* Until the shutdown has stopped the hub or closed lobbyUpdates under it, a room
\* brings no goroutine to panic, whatever its members send and however they come
\* and go.
THEOREM RoomIsHarmless ==
  Spec => [](~stop /\ ~updatesClosed => hubPc # "panicked" /\ panics = {})
<1>1. HubInvariant => (~stop /\ ~updatesClosed => hubPc # "panicked" /\ panics = {})
  BY DEF HubInvariant, PanicsExplained, DrainIsStopped
<1> QED BY <1>1, MembershipExact, PTL

-----------------------------------------------------------------------------
(* Refinement.                                                             *)

LEMMA RoomInit == Init => Room!Init
BY DEF Init, Room!Init, Phase, Emptied

\* Run joins, removes, closes and vanishes as Membership allows.
LEMMA RoomRun ==
  ASSUME TypeOK, HubInvariant, Run
  PROVE  [Room!Next]_(Room!vars)
<1> USE DEF TypeOK, HubInvariant, MembersAreInRoom, InRoom, NobodyLeftBehind,
            ClosedInDrain, DrainIsStopped, PanicsExplained, Phase, Emptied, Room!vars
<1>1. CASE AnnounceJoin \/ AnnounceJoinCount \/ AnnounceLeave \/ HandleBroadcast
  BY <1>1 DEF AnnounceJoin, AnnounceJoinCount, AnnounceLeave, HandleBroadcast, HubSends,
             NotifyLobby
<1>2. CASE AnnounceLeaveCount
  BY <1>2 DEF AnnounceLeaveCount, NotifyLobby, Room!Next, Room!Close
<1>3. CASE RemoveHub \/ DrainDone
  BY <1>3 DEF RemoveHub, DrainDone, NotifyLobby, Room!Next, Room!Vanish
<1>4. CASE Admit
  <2>1. Room!Join(cur)
    BY <1>4 DEF Admit, HubSends, Room!Join
  <2> QED BY <2>1, <1>4 DEF Admit, Room!Next
<1>5. CASE StopCase
  BY <1>5 DEF StopCase, Room!Next, Room!Close
<1>6. ASSUME NEW c \in Client, Register(c)
      PROVE  UNCHANGED Room!vars
  BY <1>6 DEF Register, ReaderPc
<1>7. ASSUME NEW c \in Client, Unregister(c) \/ DrainUnregister(c)
      PROVE  Room!Leave(c)
  BY <1>7 DEF Unregister, DrainUnregister, Room!Leave, ReaderPc
<1> QED
  BY <1>1, <1>2, <1>3, <1>4, <1>5, <1>6, <1>7
  DEF Run, HubHandler, Receive, Room!Next

\* A connection's own steps do not show.
LEMMA RoomConnection ==
  ASSUME TypeOK, NEW c \in Client, ServeWS(c) \/ ReadPump(c) \/ WritePump(c)
  PROVE  UNCHANGED Room!vars
<1> USE DEF TypeOK, Phase, Emptied, Room!vars, ReaderPc
<1>1. CASE ServeWS(c) \/ ReadEnds(c) \/ ReadRelayed(c) \/ Publish(c)
  BY <1>1 DEF ServeWS, ReadEnds, ReadRelayed, Publish
<1>2. CASE ReadTooLong(c) \/ Cleanup(c)
  BY <1>2 DEF ReadTooLong, Cleanup
<1>3. CASE WritePump(c)
  BY <1>3 DEF WritePump, WriteMessage, WriterEnds, PingFails
<1> QED BY <1>1, <1>2, <1>3 DEF ReadPump

LEMMA RoomNext == TypeOK /\ HubInvariant /\ [Next]_vars => [Room!Next]_(Room!vars)
<1> SUFFICES ASSUME TypeOK, HubInvariant, [Next]_vars
             PROVE  [Room!Next]_(Room!vars)
  OBVIOUS
<1>1. CASE Run
  BY <1>1, RoomRun
<1>2. CASE Stop \/ CloseUpdates \/ UNCHANGED vars
  BY <1>2 DEF Stop, CloseUpdates, vars, Phase, Emptied, Room!vars
<1>3. CASE \E c \in Client : ServeWS(c) \/ ReadPump(c) \/ WritePump(c)
  BY <1>3, RoomConnection
<1> QED BY <1>1, <1>2, <1>3 DEF Next

\* The hub keeps the promise of Membership: a connection joins once and only an
\* open room, a closing room admits nobody, and it is gone only when empty.
THEOREM HubImplementsMembership == Spec => MembershipSpec
<1> QED
  BY RoomInit, RoomNext, TypeCorrect, MembershipExact, PTL
  DEF Spec, MembershipSpec, Room!Spec

-----------------------------------------------------------------------------
(* The life of the hub.                                                    *)

\* Of all connections there may ever be, finitely many are members at a time.
LEMMA MembersAreFinite == Spec => []IsFiniteSet(clients)
<1>1. Init => IsFiniteSet(clients)
  BY FS_EmptySet DEF Init
<1>2. IsFiniteSet(clients) /\ [Next]_vars => IsFiniteSet(clients)'
  <2> SUFFICES ASSUME IsFiniteSet(clients), [Next]_vars
               PROVE  IsFiniteSet(clients')
    OBVIOUS
  <2>1. CASE Admit
    BY <2>1, FS_AddElement DEF Admit
  <2>2. ASSUME NEW c \in Client, Receive(c)
        PROVE  IsFiniteSet(clients')
    BY <2>2, FS_RemoveElement DEF Receive, Register, Unregister, DrainUnregister
  <2>3. CASE \/ AnnounceJoin \/ AnnounceJoinCount \/ AnnounceLeave
             \/ AnnounceLeaveCount \/ RemoveHub \/ DrainDone
             \/ HandleBroadcast \/ StopCase \/ Stop \/ CloseUpdates
             \/ UNCHANGED vars
    BY <2>3 DEF AnnounceJoin, AnnounceJoinCount, AnnounceLeave,
       AnnounceLeaveCount, RemoveHub, DrainDone, HandleBroadcast, StopCase, Stop,
       CloseUpdates, vars
  <2>4. ASSUME NEW c \in Client, ServeWS(c) \/ ReadPump(c) \/ WritePump(c)
        PROVE  UNCHANGED clients
    BY <2>4 DEF ServeWS, ReadPump, ReadEnds, ReadRelayed, Publish, ReadTooLong,
       Cleanup, WritePump, WriteMessage, WriterEnds, PingFails
  <2> QED BY <2>1, <2>2, <2>3, <2>4 DEF Next, Run, HubHandler
<1> QED BY <1>1, <1>2, PTL DEF Spec

\* Life, case by case, before and after a step.
LEMMA LifeIs ==
  /\ hubPc \in {"emptied", "removed", "drain", "stopped"} => Life = hubPc
  /\ hubPc \in {"leave", "leaveCount", "panicked"} =>
       Life = IF clients = {} THEN "emptied" ELSE "run"
  /\ hubPc \in {"run", "admit", "join", "joinCount"} => Life = "run"
  /\ hubPc' \in {"emptied", "removed", "drain", "stopped"} => Life' = hubPc'
  /\ hubPc' \in {"leave", "leaveCount", "panicked"} =>
       Life' = IF clients' = {} THEN "emptied" ELSE "run"
  /\ hubPc' \in {"run", "admit", "join", "joinCount"} => Life' = "run"
BY DEF Life, Emptied

LEMMA LifeInit == Init => Manager!Init
BY FS_EmptySet DEF Init, Manager!Init, Life, Emptied

\* The members come and go one at a time.
LEMMA LifeMembers ==
  ASSUME TypeOK, HubInvariant, IsFiniteSet(clients),
         Admit \/ \E c \in Client : Receive(c)
  PROVE  [Manager!Next]_(Manager!vars)
<1> DEFINE n == Cardinality(clients)
<1> USE LifeIs DEF TypeOK, HubInvariant, MembersAreInRoom, InRoom, ReaderPc,
            Manager!Next, Manager!vars
<1>1. n \in Nat /\ (n = 0 <=> clients = {})
  BY FS_CardinalityType, FS_EmptySet
<1>2. CASE Admit
  <2>1. hubPc = "admit" /\ hubPc' = "join" /\ stop' = stop
    BY <1>2 DEF Admit, HubSends, ClosedInDrain
  <2>2. cur \notin clients /\ clients' = clients \cup {cur}
    BY <1>2 DEF Admit
  <2>3. n' = n + 1
    BY <2>2, FS_AddElement
  <2> QED BY <2>1, <2>3 DEF Manager!Join
<1>3. ASSUME NEW c \in Client, Register(c)
      PROVE  UNCHANGED Manager!vars
  BY <1>3 DEF Register
<1>4. ASSUME NEW c \in Client, Unregister(c)
      PROVE  Manager!Leave
  <2>1. /\ hubPc = "run" /\ hubPc' = "leave" /\ stop' = stop
        /\ c \in clients /\ clients' = clients \ {c}
    BY <1>4 DEF Unregister
  <2>2. n' = n - 1 /\ IsFiniteSet(clients')
    BY <2>1, FS_RemoveElement
  <2>3. n' = 0 <=> clients' = {}
    BY <2>2, FS_EmptySet
  <2> QED BY <1>1, <2>1, <2>2, <2>3 DEF Manager!Leave
<1>5. ASSUME NEW c \in Client, DrainUnregister(c)
      PROVE  Manager!DrainLeave
  <2>1. /\ hubPc = "drain" /\ hubPc' = "drain" /\ stop' = stop
        /\ c \in clients /\ clients' = clients \ {c}
    BY <1>5 DEF DrainUnregister
  <2>2. n' = n - 1
    BY <2>1, FS_RemoveElement
  <2> QED BY <1>1, <2>1, <2>2 DEF Manager!DrainLeave
<1> QED BY <1>2, <1>3, <1>4, <1>5 DEF Receive

\* The rest of Run, and Stop.
LEMMA LifeRun ==
  ASSUME TypeOK, HubInvariant, HubHandler \/ HandleBroadcast \/ StopCase \/ Stop,
         ~Admit
  PROVE  [Manager!Next]_(Manager!vars)
<1> USE LifeIs DEF TypeOK, HubInvariant, ClosedInDrain, NobodyLeftBehind, NotifyLobby,
           Manager!Next, Manager!vars
<1>1. CASE AnnounceJoin \/ AnnounceJoinCount \/ AnnounceLeave \/ AnnounceLeaveCount
  BY <1>1 DEF AnnounceJoin, AnnounceJoinCount, AnnounceLeave, AnnounceLeaveCount,
      NotifyLobby
<1>2. CASE HandleBroadcast
  BY <1>2 DEF HandleBroadcast, HubSends
<1>3. CASE RemoveHub
  BY <1>3 DEF RemoveHub, Manager!Remove
<1>4. CASE StopCase
  BY <1>4 DEF StopCase, Manager!Drain
<1>5. CASE DrainDone
  BY <1>5, FS_EmptySet DEF DrainDone, Manager!Return
<1>6. CASE Stop
  <2>1. Life' = Life
    BY <1>6 DEF Stop, HubPc
  <2> QED BY <1>6, <2>1 DEF Stop, Manager!Stop
<1> QED BY <1>1, <1>2, <1>3, <1>4, <1>5, <1>6 DEF HubHandler

LEMMA LifeNext ==
  TypeOK /\ HubInvariant /\ IsFiniteSet(clients) /\ [Next]_vars
    => [Manager!Next]_(Manager!vars)
<1> SUFFICES ASSUME TypeOK, HubInvariant, IsFiniteSet(clients), [Next]_vars
             PROVE  [Manager!Next]_(Manager!vars)
  OBVIOUS
<1>1. CASE Run \/ Stop
  BY <1>1, LifeMembers, LifeRun DEF Run
<1>2. ASSUME NEW c \in Client, ServeWS(c) \/ ReadPump(c) \/ WritePump(c)
      PROVE  UNCHANGED <<hubPc, clients, stop>>
  BY <1>2 DEF ServeWS, ReadPump, ReadEnds, ReadRelayed, Publish, ReadTooLong,
     Cleanup, WritePump, WriteMessage, WriterEnds, PingFails
<1>3. CASE UNCHANGED <<hubPc, clients, stop>>
  BY <1>3 DEF Life, Emptied, Manager!vars
<1> QED BY <1>1, <1>2, <1>3 DEF Next, CloseUpdates, vars

\* The hub lives as its manager takes it to: it empties for good with its last
\* member, drains only when stopped, and returns with nobody in it.
THEOREM HubImplementsLife == Spec => LifeSpec
<1> QED
  BY LifeInit, LifeNext, TypeCorrect, MembershipExact, MembersAreFinite, PTL
  DEF Spec, LifeSpec, Manager!Spec
=============================================================================
