-------------------------- MODULE HubManagerProofs --------------------------
(***************************************************************************)
(* Theorems about HubManager, for any number of rooms, hubs, members and   *)
(* creators: type correctness, the inductive invariant and the safety      *)
(* properties that are parts of it.                                        *)
(***************************************************************************)
EXTENDS HubManager, TLAPS

\* A hub is never the nil hub.
LEMMA NoHubIsNoHub == NoHub \notin Hub
BY DEF NoHub, Hub

\* What GetClientCount answers is a number of members the hub can have.
LEMMA CountsType ==
  ASSUME TypeOK, NEW h \in Hub, NEW n \in Counts(h)
  PROVE  n \in 0 .. MaxUsers
BY ManagerAssumption DEF ManagerAssumption, TypeOK, Counts

-----------------------------------------------------------------------------
(* Type correctness.                                                       *)

LEMMA TypeInit == Init => TypeOK
<1> SUFFICES ASSUME Init
             PROVE  TypeOK
  OBVIOUS
<1> USE ManagerAssumption DEF ManagerAssumption, Init
<1>1. /\ rooms \in [Room -> Hub \cup {NoHub}] /\ creating \in 0 .. MaxCreators
      /\ hubPc \in [Hub -> HubPc] /\ users \in [Hub -> 0 .. MaxUsers]
  BY DEF HubPc
<1>2. list \in [Room -> -1 .. MaxUsers] /\ shown \in [Room -> -1 .. MaxUsers]
  BY DEF Absent
<1> QED BY <1>1, <1>2 DEF TypeOK, ShutdownPc

LEMMA TypeNext == TypeOK /\ [Next]_vars => TypeOK'
<1> SUFFICES ASSUME TypeOK, [Next]_vars
             PROVE  TypeOK'
  OBVIOUS
<1> USE ManagerAssumption
    DEF ManagerAssumption, TypeOK, HubPc, ShutdownPc, manager, hubs, closing, lobby
<1>1. CASE Creators
  <2>1. CASE CheckShutdown \/ \E r \in Room : CreateRefused(r)
    BY <1>1, <2>1 DEF CheckShutdown, CreateRefused
  <2>2. ASSUME NEW h \in Hub, CreateHub(h)
        PROVE  TypeOK'
    <3>1. h.ID \in Room
      BY DEF Hub
    <3> QED BY <2>2, <3>1 DEF CreateHub, CreatorNotifies, UpdatesClosed
  <2> QED BY <1>1, <2>1, <2>2 DEF Creators
<1>2. CASE LobbyRoutine
  <2>1. CASE TakeUpdate \/ Broadcast \/ LobbyReturns
    BY <2>1 DEF TakeUpdate, Broadcast, LobbyReturns
  <2>2. CASE CopyHubs
    <3>1. asked' \in SUBSET Hub /\ list' \in [Room -> -1 .. MaxUsers]
      BY <2>2 DEF CopyHubs, Listed, Absent
    <3> QED BY <2>2, <3>1 DEF CopyHubs
  <2>3. ASSUME NEW h \in Hub, CountHub(h)
        PROVE  TypeOK'
    <3>1. list' \in [Room -> -1 .. MaxUsers]
      BY <2>3, CountsType DEF CountHub
    <3>2. asked' \in SUBSET Hub /\ crashed' \in {"no", "count", "notify"}
      BY <2>3 DEF CountHub
    <3> QED BY <2>3, <3>1, <3>2 DEF CountHub
  <2> QED BY <1>2, <2>1, <2>2, <2>3 DEF LobbyRoutine
<1>3. CASE ListRoomsPanics \/ Signal
  BY <1>3 DEF ListRoomsPanics, Signal
<1>4. CASE ShutdownGoesOn
  BY <1>4 DEF ShutdownGoesOn, Snapshot, Listed, WaitHubs, CloseUpdates, Exit, Stop
<1>5. ASSUME NEW h \in Hub, Join(h) \/ Leave(h)
      PROVE  TypeOK'
  <2>1. update' \in BOOLEAN /\ crashed' \in {"no", "count", "notify"}
    BY <1>5 DEF Join, Leave, HubNotifies, UpdatesClosed
  <2>2. users' \in [Hub -> 0 .. MaxUsers]
    BY <1>5 DEF Join, Leave
  <2>3. hubPc' \in [Hub -> HubPc]
    BY <1>5 DEF Join, Leave
  <2> QED BY <1>5, <2>1, <2>2, <2>3 DEF Join, Leave
<1>6. ASSUME NEW h \in Hub, DrainLeave(h) \/ HubReturns(h)
      PROVE  TypeOK'
  <2>1. CASE RemoveHub(h)
    <3>1. rooms' \in [Room -> Hub \cup {NoHub}]
      BY <2>1 DEF RemoveHub
    <3>2. hubPc' \in [Hub -> HubPc]
      BY <2>1 DEF RemoveHub
    <3>3. update' \in BOOLEAN /\ crashed' \in {"no", "count", "notify"}
      BY <2>1 DEF RemoveHub, HubNotifies, UpdatesClosed
    <3> QED BY <2>1, <3>1, <3>2, <3>3 DEF RemoveHub
  <2>2. CASE StopCase(h) \/ DrainLeave(h) \/ DrainDone(h)
    BY <2>2 DEF StopCase, DrainLeave, DrainDone
  <2> QED BY <1>6, <2>1, <2>2 DEF HubReturns
<1>7. CASE UNCHANGED vars
  BY <1>7 DEF vars
<1> QED BY <1>1, <1>2, <1>3, <1>4, <1>5, <1>6, <1>7 DEF Next

\* The manager's variables keep their types, and ListRooms only says counts a
\* hub can have.
THEOREM TypeCorrect == Spec => []TypeOK
<1> QED BY TypeInit, TypeNext, PTL DEF Spec

-----------------------------------------------------------------------------
(* The inductive invariant: m.rooms, the stop case and the shutdown.       *)

LEMMA InvInit == Init => ManagerInvariant
<1> SUFFICES ASSUME Init
             PROVE  ManagerInvariant
  OBVIOUS
<1> USE DEF Init
<1>1. RoomsAreHubs /\ NamesMatch
  BY NoHubIsNoHub DEF RoomsAreHubs, NamesMatch, Hub
<1>2. DrainIsStopped /\ FoundHubsReturn /\ StopsFollowSnapshot /\ CrashesExplained
  BY DEF DrainIsStopped, FoundHubsReturn, StopsFollowSnapshot, CrashesExplained
<1>3. CountIsCurrent /\ NoUpdateLost
  BY DEF CountIsCurrent, NoUpdateLost, ListIsCurrent, Absent
<1> QED BY <1>1, <1>2, <1>3 DEF ManagerInvariant

\* A step that leaves m.rooms and the hubs' control alone keeps them matched.
LEMMA RoomsStep ==
  ASSUME TypeOK, ManagerInvariant, [Next]_vars
  PROVE  RoomsAreHubs' /\ NamesMatch'
<1> USE DEF TypeOK, ManagerInvariant, RoomsAreHubs, NamesMatch, Alive,
            manager, hubs, closing, lobby
<1>1. ASSUME NEW h \in Hub, CreateHub(h)
      PROVE  RoomsAreHubs' /\ NamesMatch'
  <2>1. h.ID \in Room
    BY DEF Hub
  <2>2. crashed = "no" /\ crashed' = "no"
    BY <1>1 DEF CreateHub
  <2>3. ASSUME NEW k \in Hub
        PROVE  rooms'[k.ID] = k <=> hubPc'[k] \in {"run", "emptied", "drain", "stopped"}
    <3>1. k.ID \in Room
      BY DEF Hub
    <3>2. CASE k = h
      BY <1>1, <2>1, <3>2 DEF CreateHub
    <3>3. CASE k # h /\ k.ID = h.ID
      BY <1>1, <2>1, <2>2, <3>3, NoHubIsNoHub DEF CreateHub
    <3>4. CASE k.ID # h.ID
      BY <1>1, <2>1, <2>2, <3>1, <3>4 DEF CreateHub
    <3> QED BY <3>2, <3>3, <3>4
  <2>4. NamesMatch'
    BY <1>1, <2>1 DEF CreateHub
  <2> QED BY <2>3, <2>4
<1>2. ASSUME NEW h \in Hub, RemoveHub(h)
      PROVE  RoomsAreHubs' /\ NamesMatch'
  <2>1. h.ID \in Room
    BY DEF Hub
  <2>2. crashed = "no" /\ rooms[h.ID] = h
    BY <1>2 DEF RemoveHub
  <2>3. ASSUME NEW k \in Hub, crashed' = "no"
        PROVE  rooms'[k.ID] = k <=> hubPc'[k] \in {"run", "emptied", "drain", "stopped"}
    <3>1. k.ID \in Room
      BY DEF Hub
    <3>2. ~UpdatesClosed
      BY <1>2, <2>2, <2>3, NoHubIsNoHub DEF RemoveHub, HubNotifies
    <3>3. CASE k = h
      BY <1>2, <2>1, <3>2, <3>3, NoHubIsNoHub DEF RemoveHub
    <3>4. CASE k # h /\ k.ID = h.ID
      BY <1>2, <2>1, <2>2, <3>2, <3>4, NoHubIsNoHub DEF RemoveHub
    <3>5. CASE k.ID # h.ID
      BY <1>2, <2>1, <2>2, <3>1, <3>2, <3>5 DEF RemoveHub
    <3> QED BY <3>3, <3>4, <3>5
  <2>4. NamesMatch'
    BY <1>2, <2>1 DEF RemoveHub
  <2> QED BY <2>3, <2>4
<1>3. ASSUME NEW h \in Hub, Join(h) \/ DrainLeave(h) \/ Stop(h) \/ CountHub(h)
      PROVE  UNCHANGED <<rooms, hubPc>> /\ crashed = "no"
  BY <1>3 DEF Join, DrainLeave, Stop, CountHub
<1>4. ASSUME NEW h \in Hub, Leave(h) \/ StopCase(h) \/ DrainDone(h)
      PROVE  RoomsAreHubs' /\ NamesMatch'
  BY <1>4 DEF Leave, StopCase, DrainDone
<1>5. CASE \/ CheckShutdown \/ \E r \in Room : CreateRefused(r)
           \/ TakeUpdate \/ CopyHubs \/ Broadcast \/ LobbyReturns
           \/ Signal \/ Snapshot \/ WaitHubs \/ CloseUpdates \/ Exit
  BY <1>5 DEF CheckShutdown, CreateRefused, TakeUpdate, CopyHubs, Broadcast,
              LobbyReturns, Signal, Snapshot, WaitHubs, CloseUpdates, Exit
<1>6. CASE ListRoomsPanics \/ UNCHANGED vars
  BY <1>6 DEF ListRoomsPanics, vars
<1> QED
  BY <1>1, <1>2, <1>3, <1>4, <1>5, <1>6
  DEF Next, Creators, HubReturns, LobbyRoutine, ShutdownGoesOn

\* The hubs that ShutdownAllHubs found are stopped and waited for; a hub that
\* still runs afterwards was created after it looked.
LEMMA ShutdownStep ==
  ASSUME TypeOK, ManagerInvariant, [Next]_vars
  PROVE  DrainIsStopped' /\ FoundHubsReturn' /\ StopsFollowSnapshot'
<1> USE DEF TypeOK, ManagerInvariant, DrainIsStopped, FoundHubsReturn, StopsFollowSnapshot,
            Running, manager, hubs, closing, lobby
<1>1. ASSUME NEW h \in Hub, CreateHub(h)
      PROVE  DrainIsStopped' /\ FoundHubsReturn' /\ StopsFollowSnapshot'
  <2>1. h \notin hubsToShutdown
    BY <1>1 DEF CreateHub, IsNext
  <2> QED BY <1>1, <2>1 DEF CreateHub
<1>2. ASSUME NEW h \in Hub, Join(h) \/ CountHub(h) \/ DrainLeave(h) \/ Stop(h)
      PROVE  DrainIsStopped' /\ FoundHubsReturn' /\ StopsFollowSnapshot'
  BY <1>2 DEF Join, CountHub, DrainLeave, Stop
<1>3. ASSUME NEW h \in Hub, Leave(h) \/ RemoveHub(h) \/ StopCase(h) \/ DrainDone(h)
      PROVE  DrainIsStopped' /\ FoundHubsReturn' /\ StopsFollowSnapshot'
  BY <1>3 DEF Leave, RemoveHub, StopCase, DrainDone
<1>4. CASE Snapshot
  <2>1. \A h \in Listed : hubPc[h] # "unborn"
    BY <1>4 DEF Snapshot, Alive, Listed, RoomsAreHubs
  <2> QED BY <1>4, <2>1 DEF Snapshot
<1>5. CASE WaitHubs \/ CloseUpdates \/ Exit
  BY <1>5 DEF WaitHubs, CloseUpdates, Exit
<1>6. CASE \/ CheckShutdown \/ \E r \in Room : CreateRefused(r)
           \/ TakeUpdate \/ CopyHubs \/ Broadcast \/ LobbyReturns \/ Signal
  BY <1>6 DEF CheckShutdown, CreateRefused, TakeUpdate, CopyHubs, Broadcast,
              LobbyReturns, Signal
<1>7. CASE ListRoomsPanics \/ UNCHANGED vars
  BY <1>7 DEF ListRoomsPanics, vars
<1> QED
  BY <1>1, <1>2, <1>3, <1>4, <1>5, <1>6, <1>7
  DEF Next, Creators, HubReturns, LobbyRoutine, ShutdownGoesOn

\* A goroutine panics only of a stopped hub's count or of a late hub.
LEMMA CrashStep ==
  ASSUME TypeOK, ManagerInvariant, [Next]_vars
  PROVE  CrashesExplained'
<1> USE DEF TypeOK, ManagerInvariant, manager, hubs, closing, lobby
<1>1. CASE UNCHANGED vars
  BY <1>1 DEF vars, CrashesExplained, LateHub, Running
<1>2. CASE Next
  <2>1. crashed = "no"
    BY <1>2 DEF Next, Creators, HubReturns, LobbyRoutine, ShutdownGoesOn, Alive,
                CheckShutdown, CreateRefused, CreateHub, Join, Leave, RemoveHub,
                StopCase, DrainLeave, DrainDone, TakeUpdate, CopyHubs, CountHub,
                Broadcast, LobbyReturns, ListRoomsPanics, Signal, Snapshot,
                Stop, WaitHubs, CloseUpdates, Exit
  <2>2. ASSUME NEW h \in Hub, Join(h) \/ Leave(h) \/ RemoveHub(h)
        PROVE  CrashesExplained'
    <3>1. crashed' \in {"no", "notify"} /\ UNCHANGED <<shutdownPc, hubsToShutdown>>
      BY <2>1, <2>2 DEF Join, Leave, RemoveHub, HubNotifies
    <3>2. ASSUME crashed' = "notify"
          PROVE  UpdatesClosed /\ h \in Running /\ h \in Running'
      BY <2>1, <2>2, <3>2
      DEF Join, Leave, RemoveHub, HubNotifies, Running, UpdatesClosed
    <3>3. ASSUME crashed' = "notify"
          PROVE  LateHub'
      <4>1. h \notin hubsToShutdown
        BY <3>2, <3>3 DEF FoundHubsReturn, UpdatesClosed
      <4> QED BY <3>1, <3>2, <3>3, <4>1 DEF LateHub, UpdatesClosed
    <3> QED BY <3>1, <3>3 DEF CrashesExplained
  <2>3. ASSUME NEW h \in Hub, CountHub(h)
        PROVE  CrashesExplained'
    BY <2>1, <2>3 DEF CountHub, MayPanic, CrashesExplained, DrainIsStopped
  <2>4. CASE ListRoomsPanics
    BY <2>4 DEF ListRoomsPanics, MayPanic, Listed, CrashesExplained, DrainIsStopped
  <2>5. ASSUME NEW h \in Hub,
               CreateHub(h) \/ StopCase(h) \/ DrainLeave(h) \/ DrainDone(h) \/ Stop(h)
        PROVE  crashed' = "no"
    BY <2>1, <2>5 DEF CreateHub, StopCase, DrainLeave, DrainDone, Stop
  <2>6. CASE \/ CheckShutdown \/ \E r \in Room : CreateRefused(r)
             \/ TakeUpdate \/ CopyHubs \/ Broadcast \/ LobbyReturns
             \/ Signal \/ Snapshot \/ WaitHubs \/ CloseUpdates \/ Exit
    <3>1. crashed' = "no"
      BY <2>1, <2>6 DEF CheckShutdown, CreateRefused, TakeUpdate, CopyHubs,
         Broadcast, LobbyReturns, Signal, Snapshot, WaitHubs, CloseUpdates, Exit
    <3> QED BY <3>1 DEF CrashesExplained
  <2>7. crashed' = "no" => CrashesExplained'
    BY DEF CrashesExplained
  <2> QED
    BY <1>2, <2>2, <2>3, <2>4, <2>5, <2>6, <2>7
    DEF Next, Creators, HubReturns, LobbyRoutine, ShutdownGoesOn
<1> QED BY <1>1, <1>2

-----------------------------------------------------------------------------
(* The inductive invariant: the list of rooms.                             *)

\* Whoever changes which rooms there are leaves a notification behind, unless
\* lobbyUpdates is closed already.
LEMMA ChangeNotifies ==
  ASSUME TypeOK, ManagerInvariant,
         NEW h \in Hub, CreateHub(h) \/ RemoveHub(h)
  PROVE  update' \/ UpdatesClosed'
<1> USE DEF TypeOK
<1>1. CASE CreateHub(h)
  BY <1>1 DEF CreateHub, CreatorNotifies, UpdatesClosed, closing
<1>2. CASE RemoveHub(h)
  <2>1. rooms[h.ID] # NoHub
    BY <1>2, NoHubIsNoHub DEF RemoveHub, ManagerInvariant, RoomsAreHubs, Alive
  <2> QED BY <1>2, <2>1 DEF RemoveHub, HubNotifies, UpdatesClosed, closing
<1> QED BY <1>1, <1>2

\* The lobby's own steps: copying the hubs starts from the rooms there are,
\* counting one loses none, and the list broadcast is complete.
LEMMA ListingStep ==
  ASSUME TypeOK, ManagerInvariant, LobbyRoutine
  PROVE  CountIsCurrent' /\ NoUpdateLost'
<1> USE DEF TypeOK, ManagerInvariant, CountIsCurrent, NoUpdateLost, ListIsCurrent,
            manager, closing, UpdatesClosed
<1>1. CASE TakeUpdate \/ LobbyReturns
  BY <1>1 DEF TakeUpdate, LobbyReturns
<1>2. CASE CopyHubs
  <2>1. ASSUME NEW r \in Room
        PROVE  (\E h \in Listed : h.ID = r) <=> rooms[r] # NoHub
    BY NoHubIsNoHub DEF Listed, NamesMatch
  <2> QED BY <1>2, <2>1 DEF CopyHubs, Absent
<1>3. ASSUME NEW h \in Hub, CountHub(h)
      PROVE  CountIsCurrent' /\ NoUpdateLost'
  <2>1. h.ID \in Room
    BY DEF Hub
  <2>2. CASE crashed' = "count" /\ UNCHANGED <<asked, list>>
    BY <1>3, <2>2 DEF CountHub
  <2>3. CASE \E n \in Counts(h) : /\ list' = [list EXCEPT ![h.ID] = n]
                                  /\ asked' = asked \ {h}
    <3>1. PICK n \in Counts(h) : /\ list' = [list EXCEPT ![h.ID] = n]
                                 /\ asked' = asked \ {h}
      BY <2>3
    <3>2. n # Absent
      BY CountsType, ManagerAssumption DEF ManagerAssumption, Absent
    <3>3. ASSUME NEW r \in Room
          PROVE  (list'[r] # Absent \/ \E k \in asked' : k.ID = r) <=>
                   (list[r] # Absent \/ \E k \in asked : k.ID = r)
      BY <1>3, <2>1, <3>1, <3>2 DEF CountHub
    <3> QED BY <1>3, <3>3 DEF CountHub
  <2> QED BY <1>3, <2>2, <2>3 DEF CountHub
<1>4. CASE Broadcast
  BY <1>4 DEF Broadcast
<1> QED BY <1>1, <1>2, <1>3, <1>4 DEF LobbyRoutine

\* Every other step leaves the rooms, or leaves a notification, and never takes
\* one away.
LEMMA ListStep ==
  ASSUME TypeOK, ManagerInvariant, [Next]_vars
  PROVE  CountIsCurrent' /\ NoUpdateLost'
<1> USE DEF manager, closing, lobby, hubs
<1>1. CASE LobbyRoutine
  BY <1>1, ListingStep
<1>2. ASSUME NEW h \in Hub, CreateHub(h) \/ RemoveHub(h)
      PROVE  CountIsCurrent' /\ NoUpdateLost'
  BY <1>2, ChangeNotifies DEF CountIsCurrent, NoUpdateLost
<1>3. ASSUME UNCHANGED <<rooms, lobbyPc, asked, list, shown>>,
             ~update' => ~update \/ UpdatesClosed', UpdatesClosed => UpdatesClosed'
      PROVE  CountIsCurrent' /\ NoUpdateLost'
  BY <1>3 DEF ManagerInvariant, CountIsCurrent, NoUpdateLost, ListIsCurrent
<1>4. ASSUME NEW h \in Hub, Join(h) \/ Leave(h)
      PROVE  CountIsCurrent' /\ NoUpdateLost'
  BY <1>3, <1>4 DEF Join, Leave, HubNotifies, UpdatesClosed, TypeOK
<1>5. ASSUME NEW h \in Hub, StopCase(h) \/ DrainLeave(h) \/ DrainDone(h) \/ Stop(h)
      PROVE  CountIsCurrent' /\ NoUpdateLost'
  BY <1>3, <1>5 DEF StopCase, DrainLeave, DrainDone, Stop, UpdatesClosed
<1>6. CASE \/ CheckShutdown \/ \E r \in Room : CreateRefused(r)
           \/ ListRoomsPanics \/ UNCHANGED vars
  BY <1>3, <1>6 DEF CheckShutdown, CreateRefused, ListRoomsPanics, vars, UpdatesClosed
<1>7. CASE Signal \/ Snapshot \/ WaitHubs \/ CloseUpdates \/ Exit
  BY <1>3, <1>7 DEF Signal, Snapshot, WaitHubs, CloseUpdates, Exit, UpdatesClosed
<1> QED
  BY <1>1, <1>2, <1>4, <1>5, <1>6, <1>7
  DEF Next, Creators, HubReturns, ShutdownGoesOn

-----------------------------------------------------------------------------
LEMMA InvNext == TypeOK /\ ManagerInvariant /\ [Next]_vars => ManagerInvariant'
BY RoomsStep, ShutdownStep, CrashStep, ListStep DEF ManagerInvariant

\* The inductive invariant holds of every behaviour of the manager.
THEOREM ManagerCorrect == Spec => []ManagerInvariant
<1>1. TypeOK /\ ManagerInvariant /\ [Next]_vars => TypeOK' /\ ManagerInvariant'
  BY TypeNext, InvNext
<1> QED BY <1>1, TypeInit, InvInit, PTL DEF Spec

\* m.rooms holds under its name every hub whose goroutine runs and no hub that
\* has gone: removeHub removes its caller and CreateHub replaces no hub.
THEOREM RoomsAreExact == Spec => []RoomsAreHubs
<1>1. ManagerInvariant => RoomsAreHubs
  BY DEF ManagerInvariant
<1> QED BY <1>1, ManagerCorrect, PTL

\* Merging notifications in a channel of one loses no change of the rooms.
THEOREM NotificationsSuffice == Spec => []NoUpdateLost
<1>1. ManagerInvariant => NoUpdateLost
  BY DEF ManagerInvariant
<1> QED BY <1>1, ManagerCorrect, PTL

\* The manager's goroutines panic only of a stopped hub's count, or of a hub
\* created after ShutdownAllHubs looked.
THEOREM CrashesOnlyInShutdown == Spec => []CrashesExplained
<1>1. ManagerInvariant => CrashesExplained
  BY DEF ManagerInvariant
<1> QED BY <1>1, ManagerCorrect, PTL

\* Until ShutdownAllHubs has looked for the hubs nothing of the manager panics:
\* whatever rooms are created, emptied and listed meanwhile.
THEOREM ServerUpDoesNotCrash ==
  Spec => [](shutdownPc \in {"up", "signalled"} => crashed = "no")
<1>1. TypeOK /\ ManagerInvariant =>
        (shutdownPc \in {"up", "signalled"} => crashed = "no")
  BY DEF TypeOK, ManagerInvariant, CrashesExplained, StopsFollowSnapshot, LateHub
<1> QED BY <1>1, TypeCorrect, ManagerCorrect, PTL

\* A hub the shutdown will not stop was created by a call of CreateHub that had
\* found shutdownChan open before: ShutdownAllHubs finds every hub there is.
THEOREM OnlyCreatorsAreLate == Spec => LateHubsAreCreated
<1>1. TypeOK /\ ManagerInvariant /\ [Next]_vars =>
        [~LateHub /\ LateHub' => shutdownPc # "up" /\ creating' < creating]_vars
  <2> SUFFICES ASSUME TypeOK, ManagerInvariant, [Next]_vars, ~LateHub, LateHub'
               PROVE  shutdownPc # "up" /\ creating' < creating
    OBVIOUS
  <2> USE DEF manager, hubs, closing
  <2>1. ASSUME UNCHANGED <<shutdownPc, hubsToShutdown>>, Running' \subseteq Running
        PROVE  FALSE
    BY <2>1 DEF LateHub
  <2>2. ASSUME NEW h \in Hub, CreateHub(h)
        PROVE  shutdownPc # "up" /\ creating' < creating
    BY <2>2, ManagerAssumption DEF CreateHub, LateHub, TypeOK, ManagerAssumption
  <2>3. CASE Snapshot
    <3>1. Running' = Running /\ hubsToShutdown' = Listed
      BY <2>3 DEF Snapshot, Running
    <3>2. Running \subseteq Listed
      BY <2>3 DEF Snapshot, Running, Listed, Alive, ManagerInvariant, RoomsAreHubs
    <3> QED BY <3>1, <3>2 DEF LateHub
  <2>4. CASE \/ CheckShutdown \/ \E r \in Room : CreateRefused(r)
             \/ LobbyRoutine \/ ListRoomsPanics \/ UNCHANGED vars
    <3>1. UNCHANGED <<shutdownPc, hubsToShutdown, hubPc>>
      BY <2>4 DEF CheckShutdown, CreateRefused, LobbyRoutine, TakeUpdate, CopyHubs,
         CountHub, Broadcast, LobbyReturns, ListRoomsPanics, vars
    <3> QED BY <2>1, <3>1 DEF Running
  <2>5. CASE Signal \/ WaitHubs \/ CloseUpdates \/ Exit
    <3>1. /\ UNCHANGED <<hubsToShutdown, hubPc>>
          /\ shutdownPc' = "signalled" \/ shutdownPc \notin {"up", "signalled"}
      BY <2>5 DEF Signal, WaitHubs, CloseUpdates, Exit
    <3> QED BY <3>1 DEF LateHub, Running
  <2>6. ASSUME NEW h \in Hub,
               Stop(h) \/ Join(h) \/ Leave(h) \/ DrainLeave(h) \/ HubReturns(h)
        PROVE  FALSE
    <3>1. UNCHANGED <<shutdownPc, hubsToShutdown>>
      BY <2>6 DEF Stop, Join, Leave, HubReturns, RemoveHub, StopCase, DrainLeave,
         DrainDone
    <3>2. ASSUME NEW k \in Hub, hubPc'[k] \in {"run", "emptied", "drain"}
          PROVE  hubPc[k] \in {"run", "emptied", "drain"}
      BY <2>6, <3>2 DEF Stop, Join, Leave, HubReturns, RemoveHub, StopCase,
         DrainLeave, DrainDone, TypeOK
    <3> QED BY <2>1, <3>1, <3>2 DEF Running
  <2> QED BY <2>2, <2>3, <2>4, <2>5, <2>6 DEF Next, Creators, ShutdownGoesOn
<1> QED BY <1>1, TypeCorrect, ManagerCorrect, PTL DEF Spec, LateHubsAreCreated

\* "No new hubs can be added after this point" (ShutdownAllHubs) is true of a
\* server in which no call of CreateHub is under way when the shutdown begins, and
\* then no notification meets a closed lobbyUpdates either.
THEOREM NoCreatorNoLateHub ==
  Spec /\ [](shutdownPc # "up" => creating = 0) => [](NoLateHub /\ crashed # "notify")
<1> DEFINE P == shutdownPc # "up" => creating = 0
           A == [~LateHub /\ LateHub' => shutdownPc # "up" /\ creating' < creating]_vars
<1>1. Init => ~LateHub
  BY DEF Init, LateHub
<1>2. TypeOK' /\ P /\ ~LateHub /\ A => ~LateHub'
  <2> SUFFICES ASSUME TypeOK', P, ~LateHub, A, LateHub'
               PROVE  FALSE
    OBVIOUS
  <2>1. CASE UNCHANGED vars
    BY <2>1 DEF vars, hubs, closing, LateHub, Running
  <2>2. CASE shutdownPc # "up" /\ creating' < creating
    BY <2>2, ManagerAssumption DEF ManagerAssumption, TypeOK
  <2> QED BY <2>1, <2>2
<1>3. ManagerInvariant /\ ~LateHub => NoLateHub /\ crashed # "notify"
  BY DEF ManagerInvariant, CrashesExplained, NoLateHub
<1> QED
  BY <1>1, <1>2, <1>3, TypeCorrect, ManagerCorrect, OnlyCreatorsAreLate, PTL
  DEF Spec, LateHubsAreCreated
=============================================================================
