----------------------------- MODULE HubManager -----------------------------
(***************************************************************************)
(* HubManager (internal/chat/hub_manager.go): the map of rooms, creating   *)
(* and removing hubs, the routine that shows the room list in the lobby,   *)
(* and the shutdown of the server (internal/server/server.go).             *)
(*                                                                         *)
(* A hub appears here as its manager sees it: how many members it has, and *)
(* whether it runs, drains after Stop or has returned.  Module Hub shows   *)
(* how one hub gets there.  A critical section of roomsMu holds no         *)
(* operation that can block, so it is one action.                          *)
(***************************************************************************)
EXTENDS Integers, FiniteSets

CONSTANTS
  Room,         \* the room names that pass validateRoomID
  MaxHubs,      \* bound: hubs ever created under one name
  MaxUsers,     \* bound: members of a hub at a time
  MaxCreators   \* bound: requests to create a room handled at a time

ASSUME ManagerAssumption ==
  MaxHubs \in Nat /\ MaxUsers \in Nat /\ MaxCreators \in Nat

\* The *Hub values NewHub returns: a name, and which hub of that name it is.
Hub == [ID : Room, nth : 1 .. MaxHubs]

\* The nil *Hub: no room of this name is in m.rooms.
NoHub == [ID |-> "none", nth |-> 0]

VARIABLES
  rooms,       \* m.rooms
  hubPc,       \* hubPc[h]: the life of h
  users,       \* users[h]: len(h.clients)
  stopped,     \* the hubs whose h.stop is closed
  creating,    \* the calls of CreateHub that found shutdownChan open
  shutdownPc,  \* the goroutine of Server.shutdown
  hubsToShutdown,  \* the hubs ShutdownAllHubs found
  update,      \* m.lobbyUpdates, of capacity 1, holds a notification
  lobbyPc,     \* the goroutine of lobbyBroadcastRoutine
  asked,       \* ListRooms in that routine: the hubs still to be counted
  list,        \* ListRooms in that routine: the counts, by room
  shown,       \* the list it broadcast last, by room
  crashed      \* what a goroutine outside net/http panicked of

manager == <<rooms, creating>>
hubs    == <<hubPc, users, stopped>>
closing == <<shutdownPc, hubsToShutdown>>
lobby   == <<lobbyPc, asked, list, shown>>
vars    == <<manager, hubs, closing, update, lobby, crashed>>

HubPc == {"unborn",   \* not created
          "run",      \* in the main loop
          "emptied",  \* the last member has left, removeHub not called yet
          "removed",  \* returned, after removeHub
          "drain",    \* in the stop case, waiting for the members
          "stopped"}  \* returned from the stop case, getClientCount closed

ShutdownPc == {"up",        \* no signal yet
               "signalled", \* shutdownChan is closed
               "stopping",  \* holds hubsToShutdown, calling Stop on each
               "waited",    \* hubWg.Wait has returned
               "closed",    \* lobbyUpdates is closed
               "exited"}    \* managerWg.Wait has returned, the process ends

Absent == -1  \* in a list: the room is not in it

Init ==
  /\ rooms = [r \in Room |-> NoHub] /\ creating = 0
  /\ hubPc = [h \in Hub |-> "unborn"] /\ users = [h \in Hub |-> 0]
  /\ stopped = {}
  /\ shutdownPc = "up" /\ hubsToShutdown = {}
  /\ update = FALSE
  /\ lobbyPc = "wait" /\ asked = {}
  /\ list = [r \in Room |-> Absent] /\ shown = [r \in Room |-> Absent]
  /\ crashed = "no"

Alive == crashed = "no" /\ shutdownPc # "exited"

Listed == {h \in Hub : rooms[h.ID] = h}

\* What hubWg counts.
Running == {h \in Hub : hubPc[h] \in {"run", "emptied", "drain"}}

UpdatesClosed == shutdownPc \in {"closed", "exited"}

-----------------------------------------------------------------------------
\* notifyLobbyUpdate by the goroutine of a hub, which nobody recovers for.
HubNotifies ==
  /\ crashed' = IF UpdatesClosed THEN "notify" ELSE crashed
  /\ update' = (update \/ ~UpdatesClosed)

\* Seeded fault: CreateHub does not notify the lobby.
CreatorNotifies_Never == UNCHANGED update

\* notifyLobbyUpdate by createRoomHandler: net/http recovers from its panic.
CreatorNotifies == update' = (update \/ ~UpdatesClosed)

-----------------------------------------------------------------------------
(* CreateHub, called by createRoomHandler.                                 *)

\* The manager is not shutting down, and the name is valid.
CheckShutdown ==
  /\ Alive
  /\ shutdownPc = "up" /\ creating < MaxCreators
  /\ creating' = creating + 1
  /\ UNCHANGED <<rooms, hubs, closing, update, lobby, crashed>>

\* A room of this name exists.
CreateRefused(r) ==
  /\ Alive
  /\ creating > 0 /\ rooms[r] # NoHub
  /\ creating' = creating - 1
  /\ UNCHANGED <<rooms, hubs, closing, update, lobby, crashed>>

\* h is the hub NewHub returns next for its name.
IsNext(h) ==
  /\ hubPc[h] = "unborn"
  /\ \A k \in Hub : k.ID = h.ID /\ k.nth < h.nth => hubPc[k] # "unborn"

\* Seeded fault: CreateHub does not look whether the room exists.
CreateHub_NoLookup(h) ==
  /\ Alive
  /\ creating > 0 /\ IsNext(h)
  /\ creating' = creating - 1
  /\ rooms' = [rooms EXCEPT ![h.ID] = h]
  /\ hubPc' = [hubPc EXCEPT ![h] = "run"]
  /\ CreatorNotifies
  /\ UNCHANGED <<users, stopped, closing, lobby, crashed>>

\* Under roomsMu: NewHub, start Run, enter the hub, notify the lobby.
CreateHub(h) ==
  /\ Alive
  /\ creating > 0 /\ rooms[h.ID] = NoHub /\ IsNext(h)
  /\ creating' = creating - 1
  /\ rooms' = [rooms EXCEPT ![h.ID] = h]
  /\ hubPc' = [hubPc EXCEPT ![h] = "run"]
  /\ CreatorNotifies
  /\ UNCHANGED <<users, stopped, closing, lobby, crashed>>

-----------------------------------------------------------------------------
(* The hubs.                                                               *)

\* handleRegistration, for a connection that found the hub with GetHub.
Join(h) ==
  /\ Alive
  /\ hubPc[h] = "run" /\ users[h] < MaxUsers
  /\ users' = [users EXCEPT ![h] = @ + 1]
  /\ HubNotifies
  /\ UNCHANGED <<manager, hubPc, stopped, closing, lobby>>

\* handleUnregistration: the hub that becomes empty leaves its main loop.
Leave(h) ==
  /\ Alive
  /\ hubPc[h] = "run" /\ users[h] > 0
  /\ users' = [users EXCEPT ![h] = @ - 1]
  /\ hubPc' = [hubPc EXCEPT ![h] = IF users[h] = 1 THEN "emptied" ELSE "run"]
  /\ HubNotifies
  /\ UNCHANGED <<manager, stopped, closing, lobby>>

\* removeHub(h.ID) deletes whatever hub is entered under that name.  A panic of
\* its notification keeps Run from returning.
RemoveHub(h) ==
  /\ Alive
  /\ hubPc[h] = "emptied"
  /\ hubPc' = IF UpdatesClosed THEN hubPc ELSE [hubPc EXCEPT ![h] = "removed"]
  /\ rooms' = [rooms EXCEPT ![h.ID] = NoHub]
  /\ IF rooms[h.ID] # NoHub THEN HubNotifies ELSE UNCHANGED <<update, crashed>>
  /\ UNCHANGED <<creating, users, stopped, closing, lobby>>

\* case <-h.stop.
StopCase(h) ==
  /\ Alive
  /\ hubPc[h] = "run" /\ h \in stopped
  /\ hubPc' = [hubPc EXCEPT ![h] = "drain"]
  /\ UNCHANGED <<manager, users, stopped, closing, update, lobby, crashed>>

\* Seeded fault: the hub counts one unregistration more than it has members.
DrainLeave_Extra(h) ==
  /\ Alive
  /\ hubPc[h] = "drain"
  /\ users' = [users EXCEPT ![h] = @ - 1]
  /\ UNCHANGED <<manager, hubPc, stopped, closing, update, lobby, crashed>>

\* In the stop case a member unregisters; the lobby is not told.
DrainLeave(h) ==
  /\ Alive
  /\ hubPc[h] = "drain" /\ users[h] > 0
  /\ users' = [users EXCEPT ![h] = @ - 1]
  /\ UNCHANGED <<manager, hubPc, stopped, closing, update, lobby, crashed>>

\* Empty: close(h.getClientCount) and return.  The hub stays in m.rooms.
DrainDone(h) ==
  /\ Alive
  /\ hubPc[h] = "drain" /\ users[h] = 0
  /\ hubPc' = [hubPc EXCEPT ![h] = "stopped"]
  /\ UNCHANGED <<manager, users, stopped, closing, update, lobby, crashed>>

-----------------------------------------------------------------------------
(* ListRooms and GetClientCount.                                           *)

\* GetClientCount of h, as a set of results: the count if h is at a select that
\* receives from getClientCount, 0 if it is in a handler or h.stop is closed.
Counts(h) == IF hubPc[h] \in {"run", "drain"} THEN {users[h], 0} ELSE {0}

\* Of a hub whose getClientCount is closed both that case and <-h.stop are
\* ready, and the select may take the send, which panics.
MayPanic(h) == hubPc[h] = "stopped"

\* listRoomsHandler and the first list of an SSE stream: one goroutine per hub,
\* which net/http does not recover for.  What they answer is of no consequence.
ListRoomsPanics ==
  /\ Alive
  /\ \E h \in Listed : MayPanic(h)
  /\ crashed' = "count"
  /\ UNCHANGED <<manager, hubs, closing, update, lobby>>

\* lobbyBroadcastRoutine: receives a notification.
TakeUpdate ==
  /\ Alive
  /\ lobbyPc = "wait" /\ update
  /\ update' = FALSE /\ lobbyPc' = "list"
  /\ UNCHANGED <<manager, hubs, closing, asked, list, shown, crashed>>

\* Seeded fault: ListRooms keeps what the last call left in its list.
CopyHubs_KeepsList ==
  /\ Alive
  /\ lobbyPc = "list" /\ lobbyPc' = "count"
  /\ asked' = Listed
  /\ UNCHANGED <<manager, hubs, closing, update, list, shown, crashed>>

\* ListRooms: copy the hubs under roomsMu.
CopyHubs ==
  /\ Alive
  /\ lobbyPc = "list" /\ lobbyPc' = "count"
  /\ asked' = Listed /\ list' = [r \in Room |-> Absent]
  /\ UNCHANGED <<manager, hubs, closing, update, shown, crashed>>

\* ListRooms: count one of them.
CountHub(h) ==
  /\ Alive
  /\ lobbyPc = "count" /\ h \in asked
  /\ \/ \E n \in Counts(h) : list' = [list EXCEPT ![h.ID] = n]
        /\ asked' = asked \ {h} /\ UNCHANGED crashed
     \/ MayPanic(h) /\ crashed' = "count" /\ UNCHANGED <<asked, list>>
  /\ UNCHANGED <<manager, hubs, closing, update, lobbyPc, shown>>

\* Seeded fault: a notification that came in meanwhile is taken for served.
Broadcast_DropsUpdate ==
  /\ Alive
  /\ lobbyPc = "count" /\ asked = {}
  /\ lobbyPc' = "wait" /\ shown' = list /\ update' = FALSE
  /\ UNCHANGED <<manager, hubs, closing, asked, list, crashed>>

\* All are counted: broadcast the list, and wait for the next notification.
Broadcast ==
  /\ Alive
  /\ lobbyPc = "count" /\ asked = {}
  /\ lobbyPc' = "wait" /\ shown' = list
  /\ UNCHANGED <<manager, hubs, closing, update, asked, list, crashed>>

\* lobbyUpdates is closed and has been read to its end.
LobbyReturns ==
  /\ Alive
  /\ lobbyPc = "wait" /\ UpdatesClosed /\ ~update
  /\ lobbyPc' = "exited"
  /\ UNCHANGED <<manager, hubs, closing, update, asked, list, shown, crashed>>

-----------------------------------------------------------------------------
(* Server.shutdown and ShutdownAllHubs.                                    *)

\* A signal: close(s.shutdownChan), close(m.shutdownChan).
Signal ==
  /\ Alive
  /\ shutdownPc = "up" /\ shutdownPc' = "signalled"
  /\ UNCHANGED <<manager, hubs, hubsToShutdown, update, lobby, crashed>>

\* Seeded fault: rooms that nobody is in are not worth stopping.
Snapshot_SkipsEmpty ==
  /\ Alive
  /\ shutdownPc = "signalled" /\ shutdownPc' = "stopping"
  /\ hubsToShutdown' = {h \in Listed : users[h] > 0}
  /\ UNCHANGED <<manager, hubs, update, lobby, crashed>>

\* Copy the hubs under roomsMu.
Snapshot ==
  /\ Alive
  /\ shutdownPc = "signalled" /\ shutdownPc' = "stopping"
  /\ hubsToShutdown' = Listed
  /\ UNCHANGED <<manager, hubs, update, lobby, crashed>>

\* hub.Stop().
Stop(h) ==
  /\ Alive
  /\ shutdownPc = "stopping" /\ h \in hubsToShutdown \ stopped
  /\ stopped' = stopped \cup {h}
  /\ UNCHANGED <<manager, hubPc, users, closing, update, lobby, crashed>>

\* Seeded fault: ShutdownAllHubs does not wait for the hubs.
WaitHubs_NoWait ==
  /\ Alive
  /\ shutdownPc = "stopping" /\ hubsToShutdown \subseteq stopped
  /\ shutdownPc' = "waited"
  /\ UNCHANGED <<manager, hubs, hubsToShutdown, update, lobby, crashed>>

\* m.hubWg.Wait().
WaitHubs ==
  /\ Alive
  /\ shutdownPc = "stopping" /\ hubsToShutdown \subseteq stopped /\ Running = {}
  /\ shutdownPc' = "waited"
  /\ UNCHANGED <<manager, hubs, hubsToShutdown, update, lobby, crashed>>

\* Seeded fault: ShutdownAllHubs waits for the routine before it ends its loop.
CloseUpdates_AfterWait ==
  /\ Alive
  /\ shutdownPc = "waited" /\ lobbyPc = "exited" /\ shutdownPc' = "closed"
  /\ UNCHANGED <<manager, hubs, hubsToShutdown, update, lobby, crashed>>

\* close(m.lobbyUpdates).
CloseUpdates ==
  /\ Alive
  /\ shutdownPc = "waited" /\ shutdownPc' = "closed"
  /\ UNCHANGED <<manager, hubs, hubsToShutdown, update, lobby, crashed>>

\* m.managerWg.Wait(), then httpServer.Shutdown, which is bounded by a timeout.
Exit ==
  /\ Alive
  /\ shutdownPc = "closed" /\ lobbyPc = "exited"
  /\ shutdownPc' = "exited"
  /\ UNCHANGED <<manager, hubs, hubsToShutdown, update, lobby, crashed>>

-----------------------------------------------------------------------------
Creators ==
  \/ CheckShutdown
  \/ \E r \in Room : CreateRefused(r)
  \/ \E h \in Hub : CreateHub(h)

\* What the goroutine of h does without being asked by a client.
HubReturns(h) == RemoveHub(h) \/ StopCase(h) \/ DrainDone(h)

LobbyRoutine ==
  \/ TakeUpdate \/ CopyHubs \/ Broadcast \/ LobbyReturns
  \/ \E h \in Hub : CountHub(h)

\* The rest of shutdown, once it has begun.
ShutdownGoesOn ==
  \/ Snapshot \/ WaitHubs \/ CloseUpdates \/ Exit
  \/ \E h \in Hub : Stop(h)

Next ==
  \/ Creators \/ LobbyRoutine \/ ListRoomsPanics \/ Signal \/ ShutdownGoesOn
  \/ \E h \in Hub : Join(h) \/ Leave(h) \/ DrainLeave(h) \/ HubReturns(h)

Spec == Init /\ [][Next]_vars

\* The goroutines of the server are scheduled, and Run chooses its stop case
\* some time.  Nothing is assumed of the users, nor that the members of a hub
\* that drains unregister: module Hub shows a hub whose drain never ends.
FairSpec ==
  /\ Spec
  /\ WF_vars(LobbyRoutine) /\ WF_vars(ShutdownGoesOn)
  /\ \A h \in Hub : WF_vars(HubReturns(h))

-----------------------------------------------------------------------------
(* Safety.                                                                 *)

\* Type correctness; ListRooms only ever asks hubs, and of a count says one
\* that a hub can have.
TypeOK ==
  /\ rooms \in [Room -> Hub \cup {NoHub}] /\ creating \in 0 .. MaxCreators
  /\ hubPc \in [Hub -> HubPc] /\ users \in [Hub -> 0 .. MaxUsers]
  /\ stopped \in SUBSET Hub
  /\ shutdownPc \in ShutdownPc /\ hubsToShutdown \in SUBSET Hub
  /\ update \in BOOLEAN
  /\ lobbyPc \in {"wait", "list", "count", "exited"} /\ asked \in SUBSET Hub
  /\ list \in [Room -> -1 .. MaxUsers] /\ shown \in [Room -> -1 .. MaxUsers]
  /\ crashed \in {"no", "count", "notify"}

\* m.rooms holds under its name every hub whose goroutine runs, or was stopped,
\* and no other: no two hubs of one name run, none runs that ShutdownAllHubs
\* could not find, and removeHub, which goes by the name, removes its caller.
RoomsAreHubs ==
  crashed = "no" => \A h \in Hub :
    rooms[h.ID] = h <=> hubPc[h] \in {"run", "emptied", "drain", "stopped"}

\* The list broadcast last has the rooms of m.rooms.
ListIsCurrent == \A r \in Room : shown[r] # Absent <=> rooms[r] # NoHub

\* Notifications are merged, never lost: when the lobby routine waits and none
\* is pending, the rooms in the list it broadcast last are those there are,
\* however creations and removals overlapped with ListRooms.
NoUpdateLost == lobbyPc = "wait" /\ ~update /\ ~UpdatesClosed => ListIsCurrent

\* A hub that ShutdownAllHubs did not find and will not stop.
LateHub ==
  shutdownPc \notin {"up", "signalled"} /\ \E h \in Running : h \notin hubsToShutdown

\* The ways a manager can bring the process down: a count asked of a hub that
\* was stopped, and a hub created so late that lobbyUpdates is closed under it.
\* A server that is not shutting down has neither.
CrashesExplained ==
  /\ crashed = "count" => \E h \in stopped : hubPc[h] = "stopped"
  /\ crashed = "notify" => LateHub

\* The only way to a late hub is a call of CreateHub that found shutdownChan open
\* and goes on after ShutdownAllHubs has looked: the snapshot misses no hub that
\* runs, however many empty or drain meanwhile.
LateHubsAreCreated ==
  [][~LateHub /\ LateHub' => shutdownPc # "up" /\ creating' < creating]_vars

\* A hub is entered under its own name.
NamesMatch == \A r \in Room : rooms[r] # NoHub => rooms[r].ID = r

\* Only hubs that Stop was called on are in their stop case.
DrainIsStopped ==
  \A h \in Hub : hubPc[h] \in {"drain", "stopped"} => h \in stopped

\* The hubs that ShutdownAllHubs found were created before, and none of them
\* runs once it has waited for them.
FoundHubsReturn ==
  /\ \A h \in hubsToShutdown : hubPc[h] # "unborn"
  /\ shutdownPc \in {"waited", "closed", "exited"} => Running \cap hubsToShutdown = {}

\* Stop is called only by ShutdownAllHubs, on the hubs it found.
StopsFollowSnapshot ==
  /\ stopped \subseteq hubsToShutdown
  /\ shutdownPc \in {"up", "signalled"} => hubsToShutdown = {}

\* While no notification is pending, the rooms that ListRooms has counted or
\* still has to count are those there are.
CountIsCurrent ==
  lobbyPc = "count" /\ ~update /\ ~UpdatesClosed =>
    \A r \in Room :
      (list[r] # Absent \/ \E h \in asked : h.ID = r) <=> rooms[r] # NoHub

\* The inductive invariant of the manager; the three safety properties are parts
\* of it.  It relates m.rooms to the life of every hub, to the snapshot of the
\* shutdown and to the listing under way.
ManagerInvariant ==
  /\ RoomsAreHubs /\ NamesMatch
  /\ DrainIsStopped /\ FoundHubsReturn /\ StopsFollowSnapshot /\ CrashesExplained
  /\ CountIsCurrent /\ NoUpdateLost

-----------------------------------------------------------------------------
(* Liveness, of FairSpec.                                                  *)

\* h drains and a member has not unregistered.  Hub!Jammed is how that can last.
HeldUp(h) == hubPc[h] = "drain" /\ users[h] > 0

\* If no hub drains for ever, a shutdown comes to its end: every hub is stopped
\* and waited for, and then the lobby routine, unless a hub was created late or a
\* count panicked.
ShutdownCompletes ==
  (\A h \in Hub : []<>~HeldUp(h)) =>
    (shutdownPc = "signalled" ~>
       (shutdownPc = "exited" \/ LateHub \/ crashed # "no"))

\* Once no room is created or removed any more the lobby shows the rooms there
\* are (MaxHubs lets every behaviour come to that point).
LobbyConverges == <>[](ListIsCurrent \/ LateHub \/ crashed # "no")

-----------------------------------------------------------------------------
(* What the comments say, and the code does not do.                        *)

\* "No new hubs can be added after this point" (ShutdownAllHubs, once it has
\* closed shutdownChan): every hub that runs is one it found.
NoLateHub == ~LateHub

\* "If the hub is stopped or stopping, return 0" (GetClientCount): it does not
\* panic.
CountOfStoppedHubIsZero == crashed # "count"
=============================================================================
