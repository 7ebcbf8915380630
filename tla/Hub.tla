-------------------------------- MODULE Hub ---------------------------------
(***************************************************************************)
(* One chat room of the server: the goroutine of Hub.Run, and for every    *)
(* WebSocket connection that reaches the room the three goroutines that    *)
(* talk to it: the HTTP handler in ServeWS, readPump and writePump         *)
(* (internal/chat/hub.go and internal/chat/client.go).                     *)
(*                                                                         *)
(* One action is one channel operation, or the part of a handler between   *)
(* two channel operations other goroutines can observe.  A loop over all   *)
(* members (handleBroadcast, the close loop of the stop case) is one       *)
(* action: it touches a different channel for every member, so no          *)
(* goroutine can tell at which member it was overtaken.                    *)
(*                                                                         *)
(* register, unregister and stop carry no data: a send on an unbuffered    *)
(* channel is a rendezvous with the case that receives it.  The module is  *)
(* about who waits for whom and who may still send, so of a payload in     *)
(* h.broadcast only its client field is kept (NoClient is nil), and of     *)
(* c.send only how many messages wait in it.  What the messages say is the *)
(* subject of another module.                                              *)
(***************************************************************************)
EXTENDS Integers, Sequences, FiniteSets

CONSTANTS
  Client,        \* the connections (one *Client each) that ever ask for this room
  NoClient,      \* the nil *Client
  BroadcastCap,  \* capacity of h.broadcast (256 in NewHub)
  SendCap        \* capacity of c.send (256 in ServeWS)

ASSUME HubAssumption ==
  /\ NoClient \notin Client
  /\ BroadcastCap \in Nat \ {0}
  /\ SendCap \in Nat \ {0}

VARIABLES
  hubPc,      \* where the goroutine of Hub.Run is
  cur,        \* the client the handler at hubPc is about
  clients,    \* h.clients
  stop,       \* h.stop is closed
  broadcast,  \* h.broadcast: the client field of every payload in it
  reader,     \* reader[c]: wsHandler and ServeWS, then readPump, of connection c
  writer,     \* writer[c]: writePump of connection c
  pending,    \* pending[c]: the number of messages in c.send
  closed,     \* closed[c]: c.send is closed
  panics,     \* readPumps unwinding from a send on their closed c.send
  updatesClosed  \* the manager's lobbyUpdates is closed

vars == <<hubPc, cur, clients, stop, broadcast, reader, writer, pending,
          closed, panics, updatesClosed>>

HubPc == {"run",         \* at the select of the main loop
          "admit",       \* received a registration, client not in clients yet
          "join",        \* member and welcomed, join not yet announced
          "joinCount",   \* join announced, user count not yet
          "leave",       \* deleted from clients, leave not yet announced
          "leaveCount",  \* leave announced, user count not yet
          "emptied",     \* became empty, not yet removed from the manager
          "removed",     \* removed from the manager and returned
          "drain",       \* stop case: waiting for the clients to unregister
          "stopped",     \* stop case: returned
          "panicked"}    \* sent on or closed a closed channel: the process died

ReaderPc == {"idle",       \* no request, or the handler has returned
             "register",   \* ServeWS: holds the hub, blocked in hub.register <-
             "read",       \* readPump: in ReadMessage
             "publish",    \* readPump: blocked in hub.broadcast <-
             "unregister", \* readPump: deferred, blocked in hub.unregister <-
             "cleanup",    \* readPump: deferred, has unregistered
             "done"}       \* readPump: returned, the socket is closed

WriterPc == {"off",    \* not started
             "write",  \* at the select of its loop
             "ended"}  \* returned: c.send was closed, or a write failed

\* A panic ends the process once the panicking goroutine has run its defers.
Dead == hubPc = "panicked" \/ \E c \in panics : reader[c] = "done"

Init ==
  /\ hubPc = "run" /\ cur = NoClient /\ clients = {} /\ stop = FALSE
  /\ broadcast = <<>>
  /\ reader = [c \in Client |-> "idle"]
  /\ writer = [c \in Client |-> "off"]
  /\ pending = [c \in Client |-> 0]
  /\ closed = [c \in Client |-> FALSE]
  /\ panics = {} /\ updatesClosed = FALSE

-----------------------------------------------------------------------------
(* The sends that never block: sendSafe, and the hub's own on h.broadcast. *)

\* c.sendSafe for every c in S: a message for a full channel is dropped.
SendSafe(S) ==
  pending' = [c \in Client |-> IF c \in S /\ pending[c] < SendCap
                               THEN pending[c] + 1 ELSE pending[c]]

\* sendSafe called by Run, whose goroutine has nothing deferred to run when
\* a channel in S is closed and the send panics.
HubSends(S, next) ==
  /\ SendSafe(S)
  /\ hubPc' = IF \E c \in S : closed[c] THEN "panicked" ELSE next

\* Seeded fault: the announcement is queued without looking at the capacity.
Announce_NoLimit == broadcast' = Append(broadcast, NoClient)

\* broadcastNewMessage(nil, ...): dropped when h.broadcast is full.
Announce ==
  broadcast' = IF Len(broadcast) < BroadcastCap
               THEN Append(broadcast, NoClient) ELSE broadcast

\* m.notifyLobbyUpdate, called by Run: it never blocks, and panics once
\* ShutdownAllHubs has closed the channel.  Nobody recovers for Run.
NotifyLobby(next) == hubPc' = IF updatesClosed THEN "panicked" ELSE next

-----------------------------------------------------------------------------
(* The handler of /ws/{room}: getHubFromRequest, then ServeWS.             *)

\* GetHub succeeds while the manager lists the room, that is until removeHub;
\* the upgrade succeeds and the request has a nickname.  Every other request
\* is answered, or dropped by ServeWS, and leaves nothing behind here.
ServeWS(c) ==
  /\ ~Dead
  /\ reader[c] = "idle" /\ hubPc # "removed"
  /\ reader' = [reader EXCEPT ![c] = "register"]
  /\ UNCHANGED <<hubPc, cur, clients, stop, broadcast, writer, pending,
                 closed, panics, updatesClosed>>

-----------------------------------------------------------------------------
(* Hub.Run: the cases of its select, and the handlers they call.           *)

\* case reg := <-h.register.  At the other end of the rendezvous is ServeWS,
\* which then starts both pumps.
Register(c) ==
  /\ ~Dead
  /\ hubPc = "run" /\ reader[c] = "register"
  /\ hubPc' = "admit" /\ cur' = c
  /\ reader' = [reader EXCEPT ![c] = "read"]
  /\ writer' = [writer EXCEPT ![c] = "write"]
  /\ UNCHANGED <<clients, stop, broadcast, pending, closed, panics, updatesClosed>>

\* handleRegistration: h.clients[c] = true, then the welcome.
Admit ==
  /\ ~Dead
  /\ hubPc = "admit"
  /\ clients' = clients \cup {cur}
  /\ HubSends({cur}, "join")
  /\ UNCHANGED <<cur, stop, broadcast, reader, writer, closed, panics, updatesClosed>>

\* Seeded fault: a plain send on h.broadcast, by the only goroutine that receives.
AnnounceJoin_Blocking ==
  /\ ~Dead
  /\ hubPc = "join" /\ hubPc' = "joinCount"
  /\ Len(broadcast) < BroadcastCap
  /\ Announce
  /\ UNCHANGED <<cur, clients, stop, reader, writer, pending,
                 closed, panics, updatesClosed>>

\* handleRegistration: the join message.
AnnounceJoin ==
  /\ ~Dead
  /\ hubPc = "join" /\ hubPc' = "joinCount"
  /\ Announce
  /\ UNCHANGED <<cur, clients, stop, reader, writer, pending,
                 closed, panics, updatesClosed>>

\* handleRegistration: the user count, the lobby, then back to the select.
AnnounceJoinCount ==
  /\ ~Dead
  /\ hubPc = "joinCount" /\ cur' = NoClient
  /\ Announce
  /\ NotifyLobby("run")
  /\ UNCHANGED <<clients, stop, reader, writer, pending, closed, panics, updatesClosed>>

\* Seeded fault: the leaver is announced and stays in clients.
Unregister_NoDelete(c) ==
  /\ ~Dead
  /\ hubPc = "run" /\ reader[c] = "unregister"
  /\ reader' = [reader EXCEPT ![c] = "cleanup"]
  /\ hubPc' = IF c \in clients THEN "leave" ELSE "run"
  /\ cur' = IF c \in clients THEN c ELSE NoClient
  /\ UNCHANGED <<clients, stop, broadcast, writer, pending, closed,
                 panics, updatesClosed>>

\* case client := <-h.unregister, with the delete of handleUnregistration.
Unregister(c) ==
  /\ ~Dead
  /\ hubPc = "run" /\ reader[c] = "unregister"
  /\ reader' = [reader EXCEPT ![c] = "cleanup"]
  /\ hubPc' = IF c \in clients THEN "leave" ELSE "run"
  /\ cur' = IF c \in clients THEN c ELSE NoClient
  /\ clients' = clients \ {c}
  /\ UNCHANGED <<stop, broadcast, writer, pending, closed, panics, updatesClosed>>

\* handleUnregistration: the leave message.
AnnounceLeave ==
  /\ ~Dead
  /\ hubPc = "leave" /\ hubPc' = "leaveCount"
  /\ Announce
  /\ UNCHANGED <<cur, clients, stop, reader, writer, pending,
                 closed, panics, updatesClosed>>

\* Seeded fault: the hub takes itself for empty while one client is left.
AnnounceLeaveCount_OffByOne ==
  /\ ~Dead
  /\ hubPc = "leaveCount" /\ cur' = NoClient
  /\ Announce
  /\ NotifyLobby(IF Cardinality(clients) <= 1 THEN "emptied" ELSE "run")
  /\ UNCHANGED <<clients, stop, reader, writer, pending, closed, panics, updatesClosed>>

\* handleUnregistration: the user count and the lobby.  Its result says if the
\* hub is empty.
AnnounceLeaveCount ==
  /\ ~Dead
  /\ hubPc = "leaveCount" /\ cur' = NoClient
  /\ Announce
  /\ NotifyLobby(IF clients = {} THEN "emptied" ELSE "run")
  /\ UNCHANGED <<clients, stop, reader, writer, pending, closed, panics, updatesClosed>>

\* h.manager.removeHub(h.ID), which tells the lobby, then return.
RemoveHub ==
  /\ ~Dead
  /\ hubPc = "emptied" /\ NotifyLobby("removed")
  /\ UNCHANGED <<cur, clients, stop, broadcast, reader, writer, pending,
                 closed, panics, updatesClosed>>

\* Seeded fault: handleBroadcast waits for room in every member's channel.
HandleBroadcast_Blocking ==
  /\ ~Dead
  /\ hubPc = "run" /\ broadcast # <<>>
  /\ \A c \in clients \ {Head(broadcast)} : pending[c] < SendCap
  /\ broadcast' = Tail(broadcast)
  /\ HubSends(clients \ {Head(broadcast)}, "run")
  /\ UNCHANGED <<cur, clients, stop, reader, writer, closed, panics, updatesClosed>>

\* case payload := <-h.broadcast: to every member but the payload's client.
HandleBroadcast ==
  /\ ~Dead
  /\ hubPc = "run" /\ broadcast # <<>>
  /\ broadcast' = Tail(broadcast)
  /\ HubSends(clients \ {Head(broadcast)}, "run")
  /\ UNCHANGED <<cur, clients, stop, reader, writer, closed, panics, updatesClosed>>

\* Seeded fault: the stop case falls back into the main loop.
StopCase_NoReturn ==
  /\ ~Dead
  /\ hubPc = "run" /\ stop
  /\ hubPc' = IF \E c \in clients : closed[c] THEN "panicked" ELSE "run"
  /\ closed' = [c \in Client |-> closed[c] \/ c \in clients]
  /\ UNCHANGED <<cur, clients, stop, broadcast, reader, writer,
                 pending, panics, updatesClosed>>

\* Seeded fault: the stop case waits for the members but closes no channel.
StopCase_NoClose ==
  /\ ~Dead
  /\ hubPc = "run" /\ stop /\ hubPc' = "drain"
  /\ UNCHANGED <<cur, clients, stop, broadcast, reader, writer, pending,
                 closed, panics, updatesClosed>>

\* case <-h.stop: close every member's send channel.
StopCase ==
  /\ ~Dead
  /\ hubPc = "run" /\ stop
  /\ hubPc' = IF \E c \in clients : closed[c] THEN "panicked" ELSE "drain"
  /\ closed' = [c \in Client |-> closed[c] \/ c \in clients]
  /\ UNCHANGED <<cur, clients, stop, broadcast, reader, writer,
                 pending, panics, updatesClosed>>

\* The inner loop of the stop case: case client := <-h.unregister.
DrainUnregister(c) ==
  /\ ~Dead
  /\ hubPc = "drain" /\ clients # {} /\ reader[c] = "unregister"
  /\ reader' = [reader EXCEPT ![c] = "cleanup"]
  /\ clients' = clients \ {c}
  /\ UNCHANGED <<hubPc, cur, stop, broadcast, writer, pending,
                 closed, panics, updatesClosed>>

\* Seeded fault: the stop case returns without waiting for the members.
DrainDone_NoWait ==
  /\ ~Dead
  /\ hubPc = "drain" /\ hubPc' = "stopped"
  /\ UNCHANGED <<cur, clients, stop, broadcast, reader, writer, pending,
                 closed, panics, updatesClosed>>

\* No member is left: close(h.getClientCount), then return.
DrainDone ==
  /\ ~Dead
  /\ hubPc = "drain" /\ clients = {} /\ hubPc' = "stopped"
  /\ UNCHANGED <<cur, clients, stop, broadcast, reader, writer, pending,
                 closed, panics, updatesClosed>>

-----------------------------------------------------------------------------
(* ShutdownAllHubs.                                                        *)

\* h.Stop(), on a hub that ShutdownAllHubs found; stopOnce makes it once.
Stop ==
  /\ ~Dead
  /\ ~stop /\ ~updatesClosed /\ stop' = TRUE
  /\ UNCHANGED <<hubPc, cur, clients, broadcast, reader, writer, pending,
                 closed, panics, updatesClosed>>

\* close(m.lobbyUpdates), after hubWg.Wait.  A hub that was stopped has returned
\* by then, like one that has removed itself: the step is none of their business.
\* Any other is a late hub, which the shutdown did not find (HubManager!LateHub)
\* and may overtake anywhere.
CloseUpdates ==
  /\ ~Dead
  /\ ~updatesClosed /\ updatesClosed' = TRUE
  /\ ~stop /\ hubPc # "removed"
  /\ UNCHANGED <<hubPc, cur, clients, stop, broadcast, reader, writer,
                 pending, closed, panics>>

-----------------------------------------------------------------------------
(* readPump.                                                               *)

\* ReadMessage fails (the peer left, or the read deadline passed), or the peer
\* sent leave_room: the deferred function starts.
ReadEnds(c) ==
  /\ ~Dead
  /\ reader[c] = "read"
  /\ reader' = [reader EXCEPT ![c] = "unregister"]
  /\ UNCHANGED <<hubPc, cur, clients, stop, broadcast, writer, pending,
                 closed, panics, updatesClosed>>

\* A message to pass on: a chat message within the limit, typing_start or
\* typing_stop.  A message that is not JSON, blank or of an unknown type
\* changes nothing here: readPump goes on reading.
ReadRelayed(c) ==
  /\ ~Dead
  /\ reader[c] = "read"
  /\ reader' = [reader EXCEPT ![c] = "publish"]
  /\ UNCHANGED <<hubPc, cur, clients, stop, broadcast, writer, pending,
                 closed, panics, updatesClosed>>

\* Seeded fault: the payload does not name its sender.
Publish_NoSender(c) ==
  /\ ~Dead
  /\ reader[c] = "publish" /\ Len(broadcast) < BroadcastCap
  /\ broadcast' = Append(broadcast, NoClient)
  /\ reader' = [reader EXCEPT ![c] = "read"]
  /\ UNCHANGED <<hubPc, cur, clients, stop, writer, pending,
                 closed, panics, updatesClosed>>

\* hub.broadcast <- payload: blocks while the channel is full.
Publish(c) ==
  /\ ~Dead
  /\ reader[c] = "publish" /\ Len(broadcast) < BroadcastCap
  /\ broadcast' = Append(broadcast, c)
  /\ reader' = [reader EXCEPT ![c] = "read"]
  /\ UNCHANGED <<hubPc, cur, clients, stop, writer, pending,
                 closed, panics, updatesClosed>>

\* A chat message over the limit is answered by chat_error through sendSafe.
\* If c.send is closed that send panics, and the deferred function starts.
ReadTooLong(c) ==
  /\ ~Dead
  /\ reader[c] = "read"
  /\ IF closed[c]
     THEN /\ panics' = panics \cup {c}
          /\ reader' = [reader EXCEPT ![c] = "unregister"]
          /\ UNCHANGED pending
     ELSE /\ SendSafe({c})
          /\ UNCHANGED <<panics, reader>>
  /\ UNCHANGED <<hubPc, cur, clients, stop, broadcast, writer, closed, updatesClosed>>

\* The rest of the deferred function: RemoveNickname, then conn.Close.
Cleanup(c) ==
  /\ ~Dead
  /\ reader[c] = "cleanup"
  /\ reader' = [reader EXCEPT ![c] = "done"]
  /\ UNCHANGED <<hubPc, cur, clients, stop, broadcast, writer, pending,
                 closed, panics, updatesClosed>>

-----------------------------------------------------------------------------
(* writePump.                                                              *)

\* A write fails: writePump returns.
WriteFails(c) ==
  writer' = [writer EXCEPT ![c] = "ended"]

\* case message := <-c.send: write it to the peer.  The write may fail at any
\* time; once this server has closed the socket it must.
WriteMessage(c) ==
  /\ ~Dead
  /\ writer[c] = "write" /\ pending[c] > 0
  /\ pending' = [pending EXCEPT ![c] = @ - 1]
  /\ \/ reader[c] # "done" /\ UNCHANGED writer
     \/ WriteFails(c)
  /\ UNCHANGED <<hubPc, cur, clients, stop, broadcast, reader,
                 closed, panics, updatesClosed>>

\* case message, ok := <-c.send with !ok: closed, and nothing left in it.
WriterEnds(c) ==
  /\ ~Dead
  /\ writer[c] = "write" /\ closed[c] /\ pending[c] = 0
  /\ writer' = [writer EXCEPT ![c] = "ended"]
  /\ UNCHANGED <<hubPc, cur, clients, stop, broadcast, reader, pending,
                 closed, panics, updatesClosed>>

\* case <-ticker.C: the ping fails.  A ping that is written changes nothing here.
PingFails(c) ==
  /\ ~Dead
  /\ writer[c] = "write"
  /\ WriteFails(c)
  /\ UNCHANGED <<hubPc, cur, clients, stop, broadcast, reader, pending,
                 closed, panics, updatesClosed>>

-----------------------------------------------------------------------------
ReadPump(c) ==
  ReadEnds(c) \/ ReadRelayed(c) \/ Publish(c) \/ ReadTooLong(c) \/ Cleanup(c)

WritePump(c) == WriteMessage(c) \/ WriterEnds(c) \/ PingFails(c)

\* The straight-line code of Run between two waits.
HubHandler ==
  \/ Admit \/ AnnounceJoin \/ AnnounceJoinCount
  \/ AnnounceLeave \/ AnnounceLeaveCount \/ RemoveHub \/ DrainDone

\* The hub receives what connection c sends on an unbuffered channel.
Receive(c) == Register(c) \/ Unregister(c) \/ DrainUnregister(c)

Run ==
  \/ HubHandler \/ HandleBroadcast \/ StopCase
  \/ \E c \in Client : Receive(c)

Next ==
  \/ Run \/ Stop \/ CloseUpdates
  \/ \E c \in Client : ServeWS(c) \/ ReadPump(c) \/ WritePump(c)

Spec == Init /\ [][Next]_vars

-----------------------------------------------------------------------------
(* Fairness.  Goroutines are scheduled; select picks at random among the   *)
(* cases that are ready, so a case ready again and again is taken; senders *)
(* blocked on a channel are served in order.  A writePump that has         *)
(* returned sends no pings, so no pong moves the read deadline of its      *)
(* connection any more and ReadMessage fails however busy the peer is: of  *)
(* peers it is assumed that they send no pong they were not asked for      *)
(* (the pong handler of client.go would move the deadline), and nothing    *)
(* else.  Nor is it assumed that Stop is ever called.                      *)

\* A connection comes and goes once, so of all cases of the select only the one
\* that receives from h.broadcast is taken without end.  To be fair to the others
\* together is to be fair to each.
RunFairness ==
  /\ SF_vars(HandleBroadcast)
  /\ SF_vars(HubHandler \/ StopCase \/ \E c \in Client : Receive(c))

ReadDeadline(c) == writer[c] # "write" /\ ReadEnds(c)

PumpFairness ==
  \A c \in Client :
    /\ SF_vars(Publish(c)) /\ SF_vars(ReadDeadline(c) \/ Cleanup(c))
    /\ WF_vars(WriteMessage(c) \/ WriterEnds(c))

FairSpec == Spec /\ RunFairness /\ PumpFairness

-----------------------------------------------------------------------------
(* Safety.                                                                 *)

\* Type correctness; the two buffered channels stay within their capacity.
TypeOK ==
  /\ hubPc \in HubPc
  /\ cur \in Client \cup {NoClient} /\ (hubPc = "admit" => cur # NoClient)
  /\ clients \in SUBSET Client
  /\ stop \in BOOLEAN /\ updatesClosed \in BOOLEAN
  /\ broadcast \in Seq(Client \cup {NoClient}) /\ Len(broadcast) <= BroadcastCap
  /\ reader \in [Client -> ReaderPc]
  /\ writer \in [Client -> WriterPc]
  /\ pending \in [Client -> 0 .. SendCap]
  /\ closed \in [Client -> BOOLEAN]
  /\ panics \in SUBSET Client

\* When the goroutine of Run has returned, no readPump of the room is left that
\* would send to it: its sends on h.broadcast and h.unregister, which have no
\* alternative in a select, never wait for a hub that is gone.
NoStrandedPump ==
  hubPc \in {"removed", "stopped"} =>
    \A c \in Client : reader[c] \notin {"read", "publish", "unregister"}

\* The ways a room can bring the process down.  Run never sends on a c.send it
\* has closed nor closes one twice: its only panic is the notification of a hub
\* that Stop was never called on, after lobbyUpdates is closed.  A readPump can
\* panic only once the stop case has closed the members' channels.
PanicsExplained ==
  /\ hubPc = "panicked" => updatesClosed /\ ~stop
  /\ panics # {} => hubPc \in {"drain", "stopped"}

\* A readPump that still has to unregister.
InRoom(c) == reader[c] \in {"read", "publish", "unregister"}

\* The members are the connections whose readPump has still to unregister; the
\* one being admitted is not a member yet.
MembersAreInRoom ==
  /\ \A c \in Client :
       c \in clients <=> InRoom(c) /\ ~(hubPc = "admit" /\ cur = c)
  /\ hubPc = "admit" => InRoom(cur)

\* A hub that is about to return, or has, is empty; one that announces somebody
\* who joined is not.
NobodyLeftBehind ==
  /\ hubPc \in {"emptied", "removed", "stopped"} => clients = {}
  /\ hubPc \in {"join", "joinCount"} => clients # {}

\* Send channels are closed by the stop case, which Run never leaves again.
ClosedInDrain ==
  (\E c \in Client : closed[c]) => hubPc \in {"drain", "stopped"}

\* Only a hub that Stop was called on is in its stop case, and none that was is
\* a late hub.
DrainIsStopped == (hubPc \in {"drain", "stopped"} => stop) /\ ~(stop /\ updatesClosed)

\* The inductive invariant of the hub: h.clients is exact, whatever the order of
\* registrations, departures and Stop; the three safety properties follow.
HubInvariant ==
  /\ MembersAreInRoom
  /\ NobodyLeftBehind
  /\ ClosedInDrain
  /\ DrainIsStopped
  /\ PanicsExplained

\* A panic of the notification in handleUnregistration, or in removeHub, leaves
\* an empty hub in the middle of its removal.
Emptied == hubPc = "emptied" \/ (hubPc = "panicked" /\ clients = {})

\* The hub keeps the promise of Membership, with the phase read off hubPc.
Phase ==
  CASE hubPc = "drain" \/ Emptied       -> "closing"
    [] hubPc \in {"removed", "stopped"} -> "gone"
    [] OTHER                            -> "open"

Room == INSTANCE Membership WITH
  phase <- Phase, members <- clients,
  left <- {c \in Client : reader[c] \in {"cleanup", "done"}}

MembershipSpec == Room!Spec

\* The life of the hub as its manager sees it: handleUnregistration empties it
\* for good as soon as it has deleted the last member.
Life ==
  CASE hubPc \in {"removed", "drain", "stopped"} -> hubPc
    [] \/ Emptied
       \/ hubPc \in {"leave", "leaveCount"} /\ clients = {} -> "emptied"
    [] OTHER -> "run"

Manager == INSTANCE RoomLife WITH
  life <- Life, users <- Cardinality(clients), stop <- stop

\* Nobody joins a hub whose last member has left, nor one in its stop case; it
\* enters that case only once stopped, and vanishes with no member in it.
LifeSpec == Manager!Spec

-----------------------------------------------------------------------------
(* Liveness, of FairSpec.                                                  *)

\* A readPump that ends gets its unregistration through and closes its socket,
\* whatever the hub is doing: Run never blocks in a handler of its own.
DepartureServed ==
  \A c \in Client : reader[c] = "unregister" ~> (reader[c] = "done" \/ Dead)

\* The stop case waits only for unregister, so a member blocked on a full
\* h.broadcast keeps it waiting.
Jammed ==
  /\ hubPc = "drain" /\ Len(broadcast) = BroadcastCap
  /\ \E c \in Client : reader[c] = "publish"

\* A member whose writePump has returned is removed, by the read deadline.
DeadConnectionLeaves ==
  \A c \in Client : writer[c] = "ended" ~>
                      (reader[c] = "done" \/ Jammed \/ Dead)

\* Once Stop is called the hub returns, unless it is jammed: there is no other
\* way for a room to hold up the shutdown of the server.
StopReturnsUnlessJammed ==
  stop ~> (hubPc \in {"removed", "stopped"} \/ Jammed \/ Dead)

-----------------------------------------------------------------------------
(* What the comments and the README say, and the code does not do.         *)

\* sendSafe "safely sends a message" (client.go): no send ever panics.
SendSafeIsSafe == panics = {}

\* The stop case waits "for all clients to unregister" (hub.go) and the README
\* promises a shutdown that does not wait forever: a stopped hub returns.
StopReturns == stop ~> (hubPc \in {"removed", "stopped"} \/ Dead)

\* "Register the client immediately" (client.go): a handler that has upgraded
\* its connection does not wait forever for the hub to receive it, at least as
\* long as nobody stops the server.
RegistrationServed ==
  \A c \in Client :
    reader[c] = "register" ~> (reader[c] # "register" \/ stop \/ Dead)
=============================================================================
