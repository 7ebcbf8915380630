-------------------------------- MODULE Lobby --------------------------------
(***************************************************************************)
(* What the lobby shows: from a change in a room over the notification and *)
(* lobbyBroadcastRoutine to the channels of the lobby streams              *)
(* (hub_manager.go), and through streamEvents (handlers.go) to the page.   *)
(*                                                                         *)
(* Module HubManager has the rooms of a list; here one room that exists    *)
(* throughout stands for them, and of its user count a list says which     *)
(* change of the room it knows of: version counts them, and 0 is the 0     *)
(* users of a hub that did not answer.  A stream has reserved its nickname *)
(* before it comes here (module Nicknames).                                *)
(***************************************************************************)
EXTENDS Integers, Sequences

CONSTANTS
  Stream,     \* handlers of lobby streams that can be active at a time
  ChanCap,    \* capacity of clientChan (2 in streamEvents)
  MaxChanges  \* bound: joins and departures ever

ASSUME LobbyAssumption == ChanCap \in Nat \ {0} /\ MaxChanges \in Nat

VARIABLES
  version,     \* the changes of h.clients so far, the first client being 1
  hubPc,       \* where Hub.Run is
  update,      \* m.lobbyUpdates, of capacity 1, holds a notification
  lobbyPc,     \* where lobbyBroadcastRoutine is
  list,        \* the list that routine has made
  streamPc,    \* streamPc[s]: where streamEvents of stream s is
  clientChan,  \* clientChan[s]: its channel
  hand,        \* hand[s]: the list it is about to write
  shown,       \* shown[s]: the list it wrote last, 0 before there is one
  own,         \* history: shown[s] is the list that s made by itself
  missed,      \* history: the list broadcast last was dropped for s
  closing      \* s.shutdownChan is closed

hub     == <<version, hubPc>>
routine == <<lobbyPc, list>>
streams == <<streamPc, clientChan, hand, shown, own, missed>>
vars    == <<hub, update, routine, streams, closing>>

HubPc == {"select",  \* at the select of Run
          "handler", \* the clients have changed, notifyLobbyUpdate is to come
          "return"}  \* in another part of Run, on the way to its select

LobbyPc == {"wait",   \* receives from lobbyUpdates
            "count",  \* in ListRooms
            "lock",   \* has a list, takes lobbyClientsMu for reading
            "send"}   \* holds it

StreamPc == {"off",    \* no request, or returned
             "list",   \* registered, in its own ListRooms
             "first",  \* about to write the list it made
             "loop",   \* at the select of its loop
             "write",  \* about to write a list it received
             "ended"}  \* deferred: UnregisterLobbyClient

Init ==
  /\ version = 1 /\ hubPc = "select"
  /\ update = FALSE /\ lobbyPc = "wait" /\ list = 0
  /\ streamPc = [s \in Stream |-> "off"]
  /\ clientChan = [s \in Stream |-> <<>>]
  /\ hand = [s \in Stream |-> 0] /\ shown = [s \in Stream |-> 0]
  /\ own = [s \in Stream |-> FALSE] /\ missed = [s \in Stream |-> FALSE]
  /\ closing = FALSE

\* m.lobbyClients.
LobbyClients == {s \in Stream : streamPc[s] # "off"}

\* What GetClientCount answers: the select of Run takes the request only when
\* Run waits there, otherwise the default case says 0.
Count == IF hubPc = "select" THEN version ELSE 0

-----------------------------------------------------------------------------
(* The hub.                                                                *)

\* handleRegistration or handleUnregistration begins.
Change ==
  /\ hubPc = "select" /\ version <= MaxChanges
  /\ hubPc' = "handler" /\ version' = version + 1
  /\ UNCHANGED <<update, routine, streams, closing>>

\* Seeded fault: lobbyUpdates has no capacity, so only a waiting routine hears.
Notify_Unbuffered ==
  /\ hubPc = "handler" /\ hubPc' = "return"
  /\ update' = (update \/ lobbyPc = "wait")
  /\ UNCHANGED <<version, routine, streams, closing>>

\* Its last call, notifyLobbyUpdate.
Notify ==
  /\ hubPc = "handler" /\ hubPc' = "return"
  /\ update' = TRUE
  /\ UNCHANGED <<version, routine, streams, closing>>

\* handleBroadcast begins, which changes nothing the lobby shows.
Relay ==
  /\ hubPc = "select" /\ hubPc' = "return"
  /\ UNCHANGED <<version, update, routine, streams, closing>>

\* Run is back at its select.
Select ==
  /\ hubPc = "return" /\ hubPc' = "select"
  /\ UNCHANGED <<version, update, routine, streams, closing>>

-----------------------------------------------------------------------------
(* lobbyBroadcastRoutine.                                                  *)

TakeUpdate ==
  /\ lobbyPc = "wait" /\ update
  /\ lobbyPc' = "count" /\ update' = FALSE
  /\ UNCHANGED <<hub, list, streams, closing>>

\* ListRooms.
ListRooms ==
  /\ lobbyPc = "count" /\ lobbyPc' = "lock"
  /\ list' = Count
  /\ UNCHANGED <<hub, update, streams, closing>>

\* m.lobbyClientsMu.RLock().
Lock ==
  /\ lobbyPc = "lock" /\ lobbyPc' = "send"
  /\ UNCHANGED <<hub, update, list, streams, closing>>

\* Seeded fault: the routine waits for a full channel, holding lobbyClientsMu.
Broadcast_Blocking ==
  /\ lobbyPc = "send" /\ lobbyPc' = "wait" /\ list' = 0
  /\ \A s \in LobbyClients : Len(clientChan[s]) < ChanCap
  /\ clientChan' = [s \in Stream |-> IF s \in LobbyClients
                      THEN Append(clientChan[s], list) ELSE clientChan[s]]
  /\ missed' = [s \in Stream |-> FALSE]
  /\ UNCHANGED <<hub, update, streamPc, hand, shown, own, closing>>

\* Seeded fault: the list is sent without looking at the capacity.
Broadcast_NoLimit ==
  /\ lobbyPc = "send" /\ lobbyPc' = "wait" /\ list' = 0
  /\ clientChan' = [s \in Stream |-> IF s \in LobbyClients
                      THEN Append(clientChan[s], list) ELSE clientChan[s]]
  /\ missed' = [s \in Stream |-> FALSE]
  /\ UNCHANGED <<hub, update, streamPc, hand, shown, own, closing>>

\* Seeded fault: the newest list overtakes those that wait.
Broadcast_Overtakes ==
  /\ lobbyPc = "send" /\ lobbyPc' = "wait" /\ list' = 0
  /\ LET hasRoom(s) == Len(clientChan[s]) < ChanCap
     IN  /\ clientChan' = [s \in Stream |-> IF s \in LobbyClients /\ hasRoom(s)
                             THEN <<list>> \o clientChan[s] ELSE clientChan[s]]
         /\ missed' = [s \in Stream |-> s \in LobbyClients /\ ~hasRoom(s)]
  /\ UNCHANGED <<hub, update, streamPc, hand, shown, own, closing>>

\* The list to every client; it is dropped for a client whose channel is full.
\* Then RUnlock.
Broadcast ==
  /\ lobbyPc = "send" /\ lobbyPc' = "wait" /\ list' = 0
  /\ LET hasRoom(s) == Len(clientChan[s]) < ChanCap
     IN  /\ clientChan' = [s \in Stream |-> IF s \in LobbyClients /\ hasRoom(s)
                             THEN Append(clientChan[s], list) ELSE clientChan[s]]
         /\ missed' = [s \in Stream |-> s \in LobbyClients /\ ~hasRoom(s)]
  /\ UNCHANGED <<hub, update, streamPc, hand, shown, own, closing>>

-----------------------------------------------------------------------------
(* streamEvents.                                                           *)

\* Seeded fault: the first list is made before the channel is registered.
RegisterLobbyClient_AfterList(s) ==
  /\ streamPc[s] = "off" /\ lobbyPc # "send"
  /\ streamPc' = [streamPc EXCEPT ![s] = "first"]
  /\ \E v \in 1 .. version : hand' = [hand EXCEPT ![s] = v]
  /\ UNCHANGED <<hub, update, routine, clientChan, shown, own, missed, closing>>

\* RegisterLobbyClient, under lobbyClientsMu.
RegisterLobbyClient(s) ==
  /\ streamPc[s] = "off" /\ lobbyPc # "send"
  /\ streamPc' = [streamPc EXCEPT ![s] = "list"]
  /\ UNCHANGED <<hub, update, routine, clientChan, hand, shown, own, missed, closing>>

\* ListRooms for the first list.
FirstList(s) ==
  /\ streamPc[s] = "list"
  /\ streamPc' = [streamPc EXCEPT ![s] = "first"]
  /\ hand' = [hand EXCEPT ![s] = Count]
  /\ UNCHANGED <<hub, update, routine, clientChan, shown, own, missed, closing>>

\* case eventData := <-clientChan.
Receive(s) ==
  /\ streamPc[s] = "loop" /\ clientChan[s] # <<>>
  /\ streamPc' = [streamPc EXCEPT ![s] = "write"]
  /\ hand' = [hand EXCEPT ![s] = Head(clientChan[s])]
  /\ clientChan' = [clientChan EXCEPT ![s] = Tail(@)]
  /\ UNCHANGED <<hub, update, routine, shown, own, missed, closing>>

\* sendSseMessage.
SendSseMessage(s) ==
  /\ streamPc[s] \in {"first", "write"}
  /\ streamPc' = [streamPc EXCEPT ![s] = "loop"]
  /\ shown' = [shown EXCEPT ![s] = hand[s]]
  /\ own' = [own EXCEPT ![s] = streamPc[s] = "first"]
  /\ hand' = [hand EXCEPT ![s] = 0]
  /\ UNCHANGED <<hub, update, routine, clientChan, missed, closing>>

\* sendSseMessage fails.
WriteFails(s) ==
  /\ streamPc[s] \in {"first", "write"}
  /\ streamPc' = [streamPc EXCEPT ![s] = "ended"]
  /\ UNCHANGED <<hub, update, routine, clientChan, hand, shown, own, missed, closing>>

\* case <-r.Context().Done(): the peer is gone, which may be at any time.
PeerGone(s) ==
  /\ streamPc[s] = "loop"
  /\ streamPc' = [streamPc EXCEPT ![s] = "ended"]
  /\ UNCHANGED <<hub, update, routine, clientChan, hand, shown, own, missed, closing>>

\* case <-s.shutdownChan.
SeesShutdown(s) == closing /\ PeerGone(s)

\* UnregisterLobbyClient, under lobbyClientsMu.  The channel is garbage then.
UnregisterLobbyClient(s) ==
  /\ streamPc[s] = "ended" /\ lobbyPc # "send"
  /\ streamPc' = [streamPc EXCEPT ![s] = "off"]
  /\ clientChan' = [clientChan EXCEPT ![s] = <<>>]
  /\ hand' = [hand EXCEPT ![s] = 0] /\ shown' = [shown EXCEPT ![s] = 0]
  /\ own' = [own EXCEPT ![s] = FALSE] /\ missed' = [missed EXCEPT ![s] = FALSE]
  /\ UNCHANGED <<hub, update, routine, closing>>

\* Server.shutdown begins.
Shutdown ==
  /\ ~closing /\ closing' = TRUE
  /\ UNCHANGED <<hub, update, routine, streams>>

-----------------------------------------------------------------------------
HubStep == Change \/ Notify \/ Relay \/ Select

LobbyRoutine == TakeUpdate \/ ListRooms \/ Lock \/ Broadcast

StreamEvents(s) ==
  \/ RegisterLobbyClient(s) \/ FirstList(s) \/ Receive(s) \/ SendSseMessage(s)
  \/ WriteFails(s) \/ PeerGone(s) \/ UnregisterLobbyClient(s)

Next == HubStep \/ LobbyRoutine \/ Shutdown \/ \E s \in Stream : StreamEvents(s)

Spec == Init /\ [][Next]_vars

\* Goroutines are scheduled, and a select that can take shutdownChan again and
\* again takes it.  Nothing is assumed of the users, nor that a write ends: the
\* server sets no deadline for it, so a peer that does not read holds it up.
FairSpec ==
  /\ Spec
  /\ WF_vars(Notify) /\ WF_vars(Select) /\ WF_vars(LobbyRoutine)
  /\ \A s \in Stream :
       /\ WF_vars(FirstList(s)) /\ WF_vars(Receive(s))
       /\ SF_vars(UnregisterLobbyClient(s)) /\ SF_vars(SeesShutdown(s))

-----------------------------------------------------------------------------
(* Safety.                                                                 *)

Version == 0 .. MaxChanges + 1

\* Type correctness; no channel holds more than its capacity, and an
\* unregistered one is gone.
TypeOK ==
  /\ version \in Version \ {0} /\ hubPc \in HubPc /\ update \in BOOLEAN
  /\ lobbyPc \in LobbyPc /\ list \in Version
  /\ streamPc \in [Stream -> StreamPc]
  /\ clientChan \in [Stream -> Seq(Version)]
  /\ \A s \in Stream : Len(clientChan[s]) <= ChanCap
  /\ \A s \in Stream : streamPc[s] = "off" => clientChan[s] = <<>> /\ shown[s] = 0
  /\ hand \in [Stream -> Version] /\ shown \in [Stream -> Version]
  /\ own \in [Stream -> BOOLEAN] /\ missed \in [Stream -> BOOLEAN]
  /\ closing \in BOOLEAN

\* No change is on its way to the lobby routine.
Quiet == ~update /\ hubPc # "handler"

\* A list that says what the room is like, or that its hub did not answer.
Current(v) == v \in {version, 0}

\* The list the page of s will show last if nothing more is broadcast.
Newest(s) ==
  IF clientChan[s] # <<>> THEN clientChan[s][Len(clientChan[s])]
  ELSE IF streamPc[s] \in {"first", "write"} THEN hand[s] ELSE shown[s]

\* A stream that has a list, or will have one from its channel.
Served(s) ==
  \/ streamPc[s] \in {"first", "loop", "write"}
  \/ streamPc[s] = "list" /\ clientChan[s] # <<>>

\* While no change is on its way, the list the routine has made is current.
ListCurrent == lobbyPc \in {"lock", "send"} /\ Quiet => Current(list)

\* When the routine waits and no change is on its way, the last list on its way
\* to the page of a stream is current, unless it was dropped: merging the
\* notifications loses nothing, and neither does opening a stream meanwhile, as
\* it registers its channel before it makes its first list.
StreamsCurrent ==
  lobbyPc = "wait" /\ Quiet =>
    \A s \in Stream : Served(s) => Current(Newest(s)) \/ missed[s]

\* Inductive: nothing is lost on the way from a change in a room to a page.
NothingLost == ListCurrent /\ StreamsCurrent

\* A page goes back to an older list only from the first one, which its stream
\* makes by itself after it has registered a channel that may hold older ones;
\* or because a hub did not answer.
NeverBackwards ==
  [][\A s \in Stream : shown'[s] < shown[s] => own[s] \/ shown'[s] = 0]_vars

-----------------------------------------------------------------------------
(* Liveness, of FairSpec.                                                  *)

\* Once no user comes or goes any more (MaxChanges lets every behaviour come to
\* that point) every page shows a current list, or one was dropped for it.
LobbyConverges ==
  <>[](\A s \in Stream :
         streamPc[s] = "loop" => Current(shown[s]) \/ missed[s])

\* A write to the peer of s is under way; with no deadline it may stay so.
Writing(s) == streamPc[s] \in {"first", "write"}

\* A stream none of whose writes goes on for ever ends when the server shuts down,
\* and one that has ended is unregistered: nobody waits for the other with
\* lobbyClientsMu in hand.
StreamsEnd ==
  \A s \in Stream :
    []<>~Writing(s) =>
      ((closing \/ streamPc[s] = "ended") ~> streamPc[s] = "off")
=============================================================================
