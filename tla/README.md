# Verification of go-chat-app

TLA+ specifications of the chat application in `src/`: its rooms and what their
members are told, the connections to them, the manager that creates, lists and
shuts them down, the lobby streams, and the nicknames as browsers and server use
them. TLC checks small instances; the TLA+ proof system proves the safety
properties for every value of the constants.

## The system

The server is one Go process. Its parts, what each keeps and does:

| Part | State | Operations |
| --- | --- | --- |
| Hub (`internal/chat/hub.go`), one goroutine `Run` per room | `clients`; the channels `register`, `unregister`, `getClientCount` (unbuffered), `broadcast` (256), `stop` | register, unregister, broadcast, answer a count, stop |
| Connection (`internal/chat/client.go`): the handler in `ServeWS`, then `readPump` and `writePump` | `send` (256); the socket | register, publish, answer a message that is too long, unregister, write, ping |
| Hub manager (`internal/chat/hub_manager.go`) | `rooms`, `nicknames`, `lobbyClients`, each under a mutex; `lobbyUpdates` (1); `shutdownChan`; `hubWg`, `managerWg` | `CreateHub`, `GetHub`, `removeHub`, `ListRooms`, `AddNickname`, `IsNicknameAvailable`, `RemoveNickname`, `RegisterLobbyClient`, `UnregisterLobbyClient`, `ShutdownAllHubs`, and the goroutine `lobbyBroadcastRoutine` |
| Server (`internal/server/server.go`, `handlers.go`) | `shutdownChan`; one goroutine per HTTP request | routes; the lobby stream (SSE) with a channel of two messages; shutdown on a signal |
| Protocol (`internal/chat/protocol.go`) | none | message types, JSON |
| Browser (`web/static/js`) | view, nickname, lobby stream, socket, who is typing | nickname form, lobby, room, reconnection |
| Configuration (`main.go`) | none after start | read the environment |

How they interact: a handler asks the manager for a hub (`GetHub`), registers a
connection on the hub's channel and starts the two pumps. `readPump` sends to the
hub (`broadcast`, `unregister`), the hub sends to `writePump` (`send`). A hub that
becomes empty removes itself from the manager and returns. Hubs and `CreateHub`
notify the lobby routine, which lists the rooms, asks every hub for its count and
sends the list to the lobby streams. Shutdown closes `shutdownChan`, stops the
hubs, waits for them, closes `lobbyUpdates`, waits for the lobby routine and then
shuts the HTTP server down.

What is hard here:

- goroutines that wait for each other on channels without an alternative in a
  `select`: the hub for its members in the stop case, a member for the hub in
  `broadcast <-`, `register <-` and `unregister <-`;
- a hub that returns (empty, or stopped) while somebody still holds it;
- channels that one goroutine closes and another sends on;
- checks whose result is stale when it is used: `shutdownChan` in `CreateHub`, the
  copy of the map in `ListRooms`, the nickname check of the browser;
- bounded channels that drop: `broadcast`, `send`, `lobbyUpdates`, the lobby
  streams;
- two ends of a connection that learn at different times that it is gone: a
  stream that reconnects over its own reservation, a nickname with two places that
  release it;
- event handlers of a page that run late: `onclose` and the timer it sets, the
  answer to `createRoom`, a second submission of the nickname form, a stream the
  browser reconnects by itself;
- writes without a deadline: a lobby stream whose peer reads nothing.

What makes each part correct: a hub knows its members exactly and nobody waits
for a hub that is gone, a dead connection leaves and a stopped hub returns (Hub);
the members of a room end up with the right user count and typing indicator
(RoomFeed); the map of rooms is exactly the hubs that run, no change of it is lost
on the way to the lobby, and a shutdown ends (HubManager); what a lobby page shows
ends up as the newest list, and every stream ends (Lobby); a nickname in use has a
holder that releases it (Nicknames); a tab has one stream, and a socket when it
shows a room (Session).

## Modules

| Module | What it is |
| --- | --- |
| `Hub` | One room: `Run`, and for every connection `ServeWS`, `readPump`, `writePump`. |
| `Membership` | What a hub promises about who is in the room. `Hub` implements it. |
| `RoomLife` | The life of one hub as its manager relies on it. `Hub` implements it. |
| `HubProofs` | Theorems about `Hub`. |
| `RoomFeed` | `Hub` with the contents of the messages and the pages that show them. |
| `RoomFeedProofs` | Theorems about `RoomFeed`, with those of `HubProofs` for its hub. |
| `HubManager` | Rooms, lobby routine and shutdown; a hub is what its manager sees of it. |
| `HubManagerProofs` | Theorems about `HubManager`. |
| `Lobby` | From a change in a room over the lobby routine and the channels of the streams to the page. |
| `LobbyProofs` | Theorems about `Lobby`. |
| `Nicknames` | The registry and the goroutines that reserve and release names, with any callers. |
| `NicknamesProofs` | Theorems about `Nicknames`. |
| `Session` | The browsers that call `Nicknames`: form, lobby stream, sockets, timers. |
| `SessionProofs` | Theorems about `Session`, which implements `Nicknames`. |
| `MCHub`, `MCHubManager`, `MCRoomFeed`, `MCLobby`, `MCSession` | The modules TLC runs; the `.cfg` files give the constants. |

How they compose: `RoomFeed` extends `Hub` and `Session` extends `Nicknames`, each
action of the larger module being one of the smaller with more said about it;
`Hub` implements `Membership` and `RoomLife`. `HubManager` and `Lobby` each keep of a
hub what the manager sees of it (its life and its count). `RoomLife` writes down the
part `HubManager` relies on, and `Hub` is shown to implement it (`LifeSpec`, with
`Life` read off `hubPc` and the number of members): a hub admits nobody after it has
emptied or drains, drains only when stopped, and returns with nobody in it. That
the hub actions of `HubManager` are those of `RoomLife` for many hubs is for a reader
to compare; there is no refinement from one module to the other. The manager lets a
hub empty in the step that deletes its last member, where `Hub` first queues two
announcements, so `Life` calls it emptied from the delete on.

### Hub

`hubPc` is the place of `Run`: at its `select` (`run`), or in one of the handlers,
with a state for every place where another goroutine can see how far it is.
`cur` is the client that handler is about. `reader[c]` follows one connection from
the handler blocked in `hub.register <-` through `readPump` to the closed socket;
`writer[c]` is `writePump`; `pending[c]` and `closed[c]` are its channel `send`;
`broadcast` is the hub's queue, of which only the sender of each payload is kept.
A rendezvous on an unbuffered channel is one action of both sides (`Register`,
`Unregister`, `DrainUnregister`). `broadcastNewMessage` and `sendSafe` drop when
their channel is full (`Announce`, `SendSafe`); `readPump`'s own `broadcast <-`
waits (`Publish`). A send on a closed `send` panics: in `Run` at once
(`hubPc = "panicked"`), in `readPump` after its deferred function has run
(`panics`, and `Dead` once it is done), which is when Go ends the process. `Run` also
notifies the lobby, after each registration and departure and when it removes its
hub (`NotifyLobby`). That matters to the hub only once the shutdown has closed
`lobbyUpdates` (`CloseUpdates`, `updatesClosed`), which it does while `Run` is still
there only over a hub that `Stop` was never called on: then the send panics.

Not in it: what messages say (`RoomFeed`); the retry of a connection (a new connection is
another member of `Client`); messages that `readPump` skips, which change nothing;
a request that `GetHub`, the upgrade or the missing nickname turns away.

### HubManager

`rooms` is `m.rooms`. A hub is a record of its name and which hub of that name it
is, so two hubs of one name can follow each other. `hubPc[h]`, `users[h]` and
`stopped` are what the manager can see of a hub, following `Hub`: it runs, becomes
empty and removes itself, or drains and stops. `creating` counts the calls of
`CreateHub` between the check of `shutdownChan` and `roomsMu`. `shutdownPc` walks
through `Server.shutdown` and `ShutdownAllHubs`. `update` is the one place in
`lobbyUpdates`; `lobbyPc`, `asked`, `list` are the lobby routine in `ListRooms`, one
step per hub it counts; `shown` is the list it broadcast last. A count may be 0
because the hub is in a handler, and of a hub whose `getClientCount` is closed it
may panic, as both cases of the `select` are ready. Nothing recovers from a panic
in a goroutine of the hub or of `ListRooms` (`crashed`); one in
`createRoomHandler` is recovered by `net/http` and changes nothing else.

A critical section of `roomsMu` contains no blocking operation and is one action.

### RoomFeed

`feed`, `queue[c]` and `draft[c]` are the messages in `h.broadcast`, in `c.send` and in
the hand of a blocked `readPump`. A message is what it is about (the user count, or
a connection that types or not) and what it says; all that changes nothing on a
page is one message `Other`, which takes up room. `users[c]` and `typing[c]` are what
the messages of `c` have made of its page. `lost[c]` is history: what the last
message about was dropped for `c`, by `broadcastNewMessage` for everybody or by
`sendSafe` for one. Every action is the action of `Hub` of that name with the
contents added, so the feed is a hub by construction of the module, which
`FeedIsHub` proves. The stop case, and a room that outlives the manager, are left out:
nothing is told to anybody then.

### Lobby

One room stands for all. `version` counts the changes of its members, and a list is
the version it knows of; 0 is the count of a hub that was not at its `select`, for
which `GetClientCount` answers 0. `hubPc` is as much of `Run` as decides that. The
routine is in four steps, as another goroutine can come between `ListRooms` and
`lobbyClientsMu`, and streams that register or unregister need that lock.
`streamPc[s]` walks through `streamEvents`; its three ways out of the loop are
`WriteFails`, `PeerGone` and `SeesShutdown`. `shown[s]` is the list written last,
`own[s]` and `missed[s]` are history: it is the first list of the stream, or the list
broadcast last was dropped for it.

### Nicknames and Session

`nicknames` is the map; `streamPc[s]` and `streamName[s]` are a handler in
`sseHandler`; `connPc[c]` and `connName[c]` are a connection in `ServeWS` and
`readPump`. In `Session`, `view`, `nick`, `source`, `socket` are the fields of `state` of
every tab; `sourceName[u]` and `sockName[c]` are the nicknames in the URLs of a stream
and a socket, which keep the value `state.myNickname` had when they were made. A
handler of an event is one action; `handleNicknameSubmit` and the submission of a new
room end at their `await` and go on in another (`AnswerFree`, `SubmitFails` and
`EnterLobby`; `CreateAnswered`). The submit button (`enabled`) is disabled by a
submission, but what the user types meanwhile enables it again (`TypeNickname`), so
several submissions of a tab can be under way (`asked`, `free`), and each that is
answered "available" gives the tab its nickname and shows the lobby in whatever view
the tab is by then. `connectLobbyStream` keeps the stream of the first: the name the
tab shows need not be the one it holds.

`owner[c]` is the tab whose script still has events of socket `c` to come, and
`timers` holds the sockets whose `onclose` has scheduled a `show-lobby` event: an old
socket closes, and its timer fires, while `state.socket` is another one. `peer[s]` is
what ties a handler to the tab at the other end; `StreamLost` breaks it for the
browser first and `StreamEnds` for the server later. `Reload` starts the script
again, so one tab also stands for users one after the other. A refused stream is
kept by the browser and asked for again, as the page does not recognise the error.
The loader over the list of rooms is left out: it stops the mouse, not the keyboard.

## Runs

| Run | Instance | Shows |
| --- | --- | --- |
| `hub` | 2 connections, both capacities 1 | types, the inductive invariant, no stranded `readPump`, the causes of a panic, `Membership` and `RoomLife` implemented, departures get through, dead connections leave, only a full `broadcast` holds up a stopped hub |
| `hub_register_hangs` | as `hub` | finding: `ServeWS` waits forever for a hub that has returned |
| `hub_stop_hangs` | as `hub` | finding: a `readPump` blocked on a full `broadcast` makes the stop case wait forever |
| `hub_send_panics` | 1 connection, capacities 2 | finding: `sendSafe` on a closed channel |
| `manager` | 2 names, 2 hubs each, 1 member each, 1 creator | types, the inductive invariant, `rooms` exact, no notification lost, the causes of a panic, a hub the shutdown misses was created late, a shutdown ends if no hub drains for ever, the lobby converges |
| `manager_late_hub` | 2 names, 1 hub each, 1 creator | finding: a hub added after `ShutdownAllHubs` has looked |
| `manager_count_panics` | as `manager_late_hub` | finding: counting a stopped hub panics |
| `session` | 1 tab, 2 nicknames, 2 handlers, 1 socket | types, no name leaks, one holder, a lost stream comes back, names come free |
| `session_sockets` | 1 tab, 1 nickname, 2 handlers, 2 sockets | one stream per tab, a socket when a room is shown |
| `session_shared_nickname` | 2 tabs, 2 handlers, 1 socket, 1 nickname | finding: two tabs with one nickname |
| `lobby` | 1 stream, channel of 2, 4 changes | types, nothing lost, no page goes back, the lobby converges, streams end unless a write never does |
| `feed` | 2 connections (symmetric), capacities 2 and 1 | types, the user count and the typing indicator end up right, nobody is told of their own typing |

Why the bounds are enough. In `Hub` two connections let one leave or publish while
the other joins or dies, and each can wait for what the other holds; a handler of
`Run` is about one client at a time. What more connections could do to the safety
properties and the two refinements is left to the theorems, which hold for any
number. A channel of capacity one is full after one message, so every drop and every
wait happens; larger capacities only postpone
them. In `HubManager` two names let a hub be created or removed
while another is counted or stopped; two hubs of one name let a room be recreated
while the removed one is still in a list; one member is enough for a hub to
become empty, and a creator that has passed the check can race with the shutdown.
The bounds that are not in the code are `MaxHubs`, `MaxUsers` and `MaxCreators`.

In `Session` one tab, which is reloaded, already meets itself: its old handler, its
old socket and its old timer. Two handlers let one hold a name while the next asks
for it; two names let submissions overlap (`session`), and two sockets let one close
while the other opens (`session_sockets`), where a tab may still be sent back to the
lobby by a second submission of the same name. `Conn` is the number of sockets ever
opened, so it bounds how often rooms are joined. In `Lobby` streams
do not interact except over `lobbyClientsMu`, which the routine holds against one as
against many; 4 changes fill the channel of two lists that the code has, with one
list in hand and one dropped. In `RoomFeed` an announcement can wait behind another
in a queue of two, and a member's channel is full after one message; two
connections let one leave while the other has just joined. The only bound there
that is not in the code is the number of connections. The theorems hold for every
number of tabs, handlers, sockets, streams, connections and changes, and for all
capacities.

Deadlock is checked in `lobby` and in the runs of `Session`, where a tab can always be
reloaded. Elsewhere the system stops by itself: a server that has been shut down or
that a panic has ended, a room whose last member has left.

### Fairness

`Hub!FairSpec`: goroutines are scheduled, `select` chooses at random among the cases
that are ready, and blocked senders are served in order, so what is ready again and
again is served: strong fairness of `HandleBroadcast`, of the other cases of the
`select` with the handlers they start (a connection comes and goes once, so only
broadcasts can be taken without end), of `Publish(c)`, and weak fairness of
`writePump`. A `writePump` that has returned sends no more pings and the read deadline
is moved only by pongs, so `ReadMessage` fails in the end however much the peer sends
(`ReadDeadline`). That assumes of the peers that they send no pong they were not
asked for: the pong handler (`client.go:116`) would move the deadline for those too,
and `DeadConnectionLeaves` and `StopReturnsUnlessJammed` would not hold. Nothing else
is assumed of them, and `Stop` need not be called.

`HubManager!FairSpec`: the lobby routine and the shutdown go on, and a hub takes its
stop case and leaves it when it is empty. That the members of a draining hub
unregister is not assumed, as the code does not ensure it (`hub_stop_hangs`):
`ShutdownCompletes` is about the behaviours in which no hub drains for ever
(`HeldUp`), and says that nothing else but a late hub or a panicking count can keep a
shutdown from its end. `StopReturnsUnlessJammed` says when a drain ends.

`Session!FairSpec`: the server's goroutines are scheduled; a handler whose peer is
gone learns it from the request's context or a failed write, a `readPump` from the
close frame or its read deadline, and it reads a `leave_room` that was sent. A browser
runs the events it has queued, and an `EventSource` asks again. Only weak fairness
is needed. Of the users it is assumed that they close an alert that holds up a
script, and nothing of the network, so `LobbyServed` has to leave out a stream the
browser has given up, and another tab that asks for the same name.

`Lobby!FairSpec`: the hub, the routine and the handlers go on. That a write to a page
ends is not assumed: `handlers.go:156` sets no deadline and the server no
`WriteTimeout`, so a peer that reads nothing holds its handler up. `StreamsEnd` is
about the streams that are not in a write for ever (`Writing`). Strong fairness is
assumed twice: of the `select` that can take `shutdownChan` again and again (it chooses
at random), and of `lobbyClientsMu.Lock()`, which the lock grants in turn although the
routine takes it for reading between two attempts.

## Proofs

`HubProofs`. `TypeOK` is inductive by itself. The safety properties are not:
`NoStrandedPump` needs to know that a `readPump` that has still to unregister is in
`clients`, and `PanicsExplained` that `send` channels are closed only in the stop case.
`HubInvariant` says so: `MembersAreInRoom` (the members are the connections whose
`readPump` has still to unregister, except the one being admitted),
`NobodyLeftBehind` (a hub about to return is empty), `ClosedInDrain`,
`DrainIsStopped` (only a hub that `Stop` was called on drains, and `lobbyUpdates` is
not closed under one that was) and `PanicsExplained`. Each step of `Run` and of a
connection preserves it (`InvRun`, `InvConnection`). The refinement of `Membership` uses it twice: a connection being
admitted is neither a member nor gone, and an `Unregister` is always of a member.
`HubImplementsLife` is the second refinement. There a join is the one step from
`admit`, where the new member is not yet in `clients`, so that the number of members
goes up by one (`LifeMembers`); members are finitely many because each was added
by a step (`MembersAreFinite`), which lets the theorem hold for infinitely many
connections too; and `DrainIsStopped` gives the guard of `Drain`. `PanicsAreExplained`
is the theorem of `PanicsExplained`: `Run` panics only when it notifies the lobby for
a hub that was never stopped, after `lobbyUpdates` is closed, and a `readPump` only
beside the stop case. `RoomIsHarmless` says what that means for a server that is up.
The only assumptions are that `NoClient` is no connection and that the capacities
are positive.

`HubManagerProofs`. `ManagerInvariant` adds to the three safety properties what makes
them inductive. `RoomsAreHubs` needs nothing. `CrashesExplained` needs
`DrainIsStopped` and `FoundHubsReturn`: the hubs that the shutdown found existed
before and none runs once they were waited for, so a hub that runs after
`lobbyUpdates` is closed was created late. `NoUpdateLost` needs `CountIsCurrent`, the
same statement half-way through a listing, and `NamesMatch`. The argument is that
whoever changes the set of rooms leaves a notification behind in the same critical
section (`ChangeNotifies`) and only the lobby routine takes one away, before it
copies the map.

`LateHubsAreCreated` is about a step: the snapshot of `ShutdownAllHubs` has every hub
that runs, which is `RoomsAreHubs` in the state it is taken in, and from then on only
`CreateHub` can make a hub run that is not in it. From it follows
`NoCreatorNoLateHub`: if no call of `CreateHub` that has passed its check is left once
the shutdown begins, no hub is late and no notification meets a closed
`lobbyUpdates`. `ServerUpDoesNotCrash` needs `StopsFollowSnapshot`: `Stop` is called on
nobody before the snapshot, so no count can panic.

`NicknamesProofs` and `SessionProofs`. `NoNameLeaked` and `ReservationExact` are
inductive with the types alone, and hold of the server with any callers
(`ServerSpec`). `SessionImplementsServer` shows that every step of `Session` is one of
`Nicknames` or changes nothing of it, and so inherits both. `OneStreamPerTab` and
`ChatIsConnected` need `NicknameFirst`, which is part of `TypeOK`: a tab that shows the
form has no stream, no socket and no timer left from before. `OnlyPumpsBreakUniqueness`
names the only way to two streams with one name: the handler of an open stream has
the name in the URL of its tab's `EventSource` (`PeersAgree`), so by `ReservationExact`
one of the two was freed by a `readPump`; `UniqueUntilPumpReturns` draws the conclusion
that the names of streams are unique for as long as none has returned. Both speak of
the name a stream holds, not of `state.myNickname`, which overlapping submissions can
make another one.

`LobbyProofs`. `NothingLost` is inductive with `TypeOK`: its two parts are the same
statement for a list in the routine and for one in a channel. `NeverBackwards` needs
`Ordered`: what is on its way to a page (the list it shows, the one in hand, the
channel, the list in the routine) is in the order of the versions, apart from missing
counts and from the first list. `PromptPagesAreCurrent` is `NothingLost` without its
exception: if no channel is full when the routine broadcasts, `missed` stays false
and every page at rest is current.

`RoomFeedProofs`. `FeedIsHub` gives all of `HubProofs` to the feed. `FeedInvariant` adds
who the senders of the payloads are and that a newcomer's page and channel say
nothing yet (`NewcomersKnowNothing`); with it `UserCountRight` is inductive.
`NoGhostTyping` is not: a newcomer will be told what `h.broadcast` still holds when it
becomes a member, so `NoGhostReaches` says the same of every page that can still be
reached, and of a connection that has left (`MayType`). `OwnTypingUnseen` is inductive
with `OwnInvariant`: a payload that says who types carries its client
(`TypingSigned`), and no channel holds one for the client itself.
`SettledPagesAreRight` removes the exceptions of `UserCountRight` and `NoGhostTyping`: if
what the hub tells finds room whenever it is told (`RoomInChannels`), `lost` stays
empty, and a page that has been written everything is right.

The two theorems with `RoomInChannels` assume of a behaviour what the code does not
ensure, that nobody is slow; they say that the dropping of messages is the only
reason for a wrong page.

The assumptions are the ones the modules name: distinct null values and positive
capacities.

Only model-checked: the liveness properties (`DepartureServed`,
`DeadConnectionLeaves`, `StopReturnsUnlessJammed`, `ShutdownCompletes`, both
`LobbyConverges`, `StreamsEnd`, `LobbyServed`, `NamesComeFree`), as fairness and `ENABLED`
are out of the prover's reach. Every safety property, action property and refinement
that a passing run checks is a theorem.

## Where the code and its comments disagree

Six runs show a violation; each quotes the comment in `PROJECT.json`: a
registration nobody receives, a stopped hub that waits forever, `sendSafe` on a
closed channel, a hub created after the shutdown has looked, a count of a stopped
hub that panics, and a nickname that `readPump` frees although the lobby stream of
the same tab has reserved it and is still open. For three of them a theorem bounds
the damage. That "no new hubs can be added after this point" is true when no
`CreateHub` is under way (`NoCreatorNoLateHub`). Nicknames are unique until a
`readPump` has returned (`UniqueUntilPumpReturns`). And `sendSafe` is safe, like every
other operation of a room, until `Stop` is called or `lobbyUpdates` is closed under a
hub that nobody stopped (`RoomIsHarmless`).

Others were seen in reading and have no run yet:

- `server_shutdown` (`protocol.go:27`) is never sent, although
  `hub_manager.go:118` says that `ShutdownAllHubs` sends a shutdown message;
- `hub_manager.go:289` speaks of filtering removed rooms and nothing does;
- `writePump` may write on a socket that `readPump` has closed, which
  `README.md:75` says is prevented (the write fails and the pump returns);
- `handlers.go:201` sends a JSON error to the lobby stream, `websocket.js:41` looks
  for the prefix `error:`, so a refused stream is retried in silence
  (`StreamRefused`);
- a room that cannot be joined from the lobby gives no message: the view is still
  the lobby, and `onclose` returns early (`websocket.js:91-96`);
- an old socket's timer takes a user who has joined another room back to the lobby
  while the new socket stays open (`websocket.js:113`);
- `main.js:71` disables the submit button to "prevent double submission", and
  `handleNicknameInput` enables it again while the first is awaited (`main.js:184`):
  the tab can then show another name than its stream holds (`session` reaches it);
- the `finally` of `handleNicknameSubmit` always says that the nickname is not
  available (`main.js:103`);
- `IsNicknameAvailable` validates the trimmed name and looks the untrimmed one up
  (`hub_manager.go:155`);
- `state.currentlyTyping` is never cleared between rooms (`websocket.js:160`);
- `ServeWS` without a nickname says that it closes the connection and does not
  (`client.go:58-62`);
- a hub that is counted while it is in a handler is shown with 0 users, and nothing
  corrects it before the next change (`hub.go:58`).

## Not modelled

- Name validation: `validateNickname` and `validateRoomID` are predicates on strings
  without state. A name they refuse takes a path the models have (a name that is
  taken, a room that is not there).
- The conversion to and from JSON, and what chat messages say.
- A restart of the server: nothing is persisted, so a new process starts from `Init`.
- The browser's texts, lists and the timer that ends typing; `ui.js` renders.
- Middleware, static files, configuration, logging, page and styles: no state.

## Left to do

- That the hubs of `HubManager` and `Lobby` are projections of `Hub`: they are read off
  the code. `RoomLife` is the part of it that `Hub` is shown to implement.
- `state.currentlyTyping` over several connections of one tab, which needs the rooms
  in `Session` and the contents of `RoomFeed` in one module.
- Liveness of a registration in `RoomFeed`'s stop case, once the findings are settled.
