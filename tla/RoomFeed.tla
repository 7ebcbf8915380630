------------------------------- MODULE RoomFeed -------------------------------
(***************************************************************************)
(* What the members of a room are told: module Hub with the contents of    *)
(* the messages, and the page that shows them (handleSocketMessage in      *)
(* websocket.js).                                                          *)
(*                                                                         *)
(* Every action is one of Hub, with what it does to the contents added, so *)
(* whatever holds of a hub holds here.  The stop case is left out: the     *)
(* server is not shutting down.  Of the messages only those are told apart *)
(* that change what the page keeps: the user count and who is typing.      *)
(* Chat messages, joins, the welcome and errors take up room in the        *)
(* channels and are all alike.                                             *)
(*                                                                         *)
(* The page of c is what the messages of connection c make of it.  The     *)
(* script does not clear state.currentlyTyping between two connections, so *)
(* a tab may also show entries of an earlier one; they are not counted.    *)
(***************************************************************************)
EXTENDS Hub

CONSTANTS
  Users,   \* what a user_count message is about
  Nothing  \* what a message is about that changes nothing

ASSUME FeedAssumption ==
  /\ Users # Nothing
  /\ {Users, Nothing} \cap (Client \cup {NoClient}) = {}

VARIABLES
  feed,   \* feed[i]: the message of the payload broadcast[i]
  queue,  \* queue[c]: the messages in c.send
  draft,  \* draft[c]: the message readPump is blocked with
  users,  \* users[c]: the user count the page of c shows, while it watches
  typing, \* typing[c]: whom c's messages keep in state.currentlyTyping
  lost    \* history, lost[c]: what that page lost the last message about

contents == <<feed, queue, draft, users, typing, lost>>
feedVars == <<vars, contents>>

-----------------------------------------------------------------------------
(* Messages.                                                               *)

\* user_count.
UserCount(n) == [about |-> Users, says |-> n]

\* typing_start, and typing_stop or user_leave, of connection c.
Typing(c)    == [about |-> c, says |-> 1]
NotTyping(c) == [about |-> c, says |-> 0]

\* Any other message.
Other == [about |-> Nothing, says |-> 0]

\* What readPump relays for c.
Relayed(c) == {Typing(c), NotTyping(c), Other}

Subject == Client \cup {Users}

Message == [about : Subject \cup {Nothing}, says : Nat]

FeedInit ==
  /\ Init
  /\ feed = <<>> /\ queue = [c \in Client |-> <<>>]
  /\ draft = [c \in Client |-> Other]
  /\ users = [c \in Client |-> 0] /\ typing = [c \in Client |-> {}]
  /\ lost = [c \in Client |-> {}]

\* The members whose page still receives what is written to it.
Watching == {c \in clients : writer[c] = "write"}

-----------------------------------------------------------------------------
(* What a step of the hub does to the contents.                            *)

\* The pages, present and future, that a payload in h.broadcast can reach.
Reachable == {c \in Client : writer[c] # "ended" /\ reader[c] \notin {"cleanup", "done"}}

\* m is offered to h.broadcast, which has taken it or not.  What it drops is lost
\* for those, too, who join while h.broadcast holds older news of the same.
Offered(m) ==
  IF Len(broadcast') > Len(broadcast)
  THEN /\ feed' = Append(feed, m)
       /\ lost' = [c \in Client |-> lost[c] \ {m.about}]
  ELSE /\ UNCHANGED feed
       /\ lost' = [c \in Client |-> IF c \in Reachable
                     THEN lost[c] \cup ({m.about} \cap Subject) ELSE lost[c]]

\* m is offered to c.send for every c in S.  What c loses it has missed only if
\* the feed, now rest, has nothing newer about the same.
Delivered(S, m, rest) ==
  /\ queue' = [c \in Client |-> IF pending'[c] > pending[c]
                                THEN Append(queue[c], m) ELSE queue[c]]
  /\ lost' = [c \in Client |->
       IF /\ c \in S \cap Watching /\ pending'[c] = pending[c] /\ m.about \in Subject
          /\ \A i \in DOMAIN rest : rest[i].about # m.about
       THEN lost[c] \cup {m.about} ELSE lost[c]]

-----------------------------------------------------------------------------
(* The hub.                                                                *)

\* The welcome.
FeedAdmit ==
  /\ Admit
  /\ Delivered({cur}, Other, feed)
  /\ UNCHANGED <<feed, draft, users, typing>>

\* user_join.
FeedAnnounceJoin ==
  /\ AnnounceJoin
  /\ Offered(Other)
  /\ UNCHANGED <<queue, draft, users, typing>>

\* Seeded fault: the count is taken before the member is entered.
FeedAnnounceJoinCount_Before ==
  /\ AnnounceJoinCount
  /\ Offered(UserCount(Cardinality(clients \ {cur})))
  /\ UNCHANGED <<queue, draft, users, typing>>

\* user_count, of the members there are now.
FeedAnnounceJoinCount ==
  /\ AnnounceJoinCount
  /\ Offered(UserCount(Cardinality(clients)))
  /\ UNCHANGED <<queue, draft, users, typing>>

\* Seeded fault: the members are told at once, ahead of what waits in h.broadcast.
FeedAnnounceLeave_Direct ==
  /\ ~Dead
  /\ hubPc = "leave" /\ hubPc' = "leaveCount"
  /\ SendSafe(clients)
  /\ Delivered(clients, NotTyping(cur), <<>>)
  /\ UNCHANGED <<cur, clients, stop, broadcast, reader, writer, closed, panics,
                 updatesClosed>>
  /\ UNCHANGED <<feed, draft, users, typing>>

\* user_leave, of the client that has left.
FeedAnnounceLeave ==
  /\ AnnounceLeave
  /\ Offered(NotTyping(cur))
  /\ UNCHANGED <<queue, draft, users, typing>>

\* user_count, of the members that are left.
FeedAnnounceLeaveCount ==
  /\ AnnounceLeaveCount
  /\ Offered(UserCount(Cardinality(clients)))
  /\ UNCHANGED <<queue, draft, users, typing>>

\* The first payload of h.broadcast to everybody but its sender.
FeedHandleBroadcast ==
  /\ HandleBroadcast
  /\ feed' = Tail(feed)
  /\ Delivered(clients \ {Head(broadcast)}, Head(feed), Tail(feed))
  /\ UNCHANGED <<draft, users, typing>>

-----------------------------------------------------------------------------
(* readPump.                                                               *)

\* A message was read that is passed on: chat, typing_start or typing_stop.
FeedReadRelayed(c) ==
  /\ ReadRelayed(c)
  /\ \E m \in Relayed(c) : draft' = [draft EXCEPT ![c] = m]
  /\ UNCHANGED <<feed, queue, users, typing, lost>>

\* hub.broadcast <- message.
FeedPublish(c) ==
  /\ Publish(c)
  /\ Offered(draft[c])
  /\ draft' = [draft EXCEPT ![c] = Other]
  /\ UNCHANGED <<queue, users, typing>>

\* chat_error, to the sender.
FeedReadTooLong(c) ==
  /\ ReadTooLong(c)
  /\ Delivered({c}, Other, feed)
  /\ UNCHANGED <<feed, draft, users, typing>>

-----------------------------------------------------------------------------
(* writePump and the page.                                                 *)

\* handleSocketMessage: USER_COUNT, TYPING_START, TYPING_STOP, USER_LEAVE.  Once
\* c is out of the room its page is not looked at.
Show(c, m) ==
  /\ users' = IF c \in clients /\ m.about = Users
              THEN [users EXCEPT ![c] = m.says] ELSE users
  /\ typing' = IF c \in clients /\ m.about \in Client
               THEN [typing EXCEPT ![c] = IF m.says = 1 THEN @ \cup {m.about}
                                          ELSE @ \ {m.about}]
               ELSE typing

\* The page of c is out of the room, or its connection is broken: what c was
\* told does not matter any more.
Forget(c) ==
  /\ users' = [users EXCEPT ![c] = 0] /\ typing' = [typing EXCEPT ![c] = {}]
  /\ lost' = [lost EXCEPT ![c] = {}]

\* A message that is written reaches the page, or else its connection is broken
\* and nothing reaches it any more.
FeedWriteMessage(c) ==
  /\ WriteMessage(c)
  /\ queue' = [queue EXCEPT ![c] = Tail(@)]
  /\ IF writer'[c] = "write"
     THEN Show(c, Head(queue[c])) /\ UNCHANGED lost ELSE Forget(c)
  /\ UNCHANGED <<feed, draft>>

-----------------------------------------------------------------------------
\* The member leaves, or its connection is found broken.
FeedUnregister(c) ==
  /\ Unregister(c) \/ PingFails(c)
  /\ Forget(c)
  /\ UNCHANGED <<feed, queue, draft>>

\* The steps of Hub that touch no message.
NoMessage ==
  /\ \/ RemoveHub
     \/ \E c \in Client : ServeWS(c) \/ Register(c) \/ ReadEnds(c) \/ Cleanup(c)
  /\ UNCHANGED contents

FeedNext ==
  \/ FeedAdmit \/ FeedAnnounceJoin \/ FeedAnnounceJoinCount
  \/ FeedAnnounceLeave \/ FeedAnnounceLeaveCount \/ FeedHandleBroadcast
  \/ \E c \in Client : \/ FeedReadRelayed(c) \/ FeedPublish(c)
                       \/ FeedReadTooLong(c) \/ FeedWriteMessage(c)
                       \/ FeedUnregister(c)
  \/ NoMessage

FeedSpec == FeedInit /\ [][FeedNext]_feedVars

-----------------------------------------------------------------------------
(* Safety.                                                                 *)

\* Type correctness; the contents are those of the channels of Hub.
FeedTypeOK ==
  /\ TypeOK
  /\ feed \in Seq(Message) /\ Len(feed) = Len(broadcast)
  /\ queue \in [Client -> Seq(Message)]
  /\ \A c \in Client : Len(queue[c]) = pending[c]
  /\ draft \in [Client -> Message]
  /\ \A c \in Client : draft[c] \in Relayed(c)
  /\ users \in [Client -> Nat] /\ typing \in [Client -> SUBSET Client]
  /\ lost \in [Client -> SUBSET Subject]

\* A message about x is in the sequence.
Mentions(seq, x) == \E i \in DOMAIN seq : seq[i].about = x

\* The last message about x in the sequence, if there is one, says v.
LastSays(seq, x, v) ==
  \A i \in DOMAIN seq :
    seq[i].about = x /\ (\A j \in DOMAIN seq : j > i => seq[j].about # x)
      => seq[i].says = v

\* What the page of c shows about x is v.
Shows(c, x, v) == IF x = Users THEN users[c] = v ELSE (x \in typing[c]) = (v = 1)

\* If nothing more happens in the room the page of c will show v about x.
WillShow(c, x, v) ==
  IF Mentions(feed, x) THEN LastSays(feed, x, v)
  ELSE IF Mentions(queue[c], x) THEN LastSays(queue[c], x, v)
  ELSE Shows(c, x, v)

\* A change of h.clients whose user count is still to be announced.
CountToCome == hubPc \in {"join", "joinCount", "leave", "leaveCount"}

\* The user count on the way to every member is the number of members, however
\* joins and departures overlap and whatever old counts still wait in the
\* channels, unless the last announcement was dropped for it.
UserCountRight ==
  ~CountToCome =>
    \A c \in Watching :
      WillShow(c, Users, Cardinality(clients)) \/ Users \in lost[c]

\* Nobody who has left stays on the typing indicator of a member: a readPump
\* publishes nothing after its client was announced to leave.  The exceptions
\* are a user_leave still to come, and one that was dropped.
NoGhostTyping ==
  \A c \in Watching, d \in Client :
    \/ InRoom(d) \/ (hubPc = "leave" /\ cur = d)
    \/ WillShow(c, d, 0) \/ d \in lost[c]

\* Nobody is shown to themself as typing: of what a client types the hub tells
\* everybody else, so the page would not have to look for its own id (data.id
\* !== state.myID in websocket.js), which Show does not do.
OwnTypingUnseen == \A c \in Client : c \notin typing[c]
=============================================================================
