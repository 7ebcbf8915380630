--------------------------- MODULE RoomFeedProofs ---------------------------
(***************************************************************************)
(* Theorems about RoomFeed, for every number of connections and every      *)
(* capacity of the channels: it is a hub, its contents are those of the    *)
(* channels, and what the pages come to show is right.                     *)
(***************************************************************************)
EXTENDS RoomFeed, HubProofs, FiniteSetTheorems, SequenceTheorems

(* It is a hub.                                                            *)

LEMMA FeedStepIsHubStep == [FeedNext]_feedVars => [Next]_vars
<1> USE DEF Next, Run, HubHandler, Receive, ReadPump, WritePump
<1>1. CASE FeedAdmit \/ FeedAnnounceJoin \/ FeedAnnounceJoinCount
  BY <1>1 DEF FeedAdmit, FeedAnnounceJoin, FeedAnnounceJoinCount
<1>2. CASE FeedAnnounceLeave \/ FeedAnnounceLeaveCount \/ FeedHandleBroadcast
  BY <1>2 DEF FeedAnnounceLeave, FeedAnnounceLeaveCount, FeedHandleBroadcast
<1>3. ASSUME NEW c \in Client, \/ FeedReadRelayed(c) \/ FeedPublish(c)
                               \/ FeedReadTooLong(c) \/ FeedWriteMessage(c)
                               \/ FeedUnregister(c)
      PROVE  Next
  BY <1>3 DEF FeedReadRelayed, FeedPublish, FeedReadTooLong, FeedWriteMessage,
              FeedUnregister
<1>4. CASE NoMessage
  BY <1>4 DEF NoMessage
<1>5. CASE UNCHANGED feedVars
  BY <1>5 DEF feedVars
<1> QED BY <1>1, <1>2, <1>3, <1>4, <1>5 DEF FeedNext

\* A room with the contents of its messages is a room: whatever is proved of the
\* hub in HubProofs holds of it.
THEOREM FeedIsHub == FeedSpec => Spec /\ []TypeOK /\ []HubInvariant
<1>1. FeedInit => Init
  BY DEF FeedInit
<1>2. FeedSpec => Spec
  BY <1>1, FeedStepIsHubStep, PTL DEF FeedSpec, Spec
<1> QED BY <1>2, TypeCorrect, MembershipExact

-----------------------------------------------------------------------------
(* What a sequence of messages says in the end.                            *)

\* A message at the end of a channel is the last word on what it is about.
LEMMA AppendSays ==
  ASSUME NEW seq \in Seq(Message), NEW m \in Message, NEW x
  PROVE  /\ Mentions(Append(seq, m), x) <=> Mentions(seq, x) \/ m.about = x
         /\ \A v : m.about = x => (LastSays(Append(seq, m), x, v) <=> m.says = v)
         /\ \A v : m.about # x =>
              (LastSays(Append(seq, m), x, v) <=> LastSays(seq, x, v))
<1> DEFINE n == Len(seq)  app == Append(seq, m)
<1>1. /\ n \in Nat /\ DOMAIN seq = 1 .. n /\ DOMAIN app = 1 .. n + 1
      /\ \A i \in 1 .. n : app[i] = seq[i]
      /\ app[n + 1] = m
  BY AppendProperties, LenProperties
<1>2. \A i \in 1 .. n + 1 : i \in 1 .. n \/ i = n + 1
  BY <1>1
<1>3. /\ n + 1 \in 1 .. n + 1 /\ \A i \in 1 .. n + 1 : ~(i > n + 1)
      /\ \A i \in 1 .. n : i \in 1 .. n + 1 /\ n + 1 > i
  BY <1>1
<1> HIDE DEF n, app
<1>4. Mentions(app, x) <=> Mentions(seq, x) \/ m.about = x
  BY <1>1, <1>2, <1>3 DEF Mentions
<1>5. \A v : m.about = x => (LastSays(app, x, v) <=> m.says = v)
  BY <1>1, <1>2, <1>3 DEF LastSays
<1>6. \A v : m.about # x => (LastSays(app, x, v) <=> LastSays(seq, x, v))
  BY <1>1, <1>2, <1>3 DEF LastSays
<1> QED BY <1>4, <1>5, <1>6 DEF app

\* The message at the head of a channel counts only if none after it is about
\* the same.
LEMMA TailSays ==
  ASSUME NEW seq \in Seq(Message), seq # <<>>, NEW x
  PROVE  /\ Mentions(seq, x) <=> Head(seq).about = x \/ Mentions(Tail(seq), x)
         /\ Mentions(Tail(seq), x) =>
              \A v : LastSays(seq, x, v) <=> LastSays(Tail(seq), x, v)
         /\ Head(seq).about = x /\ ~Mentions(Tail(seq), x) =>
              \A v : LastSays(seq, x, v) <=> Head(seq).says = v
<1> DEFINE n == Len(seq)  rest == Tail(seq)
<1>1. /\ n \in Nat \ {0} /\ DOMAIN seq = 1 .. n /\ DOMAIN rest = 1 .. n - 1
      /\ \A i \in 1 .. n - 1 : rest[i] = seq[i + 1]
      /\ Head(seq) = seq[1]
  BY EmptySeq, LenProperties, HeadTailProperties
<1>2. /\ 1 \in 1 .. n /\ \A i \in 1 .. n : i = 1 \/ (i > 1 /\ i - 1 \in 1 .. n - 1)
      /\ \A i \in 1 .. n - 1 : i + 1 \in 1 .. n /\ i + 1 > 1
  BY <1>1
<1>3. \A i \in 1 .. n : i # 1 => seq[i] = rest[i - 1]
  BY <1>1, <1>2
<1> HIDE DEF n, rest
<1>4. Mentions(seq, x) <=> Head(seq).about = x \/ Mentions(rest, x)
  BY <1>1, <1>2, <1>3 DEF Mentions
<1>5. ASSUME Mentions(rest, x), NEW v
      PROVE  LastSays(seq, x, v) <=> LastSays(rest, x, v)
  <2>1. ASSUME LastSays(seq, x, v), NEW i \in 1 .. n - 1, rest[i].about = x,
               \A j \in 1 .. n - 1 : j > i => rest[j].about # x
        PROVE  rest[i].says = v
    <3>1. \A j \in 1 .. n : j > i + 1 => seq[j].about # x
      BY <1>1, <1>2, <1>3, <2>1
    <3> QED BY <1>1, <1>2, <2>1, <3>1 DEF LastSays
  <2>2. ASSUME LastSays(rest, x, v), NEW i \in 1 .. n, seq[i].about = x,
               \A j \in 1 .. n : j > i => seq[j].about # x
        PROVE  seq[i].says = v
    <3>1. i # 1
      BY <1>1, <1>2, <1>5, <2>2 DEF Mentions
    <3>2. \A j \in 1 .. n - 1 : j > i - 1 => rest[j].about # x
      BY <1>1, <1>2, <2>2
    <3> QED BY <1>1, <1>2, <1>3, <2>2, <3>1, <3>2 DEF LastSays
  <2> QED BY <1>1, <2>1, <2>2 DEF LastSays
<1>6. ASSUME Head(seq).about = x, ~Mentions(rest, x), NEW v
      PROVE  LastSays(seq, x, v) <=> Head(seq).says = v
  <2>1. \A i \in 1 .. n : i # 1 => seq[i].about # x
    BY <1>1, <1>2, <1>3, <1>6 DEF Mentions
  <2> QED BY <1>1, <1>2, <1>6, <2>1 DEF LastSays
<1> QED BY <1>4, <1>5, <1>6 DEF rest
-----------------------------------------------------------------------------
(* Type correctness, and what it rests on.                                 *)

\* A connection that is not a member yet.
Newcomer(c) == reader[c] \in {"idle", "register"} \/ (hubPc = "admit" /\ cur = c)

\* What readPump relays is about its own client.
Senders ==
  \A i \in DOMAIN feed : broadcast[i] \in Client => feed[i].about \in {broadcast[i], Nothing}

\* The pages of newcomers show nothing, and nothing is on the way to them.
NewcomersKnowNothing ==
  \A c \in Client : Newcomer(c) => /\ typing[c] = {}
                                   /\ \A x \in Subject : ~Mentions(queue[c], x)

\* The strengthening: with HubInvariant it makes the invariants below inductive.
FeedInvariant ==
  /\ hubPc \notin {"drain", "stopped", "panicked"} /\ ~updatesClosed
  /\ hubPc = "leave" => cur \in Client
  /\ IsFiniteSet(clients)
  /\ \A c \in Client : writer[c] = "off" <=> reader[c] \in {"idle", "register"}
  /\ Senders
  /\ NewcomersKnowNothing

LEMMA MessageType ==
  /\ Other \in Message /\ Other.about \notin Subject
  /\ \A c \in Client : /\ Typing(c) \in Message /\ NotTyping(c) \in Message
                       /\ NotTyping(c).about = c /\ NotTyping(c).says = 0
                       /\ \A m \in Relayed(c) : m \in Message /\ m.about \in {c, Nothing}
  /\ \A n \in Nat : /\ UserCount(n) \in Message
                    /\ UserCount(n).about = Users /\ UserCount(n).says = n
  /\ Users \notin Client \cup {Nothing} /\ Nothing \notin Client
BY FeedAssumption
DEF FeedAssumption, Message, Subject, Other, Typing, NotTyping, Relayed, UserCount

\* Whether h.broadcast takes the message or not, feed is what it holds.
LEMMA OfferedType ==
  ASSUME FeedTypeOK, NEW m \in Message, Offered(m),
         NEW b \in Client \cup {NoClient},
         broadcast' = Append(broadcast, b) \/ broadcast' = broadcast
  PROVE  /\ feed' \in Seq(Message) /\ Len(feed') = Len(broadcast')
         /\ lost' \in [Client -> SUBSET Subject]
         /\ Senders /\ (b \in Client => m.about \in {b, Nothing}) => Senders'
<1>1. /\ feed \in Seq(Message) /\ broadcast \in Seq(Client \cup {NoClient})
      /\ Len(feed) = Len(broadcast) /\ lost \in [Client -> SUBSET Subject]
  BY DEF FeedTypeOK, TypeOK
<1>2. lost' \in [Client -> SUBSET Subject]
  BY <1>1 DEF Offered
<1>3. CASE broadcast' = broadcast
  BY <1>1, <1>2, <1>3 DEF Offered, Senders
<1>4. CASE broadcast' = Append(broadcast, b)
  <2>1. feed' = Append(feed, m)
    BY <1>1, <1>4 DEF Offered
  <2>2. /\ DOMAIN feed' = 1 .. Len(feed) + 1 /\ DOMAIN feed = 1 .. Len(feed)
        /\ Len(feed) \in Nat
        /\ \A i \in 1 .. Len(feed) : feed'[i] = feed[i] /\ broadcast'[i] = broadcast[i]
        /\ feed'[Len(feed) + 1] = m /\ broadcast'[Len(feed) + 1] = b
    BY <1>1, <1>4, <2>1, AppendProperties, LenProperties
  <2>3. Senders /\ (b \in Client => m.about \in {b, Nothing}) => Senders'
    <3>1. \A i \in 1 .. Len(feed) + 1 : i \in 1 .. Len(feed) \/ i = Len(feed) + 1
      BY <2>2
    <3> QED BY <2>2, <3>1 DEF Senders
  <2> QED BY <1>1, <1>2, <1>4, <2>1, <2>3
<1> QED BY <1>3, <1>4

\* Whatever sendSafe drops, queue is what the send channels hold.
LEMMA DeliveredType ==
  ASSUME FeedTypeOK, NEW m \in Message, NEW S, NEW T, NEW rest,
         SendSafe(T), Delivered(S, m, rest)
  PROVE  /\ queue' \in [Client -> Seq(Message)]
         /\ \A c \in Client : /\ Len(queue'[c]) = pending'[c]
                              /\ queue'[c] \in {queue[c], Append(queue[c], m)}
         /\ lost' \in [Client -> SUBSET Subject]
<1>1. /\ queue \in [Client -> Seq(Message)] /\ pending \in [Client -> 0 .. SendCap]
      /\ \A c \in Client : Len(queue[c]) = pending[c]
      /\ lost \in [Client -> SUBSET Subject]
  BY DEF FeedTypeOK, TypeOK
<1>2. \A c \in Client : pending'[c] \in {pending[c], pending[c] + 1}
  BY <1>1 DEF SendSafe
<1>3. ASSUME NEW c \in Client
      PROVE  /\ queue'[c] \in Seq(Message) /\ Len(queue'[c]) = pending'[c]
             /\ queue'[c] \in {queue[c], Append(queue[c], m)}
  <2>1. queue[c] \in Seq(Message) /\ Len(queue[c]) = pending[c] /\ pending[c] \in Int
    BY <1>1
  <2>2. CASE pending'[c] = pending[c]
    BY <2>1, <2>2 DEF Delivered
  <2>3. CASE pending'[c] = pending[c] + 1
    <3>1. queue'[c] = Append(queue[c], m)
      BY <2>1, <2>3 DEF Delivered
    <3> QED BY <2>1, <2>3, <3>1, AppendProperties
  <2> QED BY <1>2, <2>2, <2>3
<1>4. queue' = [c \in Client |-> queue'[c]]
  BY DEF Delivered
<1>5. lost' \in [Client -> SUBSET Subject]
  BY <1>1 DEF Delivered
<1> QED BY <1>3, <1>4, <1>5
\* A message in h.broadcast from Run itself.
LEMMA TypeAnnounced ==
  ASSUME FeedTypeOK, Senders, TypeOK', NEW m \in Message, Announce, Offered(m),
         UNCHANGED <<queue, draft, users, typing, pending>>
  PROVE  FeedTypeOK' /\ Senders'
<1>1. broadcast' = Append(broadcast, NoClient) \/ broadcast' = broadcast
  BY DEF Announce
<1>2. NoClient \notin Client
  BY HubAssumption DEF HubAssumption
<1>3. /\ feed' \in Seq(Message) /\ Len(feed') = Len(broadcast')
      /\ lost' \in [Client -> SUBSET Subject]
      /\ Senders'
  BY <1>1, <1>2, OfferedType
<1> QED BY <1>3 DEF FeedTypeOK

\* A message that sendSafe puts in send channels.
LEMMA TypeDelivered ==
  ASSUME FeedTypeOK, TypeOK', NEW m \in Message, NEW S, NEW T, NEW rest,
         SendSafe(T), Delivered(S, m, rest), UNCHANGED <<draft, users, typing>>,
         feed' \in Seq(Message), Len(feed') = Len(broadcast')
  PROVE  FeedTypeOK'
<1>1. /\ queue' \in [Client -> Seq(Message)]
      /\ \A c \in Client : Len(queue'[c]) = pending'[c]
      /\ lost' \in [Client -> SUBSET Subject]
  BY DeliveredType
<1> QED BY <1>1 DEF FeedTypeOK

LEMMA FeedTypeHub ==
  ASSUME FeedTypeOK, HubInvariant, FeedInvariant, TypeOK',
         \/ FeedAdmit \/ FeedAnnounceJoin \/ FeedAnnounceJoinCount
         \/ FeedAnnounceLeave \/ FeedAnnounceLeaveCount \/ FeedHandleBroadcast
  PROVE  FeedTypeOK' /\ Senders'
<1>1. Senders /\ Cardinality(clients) \in Nat
  BY FS_CardinalityType DEF FeedInvariant
<1>2. UserCount(Cardinality(clients)) \in Message /\ Other \in Message
  BY <1>1, MessageType
<1>3. CASE FeedAnnounceJoin \/ FeedAnnounceJoinCount \/ FeedAnnounceLeaveCount
  BY <1>1, <1>2, <1>3, TypeAnnounced
  DEF FeedAnnounceJoin, FeedAnnounceJoinCount, FeedAnnounceLeaveCount,
      AnnounceJoin, AnnounceJoinCount, AnnounceLeaveCount
<1>4. CASE FeedAnnounceLeave
  <2>1. NotTyping(cur) \in Message
    BY <1>4, MessageType DEF FeedInvariant, FeedAnnounceLeave, AnnounceLeave
  <2> QED BY <1>1, <1>4, <2>1, TypeAnnounced DEF FeedAnnounceLeave, AnnounceLeave
<1>5. CASE FeedAdmit
  <2>1. SendSafe({cur}) /\ UNCHANGED <<feed, broadcast>>
    BY <1>5 DEF FeedAdmit, Admit, HubSends
  <2>2. feed' \in Seq(Message) /\ Len(feed') = Len(broadcast')
    BY <2>1 DEF FeedTypeOK
  <2>3. FeedTypeOK'
    BY <1>2, <1>5, <2>1, <2>2, TypeDelivered DEF FeedAdmit
  <2> QED BY <1>1, <2>1, <2>3 DEF Senders
<1>6. CASE FeedHandleBroadcast
  <2>1. /\ SendSafe(clients \ {Head(broadcast)}) /\ feed' = Tail(feed)
        /\ broadcast' = Tail(broadcast) /\ broadcast # <<>>
    BY <1>6 DEF FeedHandleBroadcast, HandleBroadcast, HubSends
  <2>2. /\ feed \in Seq(Message) /\ broadcast \in Seq(Client \cup {NoClient})
        /\ Len(feed) = Len(broadcast)
    BY DEF FeedTypeOK, TypeOK
  <2>3. Len(feed) \in Nat \ {0} /\ feed # <<>>
    <3>1. Len(broadcast) \in Nat \ {0}
      BY <2>1, <2>2, EmptySeq
    <3>2. feed = <<>> => Len(feed) = 0
      BY EmptySeq
    <3> QED BY <2>2, <3>1, <3>2
  <2>4. /\ Head(feed) \in Message /\ feed' \in Seq(Message)
        /\ Len(feed') = Len(feed) - 1 /\ Len(broadcast') = Len(broadcast) - 1
        /\ DOMAIN feed' = 1 .. Len(feed) - 1 /\ DOMAIN feed = 1 .. Len(feed)
        /\ \A i \in 1 .. Len(feed) - 1 : /\ feed'[i] = feed[i + 1]
                                         /\ broadcast'[i] = broadcast[i + 1]
    BY <2>1, <2>2, <2>3, HeadTailProperties, LenProperties
  <2>5. FeedTypeOK'
    BY <1>6, <2>1, <2>2, <2>4, TypeDelivered DEF FeedHandleBroadcast
  <2>6. \A i \in DOMAIN feed' : i + 1 \in DOMAIN feed
    BY <2>3, <2>4
  <2> QED BY <1>1, <2>4, <2>5, <2>6 DEF Senders
<1> QED BY <1>3, <1>4, <1>5, <1>6

LEMMA FeedTypeConnection ==
  ASSUME FeedTypeOK, HubInvariant, FeedInvariant, TypeOK', NEW c \in Client,
         \/ FeedReadRelayed(c) \/ FeedPublish(c) \/ FeedReadTooLong(c)
         \/ FeedWriteMessage(c) \/ FeedUnregister(c)
  PROVE  FeedTypeOK' /\ Senders'
<1>1. Senders
  BY DEF FeedInvariant
<1>2. CASE FeedReadRelayed(c)
  <2>1. UNCHANGED <<broadcast, pending, feed, queue, users, typing, lost>>
    BY <1>2 DEF FeedReadRelayed, ReadRelayed
  <2>2. /\ draft' \in [Client -> Message]
        /\ \A d \in Client : draft'[d] \in Relayed(d)
    BY <1>2, MessageType DEF FeedTypeOK, FeedReadRelayed
  <2> QED BY <1>1, <2>1, <2>2 DEF FeedTypeOK, Senders
<1>3. CASE FeedPublish(c)
  <2>1. /\ draft[c] \in Message /\ draft[c].about \in {c, Nothing}
        /\ broadcast' = Append(broadcast, c) /\ Offered(draft[c])
        /\ UNCHANGED <<queue, users, typing, pending>>
    BY <1>3, MessageType DEF FeedTypeOK, FeedPublish, Publish
  <2>2. /\ feed' \in Seq(Message) /\ Len(feed') = Len(broadcast')
        /\ lost' \in [Client -> SUBSET Subject] /\ Senders'
    BY <1>1, <2>1, OfferedType
  <2>3. /\ draft' \in [Client -> Message]
        /\ \A d \in Client : draft'[d] \in Relayed(d)
    BY <1>3, MessageType DEF FeedTypeOK, FeedPublish, Relayed
  <2> QED BY <2>1, <2>2, <2>3 DEF FeedTypeOK
<1>4. CASE FeedReadTooLong(c)
  <2>1. ~closed[c]
    BY DEF FeedInvariant, HubInvariant, ClosedInDrain
  <2>2. SendSafe({c}) /\ UNCHANGED <<feed, broadcast>>
    BY <1>4, <2>1 DEF FeedReadTooLong, ReadTooLong
  <2>3. feed' \in Seq(Message) /\ Len(feed') = Len(broadcast')
    BY <2>2 DEF FeedTypeOK
  <2>4. FeedTypeOK'
    BY <1>4, <2>2, <2>3, MessageType, TypeDelivered DEF FeedReadTooLong
  <2> QED BY <1>1, <2>2, <2>4 DEF Senders
<1>5. CASE FeedWriteMessage(c)
  <2>1. /\ pending[c] > 0 /\ pending' = [pending EXCEPT ![c] = @ - 1]
        /\ queue' = [queue EXCEPT ![c] = Tail(@)]
        /\ UNCHANGED <<broadcast, feed, draft>>
    BY <1>5 DEF FeedWriteMessage, WriteMessage
  <2>2. /\ queue[c] \in Seq(Message) /\ Len(queue[c]) = pending[c]
        /\ pending[c] \in Int
    BY DEF FeedTypeOK, TypeOK
  <2>3. queue[c] # <<>>
    <3>1. queue[c] = <<>> => Len(queue[c]) = 0
      BY EmptySeq
    <3> QED BY <2>1, <2>2, <3>1
  <2>4. /\ Tail(queue[c]) \in Seq(Message) /\ Len(Tail(queue[c])) = pending[c] - 1
        /\ Head(queue[c]) \in Message
    BY <2>2, <2>3, HeadTailProperties
  <2>5. /\ queue' \in [Client -> Seq(Message)]
        /\ \A d \in Client : Len(queue'[d]) = pending'[d]
    BY <2>1, <2>4 DEF FeedTypeOK, TypeOK
  <2>6. /\ users' \in [Client -> Nat] /\ typing' \in [Client -> SUBSET Client]
        /\ lost' \in [Client -> SUBSET Subject]
    <3>1. CASE Show(c, Head(queue[c])) /\ UNCHANGED lost
      <4>1. /\ Head(queue[c]).says \in Nat
            /\ Head(queue[c]).about \in Client \cup {Users, Nothing}
        BY <2>4 DEF Message, Subject
      <4>2. users' \in [Client -> Nat]
        BY <3>1, <4>1 DEF FeedTypeOK, Show
      <4>3. typing' \in [Client -> SUBSET Client]
        BY <3>1 DEF FeedTypeOK, Show
      <4> QED BY <3>1, <4>2, <4>3 DEF FeedTypeOK
    <3>2. CASE Forget(c)
      BY <3>2 DEF FeedTypeOK, Forget
    <3> QED BY <1>5, <3>1, <3>2 DEF FeedWriteMessage
  <2> QED BY <1>1, <2>1, <2>5, <2>6 DEF FeedTypeOK, Senders
<1>6. CASE FeedUnregister(c)
  <2>1. UNCHANGED <<broadcast, pending, feed, queue, draft>> /\ Forget(c)
    BY <1>6 DEF FeedUnregister, Unregister, PingFails
  <2>2. /\ users' \in [Client -> Nat] /\ typing' \in [Client -> SUBSET Client]
        /\ lost' \in [Client -> SUBSET Subject]
    BY <2>1 DEF FeedTypeOK, Forget
  <2> QED BY <1>1, <2>1, <2>2 DEF FeedTypeOK, Senders
<1> QED BY <1>2, <1>3, <1>4, <1>5, <1>6

LEMMA FeedTypeNext ==
  ASSUME FeedTypeOK, HubInvariant, FeedInvariant, [FeedNext]_feedVars
  PROVE  FeedTypeOK' /\ Senders'
<1>1. TypeOK'
  BY FeedStepIsHubStep, TypeNext DEF FeedTypeOK
<1>2. CASE NoMessage \/ UNCHANGED feedVars
  <2>1. UNCHANGED <<contents, broadcast, pending>>
    BY <1>2 DEF NoMessage, RemoveHub, ServeWS, Register, ReadEnds, Cleanup,
                feedVars, vars
  <2> QED BY <1>1, <2>1 DEF FeedTypeOK, FeedInvariant, Senders, contents
<1> QED BY <1>1, <1>2, FeedTypeHub, FeedTypeConnection DEF FeedNext
\* Nobody becomes a newcomer again, and a newcomer is not a member.
LEMMA NewcomerStays ==
  ASSUME TypeOK, HubInvariant, [FeedNext]_feedVars, NEW c \in Client
  PROVE  /\ Newcomer(c)' => Newcomer(c)
         /\ Newcomer(c) => c \notin clients
<1>1. Newcomer(c) => c \notin clients
  BY DEF HubInvariant, MembersAreInRoom, InRoom, Newcomer
<1>2. CASE \/ FeedAdmit \/ FeedAnnounceJoin \/ FeedAnnounceJoinCount
           \/ FeedAnnounceLeave \/ FeedAnnounceLeaveCount \/ FeedHandleBroadcast
  BY <1>1, <1>2
  DEF FeedAdmit, Admit, FeedAnnounceJoin, AnnounceJoin, FeedAnnounceJoinCount,
      AnnounceJoinCount, FeedAnnounceLeave, AnnounceLeave, FeedAnnounceLeaveCount,
      AnnounceLeaveCount, FeedHandleBroadcast, HandleBroadcast, HubSends, NotifyLobby,
      Newcomer
<1>3. ASSUME NEW d \in Client,
             \/ FeedReadRelayed(d) \/ FeedPublish(d) \/ FeedReadTooLong(d)
             \/ FeedWriteMessage(d) \/ FeedUnregister(d)
      PROVE  Newcomer(c)' => Newcomer(c)
  BY <1>3
  DEF TypeOK, ReaderPc, FeedReadRelayed, ReadRelayed, FeedPublish, Publish,
      FeedReadTooLong, ReadTooLong, FeedWriteMessage, WriteMessage, FeedUnregister,
      Unregister, PingFails, Newcomer
<1>4. CASE NoMessage
  BY <1>1, <1>4 DEF TypeOK, NoMessage, RemoveHub, ServeWS, Register, ReadEnds,
                    Cleanup, NotifyLobby, Newcomer
<1>5. CASE UNCHANGED feedVars
  BY <1>1, <1>5 DEF feedVars, vars, Newcomer
<1> QED BY <1>1, <1>2, <1>3, <1>4, <1>5 DEF FeedNext

\* The goroutines' part of the strengthening.
LEMMA FeedPcNext ==
  ASSUME TypeOK, HubInvariant, FeedInvariant, [FeedNext]_feedVars
  PROVE  /\ hubPc' \notin {"drain", "stopped", "panicked"} /\ ~updatesClosed'
         /\ hubPc' = "leave" => cur' \in Client
         /\ IsFiniteSet(clients')
         /\ \A c \in Client : writer'[c] = "off" <=> reader'[c] \in {"idle", "register"}
<1> USE DEF FeedInvariant
<1>1. \A c \in Client : ~closed[c]
  BY DEF HubInvariant, ClosedInDrain
<1>2. CASE \/ FeedAnnounceJoin \/ FeedAnnounceJoinCount
           \/ FeedAnnounceLeave \/ FeedAnnounceLeaveCount \/ FeedHandleBroadcast
  BY <1>1, <1>2
  DEF TypeOK, FeedAnnounceJoin, AnnounceJoin, FeedAnnounceJoinCount,
      AnnounceJoinCount, FeedAnnounceLeave, AnnounceLeave, FeedAnnounceLeaveCount,
      AnnounceLeaveCount, FeedHandleBroadcast, HandleBroadcast, HubSends, NotifyLobby
<1>3. CASE FeedAdmit
  <2>1. clients' = clients \cup {cur} /\ cur \in Client
    BY <1>3 DEF TypeOK, FeedAdmit, Admit
  <2>2. IsFiniteSet(clients')
    BY <2>1, FS_AddElement
  <2> QED BY <1>1, <1>3, <2>1, <2>2 DEF FeedAdmit, Admit, HubSends
<1>4. ASSUME NEW c \in Client,
             \/ FeedReadRelayed(c) \/ FeedPublish(c) \/ FeedReadTooLong(c)
             \/ FeedWriteMessage(c)
      PROVE  /\ UNCHANGED <<hubPc, cur, clients, updatesClosed>>
             /\ \A d \in Client : writer'[d] = "off" <=> reader'[d] \in {"idle", "register"}
  BY <1>1, <1>4
  DEF TypeOK, ReaderPc, WriterPc, FeedReadRelayed, ReadRelayed, FeedPublish, Publish,
      FeedReadTooLong, ReadTooLong, FeedWriteMessage, WriteMessage, WriteFails
<1>5. ASSUME NEW c \in Client, FeedUnregister(c)
      PROVE  /\ hubPc' \notin {"drain", "stopped", "panicked"} /\ ~updatesClosed'
             /\ hubPc' = "leave" => cur' \in Client
             /\ IsFiniteSet(clients')
             /\ \A d \in Client : writer'[d] = "off" <=> reader'[d] \in {"idle", "register"}
  <2>1. CASE Unregister(c)
    <3>1. IsFiniteSet(clients')
      BY <2>1, FS_RemoveElement DEF Unregister
    <3> QED BY <2>1, <3>1 DEF TypeOK, Unregister
  <2>2. CASE PingFails(c)
    BY <2>2 DEF TypeOK, PingFails, WriteFails
  <2> QED BY <1>5, <2>1, <2>2 DEF FeedUnregister
<1>6. CASE NoMessage
  <2>1. CASE RemoveHub
    BY <2>1 DEF RemoveHub, NotifyLobby
  <2>2. ASSUME NEW c \in Client, ServeWS(c) \/ Register(c) \/ ReadEnds(c) \/ Cleanup(c)
        PROVE  /\ hubPc' \in {hubPc, "admit"} /\ UNCHANGED <<clients, updatesClosed>>
               /\ hubPc' = "leave" => cur' = cur
               /\ \A d \in Client : writer'[d] = "off" <=> reader'[d] \in {"idle", "register"}
    BY <2>2 DEF TypeOK, ServeWS, Register, ReadEnds, Cleanup
  <2> QED BY <1>6, <2>1, <2>2 DEF NoMessage
<1>7. CASE UNCHANGED feedVars
  BY <1>7 DEF feedVars, vars
<1> QED BY <1>2, <1>3, <1>4, <1>5, <1>6, <1>7 DEF FeedNext

\* The contents' part of it.
LEMMA NewcomersNext ==
  ASSUME FeedTypeOK, HubInvariant, FeedInvariant, [FeedNext]_feedVars
  PROVE  NewcomersKnowNothing'
<1> SUFFICES ASSUME NEW c \in Client, Newcomer(c), c \notin clients
             PROVE  typing'[c] = {} /\ \A x \in Subject : ~Mentions(queue'[c], x)
  BY NewcomerStays DEF FeedTypeOK, NewcomersKnowNothing
<1>1. typing[c] = {} /\ \A x \in Subject : ~Mentions(queue[c], x)
  BY DEF FeedInvariant, NewcomersKnowNothing
<1>2. queue[c] \in Seq(Message) /\ queue \in [Client -> Seq(Message)]
  BY DEF FeedTypeOK
<1>3. queue'[c] = Append(queue[c], Other) => \A x \in Subject : ~Mentions(queue'[c], x)
  BY <1>1, <1>2, AppendSays, MessageType
<1>4. CASE \/ FeedAnnounceJoin \/ FeedAnnounceJoinCount
           \/ FeedAnnounceLeave \/ FeedAnnounceLeaveCount
           \/ NoMessage \/ UNCHANGED feedVars
           \/ \E d \in Client : FeedReadRelayed(d) \/ FeedPublish(d)
  BY <1>1, <1>4
  DEF FeedAnnounceJoin, FeedAnnounceJoinCount, FeedAnnounceLeave,
      FeedAnnounceLeaveCount, NoMessage, FeedReadRelayed, FeedPublish, contents,
      feedVars
<1>5. CASE FeedAdmit \/ \E d \in Client : FeedReadTooLong(d)
  <2>1. UNCHANGED typing
    BY <1>5 DEF FeedAdmit, FeedReadTooLong
  <2>2. queue'[c] \in {queue[c], Append(queue[c], Other)}
    BY <1>5 DEF FeedAdmit, FeedReadTooLong, Delivered
  <2> QED BY <1>1, <1>3, <2>1, <2>2
<1>6. CASE FeedHandleBroadcast
  <2>1. pending'[c] = pending[c] /\ pending[c] \in Int
    BY <1>6 DEF FeedTypeOK, TypeOK, FeedHandleBroadcast, HandleBroadcast, HubSends,
                SendSafe
  <2>2. queue'[c] = queue[c] /\ UNCHANGED typing
    BY <1>6, <2>1 DEF FeedHandleBroadcast, Delivered
  <2> QED BY <1>1, <2>2
<1>7. ASSUME NEW d \in Client, FeedWriteMessage(d)
      PROVE  typing'[c] = {} /\ \A x \in Subject : ~Mentions(queue'[c], x)
  <2>1. typing'[c] = {}
    BY <1>1, <1>7 DEF FeedTypeOK, FeedWriteMessage, WriteMessage, Show, Forget
  <2>2. CASE d # c
    BY <1>1, <1>2, <1>7, <2>1, <2>2 DEF FeedWriteMessage
  <2>3. CASE d = c
    <3>1. queue'[c] = Tail(queue[c])
      BY <1>2, <1>7, <2>3 DEF FeedWriteMessage
    <3>2. queue[c] # <<>>
      <4>1. Len(queue[c]) = pending[c] /\ pending[c] > 0 /\ pending[c] \in Int
        BY <1>7, <2>3 DEF FeedTypeOK, TypeOK, FeedWriteMessage, WriteMessage
      <4>2. queue[c] = <<>> => Len(queue[c]) = 0
        BY EmptySeq
      <4> QED BY <4>1, <4>2
    <3> QED BY <1>1, <1>2, <2>1, <3>1, <3>2, TailSays
  <2> QED BY <2>2, <2>3
<1>8. ASSUME NEW d \in Client, FeedUnregister(d)
      PROVE  typing'[c] = {} /\ \A x \in Subject : ~Mentions(queue'[c], x)
  BY <1>1, <1>8 DEF FeedTypeOK, FeedUnregister, Forget
<1> QED BY <1>4, <1>5, <1>6, <1>7, <1>8 DEF FeedNext

LEMMA FeedTypeInit == FeedInit => FeedTypeOK /\ FeedInvariant
<1> SUFFICES ASSUME FeedInit
             PROVE  FeedTypeOK /\ FeedInvariant
  OBVIOUS
<1>1. TypeOK
  BY TypeInit DEF FeedInit
<1>2. /\ feed \in Seq(Message) /\ Len(feed) = Len(broadcast)
      /\ queue \in [Client -> Seq(Message)]
      /\ \A c \in Client : Len(queue[c]) = pending[c]
  BY DEF FeedInit, Init
<1>3. /\ draft \in [Client -> Message] /\ \A c \in Client : draft[c] \in Relayed(c)
  BY MessageType DEF FeedInit, Relayed
<1>4. FeedTypeOK
  BY <1>1, <1>2, <1>3 DEF FeedTypeOK, FeedInit
<1>5. IsFiniteSet(clients)
  BY FS_EmptySet DEF FeedInit, Init
<1>6. Senders /\ NewcomersKnowNothing
  BY DEF FeedInit, Senders, NewcomersKnowNothing, Mentions
<1> QED BY <1>4, <1>5, <1>6 DEF FeedInvariant, FeedInit, Init

LEMMA FeedInvariantNext ==
  FeedTypeOK /\ HubInvariant /\ FeedInvariant /\ [FeedNext]_feedVars
    => FeedTypeOK' /\ FeedInvariant'
BY FeedTypeNext, FeedPcNext, NewcomersNext DEF FeedTypeOK, FeedInvariant

\* The contents are those of the channels of the hub: what h.broadcast and the
\* send channels hold, and what they dropped (broadcastNewMessage, sendSafe).
THEOREM FeedTypeCorrect == FeedSpec => []FeedTypeOK /\ []FeedInvariant
<1> QED BY FeedIsHub, FeedTypeInit, FeedInvariantNext, PTL DEF FeedSpec
-----------------------------------------------------------------------------
(* What a step does to what a page will show.                              *)

\* A step that touches nothing of c.
LEMMA SameShows ==
  ASSUME NEW c \in Client, NEW x, NEW v, feed' = feed, queue'[c] = queue[c],
         users'[c] = users[c], typing'[c] = typing[c]
  PROVE  WillShow(c, x, v)' <=> WillShow(c, x, v)
BY DEF WillShow, Shows

\* A message offered to h.broadcast is the last word on what it is about, or it
\* is lost; it has no effect on anything else.
LEMMA OfferedShows ==
  ASSUME FeedTypeOK, NEW m \in Message, Offered(m), UNCHANGED <<queue, users, typing>>,
         NEW c \in Client, NEW x \in Subject, NEW v
  PROVE  /\ m.about # x => /\ WillShow(c, x, v)' <=> WillShow(c, x, v)
                           /\ x \in lost[c] => x \in lost'[c]
         /\ m.about = x /\ m.says = v /\ c \in Reachable =>
              WillShow(c, x, v)' \/ x \in lost'[c]
<1>1. feed \in Seq(Message) /\ lost \in [Client -> SUBSET Subject]
  BY DEF FeedTypeOK
<1>2. CASE Len(broadcast') > Len(broadcast)
  <2>1. feed' = Append(feed, m) /\ lost'[c] = lost[c] \ {m.about}
    BY <1>2 DEF Offered
  <2>2. /\ Mentions(feed', x) <=> Mentions(feed, x) \/ m.about = x
        /\ m.about = x => (LastSays(feed', x, v) <=> m.says = v)
        /\ m.about # x => (LastSays(feed', x, v) <=> LastSays(feed, x, v))
    BY <1>1, <2>1, AppendSays
  <2> QED BY <2>1, <2>2 DEF WillShow, Shows
<1>3. CASE ~(Len(broadcast') > Len(broadcast))
  <2>1. /\ feed' = feed
        /\ lost'[c] = IF c \in Reachable
                      THEN lost[c] \cup ({m.about} \cap Subject) ELSE lost[c]
    BY <1>3 DEF Offered
  <2>2. WillShow(c, x, v)' <=> WillShow(c, x, v)
    BY <2>1, SameShows
  <2> QED BY <2>1, <2>2
<1> QED BY <1>2, <1>3

\* A message from sendSafe alone (the welcome, chat_error) has no effect.
LEMMA OtherShows ==
  ASSUME FeedTypeOK, FeedAdmit \/ \E d \in Client : FeedReadTooLong(d),
         NEW c \in Client, NEW x \in Subject, NEW v
  PROVE  /\ WillShow(c, x, v)' <=> WillShow(c, x, v)
         /\ lost'[c] = lost[c]
<1>1. /\ UNCHANGED <<feed, users, typing>>
      /\ queue'[c] \in {queue[c], Append(queue[c], Other)}
      /\ lost'[c] = lost[c]
  BY MessageType DEF FeedAdmit, FeedReadTooLong, Delivered
<1>2. /\ Mentions(queue'[c], x) <=> Mentions(queue[c], x)
      /\ LastSays(queue'[c], x, v) <=> LastSays(queue[c], x, v)
  <2>1. queue[c] \in Seq(Message)
    BY DEF FeedTypeOK
  <2>2. Other \in Message /\ Other.about # x
    BY MessageType
  <2>3. /\ Mentions(Append(queue[c], Other), x) <=> Mentions(queue[c], x)
        /\ LastSays(Append(queue[c], Other), x, v) <=> LastSays(queue[c], x, v)
    BY <2>1, <2>2, AppendSays
  <2> QED BY <1>1, <2>3
<1> QED BY <1>1, <1>2 DEF WillShow, Shows

\* A message that goes from h.broadcast to a member keeps its place before the
\* rest, unless it is lost.
LEMMA BroadcastShows ==
  ASSUME FeedTypeOK, HubInvariant, FeedInvariant, FeedHandleBroadcast,
         NEW c \in Client, NEW x \in Subject, NEW v
  PROVE  /\ feed # <<>>
         /\ x \in lost[c] => x \in lost'[c]
         /\ (c \in Watching /\ c # Head(broadcast)) \/ Head(feed).about # x =>
              (WillShow(c, x, v) => WillShow(c, x, v)' \/ x \in lost'[c])
<1>1. /\ feed' = Tail(feed) /\ broadcast # <<>> /\ UNCHANGED <<users, typing>>
      /\ SendSafe(clients \ {Head(broadcast)})
      /\ Delivered(clients \ {Head(broadcast)}, Head(feed), feed')
  BY DEF FeedHandleBroadcast, HandleBroadcast, HubSends
<1>2. /\ feed \in Seq(Message) /\ queue[c] \in Seq(Message)
      /\ pending[c] \in Int /\ pending'[c] \in {pending[c], pending[c] + 1}
  BY <1>1 DEF FeedTypeOK, TypeOK, SendSafe
<1>3. feed # <<>>
  <2>1. Len(broadcast) = Len(feed) /\ broadcast \in Seq(Client \cup {NoClient})
    BY DEF FeedTypeOK, TypeOK
  <2>2. Len(broadcast) \in Nat \ {0}
    BY <1>1, <2>1, EmptySeq
  <2>3. feed = <<>> => Len(feed) = 0
    BY EmptySeq
  <2> QED BY <2>1, <2>2, <2>3
<1>4. Head(feed) \in Message
  BY <1>2, <1>3, HeadTailProperties
<1>5. lost[c] \subseteq lost'[c]
  BY <1>1 DEF Delivered
<1>6. /\ Mentions(feed, x) <=> Head(feed).about = x \/ Mentions(feed', x)
      /\ Mentions(feed', x) => (LastSays(feed, x, v) <=> LastSays(feed', x, v))
      /\ Head(feed).about = x /\ ~Mentions(feed', x) =>
           (LastSays(feed, x, v) <=> Head(feed).says = v)
  BY <1>1, <1>2, <1>3, TailSays
<1>7. /\ queue'[c] = IF pending'[c] > pending[c] THEN Append(queue[c], Head(feed))
                     ELSE queue[c]
      /\ Mentions(Append(queue[c], Head(feed)), x) <=>
           Mentions(queue[c], x) \/ Head(feed).about = x
      /\ Head(feed).about = x =>
           (LastSays(Append(queue[c], Head(feed)), x, v) <=> Head(feed).says = v)
      /\ Head(feed).about # x =>
           (LastSays(Append(queue[c], Head(feed)), x, v) <=> LastSays(queue[c], x, v))
  BY <1>1, <1>2, <1>4, AppendSays DEF Delivered
<1>8. CASE Head(feed).about # x
  BY <1>1, <1>3, <1>5, <1>6, <1>7, <1>8 DEF WillShow, Shows
<1>9. ASSUME Head(feed).about = x, c \in Watching, c # Head(broadcast), WillShow(c, x, v)
      PROVE  WillShow(c, x, v)' \/ x \in lost'[c]
  <2>1. CASE Mentions(feed', x)
    BY <1>6, <1>9, <2>1 DEF WillShow
  <2>2. CASE ~Mentions(feed', x)
    <3>1. Head(feed).says = v
      BY <1>6, <1>9, <2>2 DEF WillShow
    <3>2. CASE pending'[c] > pending[c]
      BY <1>7, <1>9, <2>2, <3>1, <3>2 DEF WillShow
    <3>3. CASE ~(pending'[c] > pending[c])
      <4>1. pending'[c] = pending[c]
        BY <1>2, <3>3
      <4>2. \A i \in DOMAIN feed' : feed'[i].about # x
        BY <2>2 DEF Mentions
      <4>3. c \in clients \ {Head(broadcast)}
        BY <1>9 DEF Watching
      <4> QED BY <1>1, <1>9, <4>1, <4>2, <4>3 DEF Delivered
    <3> QED BY <3>2, <3>3
  <2> QED BY <2>1, <2>2
<1> QED BY <1>3, <1>5, <1>8, <1>9

\* What a member's writePump writes its page shows.
LEMMA WriteShows ==
  ASSUME FeedTypeOK, NEW d \in Client, FeedWriteMessage(d),
         NEW c \in Client, writer'[c] = "write", c \in clients,
         NEW x \in Subject, NEW v
  PROVE  /\ WillShow(c, x, v) => WillShow(c, x, v)'
         /\ lost'[c] = lost[c]
<1>1. /\ feed' = feed /\ queue' = [queue EXCEPT ![d] = Tail(@)]
      /\ queue \in [Client -> Seq(Message)]
  BY DEF FeedTypeOK, FeedWriteMessage
<1>2. CASE d # c
  <2>1. queue'[c] = queue[c]
    BY <1>1, <1>2
  <2>2. users'[c] = users[c] /\ typing'[c] = typing[c] /\ lost'[c] = lost[c]
    BY <1>2 DEF FeedTypeOK, FeedWriteMessage, Show, Forget
  <2> QED BY <1>1, <2>1, <2>2, SameShows
<1>3. CASE d = c
  <2>1. /\ Show(c, Head(queue[c])) /\ lost' = lost
        /\ queue'[c] = Tail(queue[c]) /\ queue[c] \in Seq(Message)
    BY <1>1, <1>3 DEF FeedWriteMessage
  <2>2. queue[c] # <<>>
    <3>1. Len(queue[c]) = pending[c] /\ pending[c] > 0 /\ pending[c] \in Int
      BY <1>3 DEF FeedTypeOK, TypeOK, FeedWriteMessage, WriteMessage
    <3>2. queue[c] = <<>> => Len(queue[c]) = 0
      BY EmptySeq
    <3> QED BY <3>1, <3>2
  <2>3. /\ Mentions(queue[c], x) <=>
             Head(queue[c]).about = x \/ Mentions(Tail(queue[c]), x)
        /\ Mentions(Tail(queue[c]), x) =>
             (LastSays(queue[c], x, v) <=> LastSays(Tail(queue[c]), x, v))
        /\ Head(queue[c]).about = x /\ ~Mentions(Tail(queue[c]), x) =>
             (LastSays(queue[c], x, v) <=> Head(queue[c]).says = v)
    BY <2>1, <2>2, TailSays
  <2>4. Head(queue[c]).about = x /\ Head(queue[c]).says = v => Shows(c, x, v)'
    BY <2>1, MessageType DEF FeedTypeOK, Subject, Show, Shows
  <2>5. Head(queue[c]).about # x => (Shows(c, x, v)' <=> Shows(c, x, v))
    BY <2>1, MessageType DEF FeedTypeOK, Subject, Show, Shows
  <2> QED BY <1>1, <2>1, <2>3, <2>4, <2>5 DEF WillShow
<1> QED BY <1>2, <1>3
\* A step of a goroutine that shows nothing to c, and gives it nothing to show.
LEMMA QuietShows ==
  ASSUME FeedTypeOK, NEW c \in Client,
         \/ NoMessage \/ UNCHANGED feedVars
         \/ \E d \in Client : FeedReadRelayed(d)
         \/ \E d \in Client : FeedUnregister(d) /\ d # c
  PROVE  /\ \A x, v : WillShow(c, x, v)' <=> WillShow(c, x, v)
         /\ lost'[c] = lost[c]
<1>1. /\ feed' = feed /\ queue'[c] = queue[c] /\ users'[c] = users[c]
      /\ typing'[c] = typing[c] /\ lost'[c] = lost[c]
  BY DEF FeedTypeOK, NoMessage, FeedReadRelayed, FeedUnregister, Forget, contents,
         feedVars
<1> QED BY <1>1, SameShows

-----------------------------------------------------------------------------
(* The user count.                                                         *)

\* A member can be reached by what the hub announces.
LEMMA WatchingReachable ==
  ASSUME TypeOK, HubInvariant, NEW c \in Watching
  PROVE  c \in Reachable
BY DEF TypeOK, HubInvariant, MembersAreInRoom, InRoom, Watching, Reachable

LEMMA UserCountNext ==
  ASSUME FeedTypeOK, HubInvariant, FeedInvariant, UserCountRight,
         [FeedNext]_feedVars
  PROVE  UserCountRight'
<1> SUFFICES ASSUME ~CountToCome', NEW c \in Client, c \in Watching',
                    NEW v, v = Cardinality(clients')
             PROVE  WillShow(c, Users, v)' \/ Users \in lost'[c]
  <2>1. Watching' \subseteq Client
    BY FeedTypeNext DEF FeedTypeOK, TypeOK, Watching
  <2> QED BY <2>1 DEF UserCountRight, WillShow
<1>1. Users \in Subject /\ TypeOK
  BY DEF Subject, FeedTypeOK
<1>2. ASSUME ~CountToCome, clients' = clients, c \in Watching
      PROVE  WillShow(c, Users, v) \/ Users \in lost[c]
  BY <1>2 DEF UserCountRight
<1>3. CASE FeedAdmit \/ FeedAnnounceJoin \/ FeedAnnounceLeave
  <2>1. FeedAdmit => hubPc' = "join"
    BY <1>1 DEF TypeOK, FeedAdmit, Admit, HubSends, FeedInvariant, HubInvariant,
                ClosedInDrain
  <2> QED BY <1>3, <2>1 DEF FeedAnnounceJoin, AnnounceJoin, FeedAnnounceLeave,
                            AnnounceLeave, CountToCome
<1>4. CASE FeedAnnounceJoinCount \/ FeedAnnounceLeaveCount
  <2>1. clients' = clients /\ c \in Watching
    BY <1>4 DEF FeedAnnounceJoinCount, AnnounceJoinCount, FeedAnnounceLeaveCount,
                AnnounceLeaveCount, Watching
  <2>2. c \in Reachable
    BY <1>1, <2>1, WatchingReachable
  <2>3. v \in Nat
    BY <2>1, FS_CardinalityType DEF FeedInvariant
  <2>4. Offered(UserCount(v)) /\ UNCHANGED <<queue, users, typing>>
    BY <1>4, <2>1 DEF FeedAnnounceJoinCount, FeedAnnounceLeaveCount
  <2> QED BY <1>1, <2>2, <2>3, <2>4, MessageType, OfferedShows
<1>5. CASE FeedHandleBroadcast
  <2>1. clients' = clients /\ c \in Watching /\ ~CountToCome
    BY <1>5 DEF FeedHandleBroadcast, HandleBroadcast, Watching, CountToCome
  <2>2. c # Head(broadcast) \/ Head(feed).about # Users
    <3>1. /\ feed # <<>> /\ feed \in Seq(Message) /\ Len(feed) = Len(broadcast)
          /\ broadcast \in Seq(Client \cup {NoClient})
      BY <1>1, <1>5, BroadcastShows DEF FeedTypeOK, TypeOK
    <3>2. 1 \in DOMAIN feed /\ Head(feed) = feed[1] /\ Head(broadcast) = broadcast[1]
      BY <3>1, EmptySeq, LenProperties
    <3> QED BY <3>2, MessageType DEF FeedInvariant, Senders
  <2> QED BY <1>1, <1>2, <1>5, <2>1, <2>2, BroadcastShows
<1>6. ASSUME NEW d \in Client, FeedPublish(d)
      PROVE  WillShow(c, Users, v)' \/ Users \in lost'[c]
  <2>1. clients' = clients /\ c \in Watching /\ ~CountToCome
    BY <1>6 DEF FeedPublish, Publish, Watching, CountToCome
  <2>2. /\ draft[d] \in Message /\ draft[d].about # Users /\ Offered(draft[d])
        /\ UNCHANGED <<queue, users, typing>>
    BY <1>6, MessageType DEF FeedTypeOK, FeedPublish
  <2> QED BY <1>1, <1>2, <2>1, <2>2, OfferedShows
<1>7. ASSUME NEW d \in Client, FeedReadTooLong(d)
      PROVE  WillShow(c, Users, v)' \/ Users \in lost'[c]
  <2>1. clients' = clients /\ c \in Watching /\ ~CountToCome
    BY <1>7 DEF FeedReadTooLong, ReadTooLong, Watching, CountToCome
  <2> QED BY <1>1, <1>2, <1>7, <2>1, OtherShows
<1>8. ASSUME NEW d \in Client, FeedWriteMessage(d)
      PROVE  WillShow(c, Users, v)' \/ Users \in lost'[c]
  <2>1. /\ clients' = clients /\ c \in Watching /\ ~CountToCome
        /\ writer'[c] = "write" /\ c \in clients
    BY <1>1, <1>8 DEF TypeOK, FeedWriteMessage, WriteMessage, WriteFails, Watching,
                      CountToCome
  <2> QED BY <1>1, <1>2, <1>8, <2>1, WriteShows
<1>9. ASSUME NEW d \in Client, FeedUnregister(d)
      PROVE  WillShow(c, Users, v)' \/ Users \in lost'[c]
  <2>1. CASE Unregister(d)
    BY <1>1, <2>1 DEF HubInvariant, MembersAreInRoom, InRoom, Unregister, CountToCome
  <2>2. CASE PingFails(d)
    <3>1. clients' = clients /\ c \in Watching /\ ~CountToCome /\ d # c
      BY <1>1, <2>2 DEF TypeOK, PingFails, WriteFails, Watching, CountToCome
    <3> QED BY <1>2, <1>9, <3>1, QuietShows
  <2> QED BY <1>9, <2>1, <2>2 DEF FeedUnregister
<1>10. CASE NoMessage \/ UNCHANGED feedVars \/ \E d \in Client : FeedReadRelayed(d)
  <2>1. clients' = clients /\ ~CountToCome
    BY <1>10 DEF NoMessage, RemoveHub, ServeWS, Register, ReadEnds, Cleanup, feedVars,
                 vars, FeedReadRelayed, ReadRelayed, CountToCome
  <2>2. c \in Watching
    BY <1>1, <1>10, <2>1
    DEF TypeOK, NoMessage, RemoveHub, ServeWS, Register, ReadEnds, Cleanup, feedVars,
        vars, FeedReadRelayed, ReadRelayed, Watching, HubInvariant, MembersAreInRoom,
        InRoom
  <2> QED BY <1>2, <1>10, <2>1, <2>2, QuietShows
<1> QED BY <1>3, <1>4, <1>5, <1>6, <1>7, <1>8, <1>9, <1>10 DEF FeedNext

\* However joins, departures and messages overlap, the user count on its way to
\* every member's page is the number of members, unless the last announcement
\* was dropped (broadcastNewMessage, sendSafe).
THEOREM UserCountsRight == FeedSpec => []UserCountRight
<1>1. FeedInit => UserCountRight
  BY DEF FeedInit, Init, UserCountRight, Watching
<1>2. FeedTypeOK /\ HubInvariant /\ FeedInvariant /\ UserCountRight
        /\ [FeedNext]_feedVars => UserCountRight'
  BY UserCountNext
<1> QED BY <1>1, <1>2, FeedIsHub, FeedTypeCorrect, PTL DEF FeedSpec

-----------------------------------------------------------------------------
(* The typing indicator.                                                   *)

\* d may still be shown as typing: it is in the room, or is about to be announced
\* to leave.
MayType(d) == InRoom(d) \/ (hubPc = "leave" /\ cur = d)

\* The strengthening of NoGhostTyping: it holds for newcomers too, who will be
\* told what h.broadcast still holds when they become members.
NoGhostReaches ==
  \A c \in Reachable, d \in Client :
    MayType(d) \/ WillShow(c, d, 0) \/ d \in lost[c]

LEMMA NoGhostNext ==
  ASSUME FeedTypeOK, HubInvariant, FeedInvariant, NoGhostReaches,
         [FeedNext]_feedVars
  PROVE  NoGhostReaches'
<1> SUFFICES ASSUME NEW c \in Client, c \in Reachable', NEW d \in Client, ~MayType(d)'
             PROVE  WillShow(c, d, 0)' \/ d \in lost'[c]
  BY DEF NoGhostReaches, Reachable
<1>1. d \in Subject /\ TypeOK
  BY DEF Subject, FeedTypeOK
<1>2. c \in Reachable
  <2>1. CASE \/ FeedAdmit \/ FeedAnnounceJoin \/ FeedAnnounceJoinCount
             \/ FeedAnnounceLeave \/ FeedAnnounceLeaveCount \/ FeedHandleBroadcast
    BY <2>1 DEF FeedAdmit, Admit, FeedAnnounceJoin, AnnounceJoin,
        FeedAnnounceJoinCount, AnnounceJoinCount, FeedAnnounceLeave, AnnounceLeave,
        FeedAnnounceLeaveCount, AnnounceLeaveCount, FeedHandleBroadcast,
        HandleBroadcast, Reachable
  <2>2. ASSUME NEW e \in Client,
               \/ FeedReadRelayed(e) \/ FeedPublish(e) \/ FeedReadTooLong(e)
               \/ FeedWriteMessage(e) \/ FeedUnregister(e)
        PROVE  c \in Reachable
    <3>1. CASE FeedReadRelayed(e) \/ FeedPublish(e) \/ FeedReadTooLong(e)
      BY <1>1, <3>1
      DEF TypeOK, FeedReadRelayed, ReadRelayed, FeedPublish, Publish, FeedReadTooLong,
          ReadTooLong, Reachable
    <3>2. CASE FeedWriteMessage(e)
      BY <1>1, <3>2 DEF TypeOK, FeedWriteMessage, WriteMessage, WriteFails, Reachable
    <3>3. CASE Unregister(e)
      BY <1>1, <3>3 DEF TypeOK, Unregister, Reachable
    <3>4. CASE PingFails(e)
      BY <1>1, <3>4 DEF TypeOK, PingFails, WriteFails, Reachable
    <3> QED BY <2>2, <3>1, <3>2, <3>3, <3>4 DEF FeedUnregister
  <2>3. CASE NoMessage \/ UNCHANGED feedVars
    BY <1>1, <2>3 DEF TypeOK, FeedInvariant, NoMessage, RemoveHub, ServeWS, Register,
                      ReadEnds, Cleanup, feedVars, vars, Reachable
  <2> QED BY <2>1, <2>2, <2>3 DEF FeedNext
<1>3. ~MayType(d) => WillShow(c, d, 0) \/ d \in lost[c]
  BY <1>2 DEF NoGhostReaches
<1>4. CASE FeedAdmit
  <2>1. ~MayType(d)
    BY <1>4 DEF FeedAdmit, Admit, MayType, InRoom
  <2> QED BY <1>1, <1>3, <1>4, <2>1, OtherShows
<1>5. CASE FeedAnnounceJoin \/ FeedAnnounceJoinCount \/ FeedAnnounceLeaveCount
  <2>1. ~MayType(d)
    BY <1>5 DEF FeedAnnounceJoin, AnnounceJoin, FeedAnnounceJoinCount,
                AnnounceJoinCount, FeedAnnounceLeaveCount, AnnounceLeaveCount,
                MayType, InRoom
  <2>2. PICK m \in Message : /\ m.about \notin Client /\ Offered(m)
                             /\ UNCHANGED <<queue, users, typing>>
    <3>1. Cardinality(clients) \in Nat
      BY FS_CardinalityType DEF FeedInvariant
    <3>2. /\ Other \in Message /\ Other.about \notin Client
          /\ UserCount(Cardinality(clients)) \in Message
          /\ UserCount(Cardinality(clients)).about \notin Client
      BY <3>1, MessageType DEF Subject
    <3> QED BY <1>5, <3>2 DEF FeedAnnounceJoin, FeedAnnounceJoinCount,
                              FeedAnnounceLeaveCount
  <2> QED BY <1>1, <1>3, <2>1, <2>2, OfferedShows
<1>6. CASE FeedAnnounceLeave
  <2>1. PICK e \in Client : /\ e = cur /\ hubPc = "leave"
                            /\ Offered(NotTyping(e))
                            /\ UNCHANGED <<queue, users, typing>>
    BY <1>6 DEF FeedAnnounceLeave, AnnounceLeave, FeedInvariant
  <2>2. CASE d = e
    BY <1>1, <1>2, <2>1, <2>2, MessageType, OfferedShows
  <2>3. CASE d # e
    <3>1. ~MayType(d)
      BY <1>6, <2>1, <2>3 DEF FeedAnnounceLeave, AnnounceLeave, MayType, InRoom
    <3> QED BY <1>1, <1>3, <2>1, <2>3, <3>1, MessageType, OfferedShows
  <2> QED BY <2>2, <2>3
<1>7. CASE FeedHandleBroadcast
  <2>1. ~MayType(d)
    BY <1>7 DEF FeedHandleBroadcast, HandleBroadcast, MayType, InRoom
  <2>2. CASE Newcomer(c)
    <3>1. NewcomersKnowNothing' /\ Newcomer(c)'
      BY <1>7, <2>2, NewcomersNext
      DEF FeedHandleBroadcast, HandleBroadcast, Newcomer
    <3>2. typing'[c] = {} /\ ~Mentions(queue'[c], d)
      BY <1>1, <3>1 DEF NewcomersKnowNothing
    <3>3. CASE Mentions(feed', d)
      <4>1. feed # <<>> /\ feed \in Seq(Message) /\ feed' = Tail(feed)
            /\ (d \in lost[c] => d \in lost'[c])
        BY <1>1, <1>7, BroadcastShows DEF FeedTypeOK, FeedHandleBroadcast
      <4>2. /\ Mentions(feed, d)
            /\ LastSays(feed, d, 0) <=> LastSays(feed', d, 0)
        BY <3>3, <4>1, TailSays
      <4> QED BY <1>3, <2>1, <3>3, <4>1, <4>2 DEF WillShow
    <3>4. CASE ~Mentions(feed', d)
      BY <3>2, <3>4, MessageType DEF WillShow, Shows
    <3> QED BY <3>3, <3>4
  <2>3. CASE ~Newcomer(c)
    <3>1. c \in Watching /\ InRoom(c)
      BY <1>1, <1>2, <2>3
      DEF TypeOK, ReaderPc, WriterPc, FeedInvariant, HubInvariant, MembersAreInRoom,
          InRoom, Newcomer, Watching, Reachable
    <3>2. c # Head(broadcast) \/ Head(feed).about # d
      <4>1. /\ feed # <<>> /\ feed \in Seq(Message) /\ Len(feed) = Len(broadcast)
            /\ broadcast \in Seq(Client \cup {NoClient})
        BY <1>1, <1>7, BroadcastShows DEF FeedTypeOK, TypeOK
      <4>2. 1 \in DOMAIN feed /\ Head(feed) = feed[1] /\ Head(broadcast) = broadcast[1]
        BY <4>1, EmptySeq, LenProperties
      <4>3. c # d
        BY <2>1, <3>1 DEF MayType
      <4> QED BY <4>2, <4>3, MessageType DEF FeedInvariant, Senders
    <3> QED BY <1>1, <1>3, <1>7, <2>1, <3>1, <3>2, BroadcastShows
  <2> QED BY <2>2, <2>3
<1>8. ASSUME NEW e \in Client, FeedPublish(e)
      PROVE  WillShow(c, d, 0)' \/ d \in lost'[c]
  <2>1. ~MayType(d) /\ e # d
    BY <1>1, <1>8 DEF TypeOK, FeedPublish, Publish, MayType, InRoom
  <2>2. /\ draft[e] \in Message /\ draft[e].about # d /\ Offered(draft[e])
        /\ UNCHANGED <<queue, users, typing>>
    BY <1>8, <2>1, MessageType DEF FeedTypeOK, FeedPublish
  <2> QED BY <1>1, <1>3, <2>1, <2>2, OfferedShows
<1>9. ASSUME NEW e \in Client, FeedReadTooLong(e)
      PROVE  WillShow(c, d, 0)' \/ d \in lost'[c]
  <2>1. ~MayType(d)
    BY <1>1, <1>9 DEF TypeOK, FeedInvariant, HubInvariant, ClosedInDrain,
                      FeedReadTooLong, ReadTooLong, MayType, InRoom
  <2> QED BY <1>1, <1>3, <1>9, <2>1, OtherShows
<1>10. ASSUME NEW e \in Client, FeedWriteMessage(e)
       PROVE  WillShow(c, d, 0)' \/ d \in lost'[c]
  <2>1. ~MayType(d)
    BY <1>10 DEF FeedWriteMessage, WriteMessage, MayType, InRoom
  <2>2. CASE c \in clients
    <3>1. writer'[c] = "write"
      <4>1. writer[c] = "write"
        BY <1>1, <1>2, <2>2
        DEF TypeOK, WriterPc, Reachable, FeedInvariant, HubInvariant,
            MembersAreInRoom, InRoom
      <4>2. writer'[c] \in {writer[c], "ended"} /\ writer'[c] # "ended"
        BY <1>1, <1>10
        DEF TypeOK, FeedWriteMessage, WriteMessage, WriteFails, Reachable
      <4> QED BY <4>1, <4>2
    <3> QED BY <1>1, <1>3, <1>10, <2>1, <2>2, <3>1, WriteShows
  <2>3. CASE c \notin clients
    <3>1. Newcomer(c)
      BY <1>1, <1>2, <2>3
      DEF TypeOK, ReaderPc, HubInvariant, MembersAreInRoom, InRoom, Newcomer, Reachable
    <3>2. Newcomer(c)' /\ UNCHANGED feed
      BY <1>10, <3>1 DEF FeedWriteMessage, WriteMessage, Newcomer
    <3>3. typing'[c] = {} /\ ~Mentions(queue'[c], d)
      BY <1>1, <3>2, NewcomersNext DEF NewcomersKnowNothing
    <3>4. d \in lost[c] => d \in lost'[c]
      <4>1. e = c => writer'[c] = "write"
        BY <1>1, <1>10
        DEF TypeOK, WriterPc, FeedWriteMessage, WriteMessage, WriteFails, Reachable
      <4> QED BY <1>10, <4>1 DEF FeedTypeOK, FeedWriteMessage, Forget
    <3> QED BY <1>3, <2>1, <3>2, <3>3, <3>4, MessageType DEF WillShow, Shows
  <2> QED BY <2>2, <2>3
<1>11. ASSUME NEW e \in Client, FeedUnregister(e)
       PROVE  WillShow(c, d, 0)' \/ d \in lost'[c]
  <2>1. ~MayType(d)
    BY <1>1, <1>11
    DEF TypeOK, FeedUnregister, Unregister, PingFails, HubInvariant, MembersAreInRoom,
        MayType, InRoom
  <2>2. e # c
    BY <1>1, <1>11 DEF TypeOK, FeedUnregister, Unregister, PingFails, WriteFails,
                       Reachable
  <2> QED BY <1>3, <1>11, <2>1, <2>2, QuietShows
<1>12. CASE NoMessage \/ UNCHANGED feedVars \/ \E e \in Client : FeedReadRelayed(e)
  <2>1. ~MayType(d)
    BY <1>1, <1>12
    DEF TypeOK, NoMessage, RemoveHub, ServeWS, Register, ReadEnds, Cleanup, feedVars,
        vars, FeedReadRelayed, ReadRelayed, MayType, InRoom
  <2> QED BY <1>3, <1>12, <2>1, QuietShows
<1> QED BY <1>4, <1>5, <1>6, <1>7, <1>8, <1>9, <1>10, <1>11, <1>12 DEF FeedNext

\* Nobody who has left stays on a member's typing indicator: the user_leave of a
\* connection comes after everything its readPump has relayed.
THEOREM NoGhosts == FeedSpec => []NoGhostTyping
<1>1. FeedInit => NoGhostReaches
  <2> SUFFICES ASSUME FeedInit, NEW c \in Client, NEW d \in Client
               PROVE  WillShow(c, d, 0)
    BY DEF NoGhostReaches, Reachable
  <2>1. ~Mentions(feed, d) /\ ~Mentions(queue[c], d)
    BY DEF FeedInit, Mentions
  <2>2. typing[c] = {}
    BY DEF FeedInit
  <2> QED BY <2>1, <2>2, MessageType DEF WillShow, Shows
<1>2. FeedTypeOK /\ HubInvariant /\ FeedInvariant /\ NoGhostReaches
        /\ [FeedNext]_feedVars => NoGhostReaches'
  BY NoGhostNext
<1>3. FeedTypeOK /\ HubInvariant /\ NoGhostReaches => NoGhostTyping
  <2> SUFFICES ASSUME FeedTypeOK, HubInvariant, NoGhostReaches,
                      NEW c \in Watching, NEW d \in Client
               PROVE  MayType(d) \/ WillShow(c, d, 0) \/ d \in lost[c]
    BY DEF NoGhostTyping, MayType
  <2>1. c \in Reachable
    BY WatchingReachable DEF FeedTypeOK
  <2> QED BY <2>1 DEF NoGhostReaches
<1> QED BY <1>1, <1>2, <1>3, FeedIsHub, FeedTypeCorrect, PTL DEF FeedSpec

-----------------------------------------------------------------------------
(* What a client types.                                                    *)

\* m says that c is typing.
SaysTyping(m, c) == m.about = c /\ m.says = 1

Untold(seq, c) == \A i \in DOMAIN seq : ~SaysTyping(seq[i], c)

\* A payload that says who types names them as its sender.
TypingSigned ==
  \A i \in DOMAIN feed : \A c \in Client : SaysTyping(feed[i], c) => broadcast[i] = c

\* The strengthening of OwnTypingUnseen, from readPump to the page.
OwnInvariant ==
  TypingSigned /\ OwnTypingUnseen /\ \A c \in Client : Untold(queue[c], c)

LEMMA AppendUntold ==
  ASSUME NEW seq \in Seq(Message), NEW m \in Message, NEW c, Untold(seq, c),
         ~SaysTyping(m, c)
  PROVE  Untold(Append(seq, m), c)
BY AppendProperties DEF Untold

LEMMA TailUntold ==
  ASSUME NEW seq \in Seq(Message), seq # <<>>, NEW c, Untold(seq, c)
  PROVE  Untold(Tail(seq), c) /\ ~SaysTyping(Head(seq), c)
<1>1. /\ Len(seq) \in Nat \ {0} /\ DOMAIN seq = 1 .. Len(seq)
      /\ Head(seq) = seq[1] /\ DOMAIN Tail(seq) = 1 .. Len(seq) - 1
      /\ \A i \in 1 .. Len(seq) - 1 : Tail(seq)[i] = seq[i + 1]
  BY HeadTailProperties, LenProperties, EmptySeq
<1>2. /\ 1 \in 1 .. Len(seq)
      /\ \A i \in 1 .. Len(seq) - 1 : i + 1 \in 1 .. Len(seq)
  BY <1>1
<1> QED BY <1>1, <1>2 DEF Untold

\* What the hub and readPump put in h.broadcast: only readPump says who types,
\* and it signs.
LEMMA OfferedSigned ==
  ASSUME FeedTypeOK, TypingSigned, NEW m \in Message, Offered(m),
         NEW b \in Client \cup {NoClient},
         broadcast' = Append(broadcast, b) \/ broadcast' = broadcast,
         \A c \in Client : SaysTyping(m, c) => b = c
  PROVE  TypingSigned'
<1>1. /\ feed \in Seq(Message) /\ broadcast \in Seq(Client \cup {NoClient})
      /\ Len(feed) = Len(broadcast)
  BY DEF FeedTypeOK, TypeOK
<1>2. CASE broadcast' = broadcast
  BY <1>1, <1>2 DEF Offered, TypingSigned
<1>3. CASE broadcast' = Append(broadcast, b)
  <2>1. feed' = Append(feed, m)
    BY <1>1, <1>3 DEF Offered
  <2>2. /\ DOMAIN feed' = 1 .. Len(feed) + 1 /\ DOMAIN feed = 1 .. Len(feed)
        /\ Len(feed) \in Nat
        /\ \A i \in 1 .. Len(feed) : feed'[i] = feed[i] /\ broadcast'[i] = broadcast[i]
        /\ feed'[Len(feed) + 1] = m /\ broadcast'[Len(feed) + 1] = b
    BY <1>1, <1>3, <2>1, AppendProperties, LenProperties
  <2>3. \A i \in 1 .. Len(feed) + 1 : i \in 1 .. Len(feed) \/ i = Len(feed) + 1
    BY <2>2
  <2> QED BY <2>2, <2>3 DEF TypingSigned
<1> QED BY <1>2, <1>3

\* The steps that put a message in h.broadcast, or none anywhere.
LEMMA OwnOffered ==
  ASSUME FeedTypeOK, FeedInvariant, OwnInvariant,
         \/ FeedAnnounceJoin \/ FeedAnnounceJoinCount
         \/ FeedAnnounceLeave \/ FeedAnnounceLeaveCount
         \/ \E d \in Client : FeedPublish(d)
  PROVE  OwnInvariant'
<1>1. UNCHANGED <<queue, typing>>
  BY DEF FeedAnnounceJoin, FeedAnnounceJoinCount, FeedAnnounceLeave,
         FeedAnnounceLeaveCount, FeedPublish
<1>2. CASE FeedAnnounceJoin \/ FeedAnnounceJoinCount \/ FeedAnnounceLeaveCount
  <2>1. PICK m \in Message : Offered(m) /\ m.about \notin Client
    <3>1. Cardinality(clients) \in Nat
      BY FS_CardinalityType DEF FeedInvariant
    <3> QED BY <1>2, <3>1, MessageType
            DEF FeedAnnounceJoin, FeedAnnounceJoinCount, FeedAnnounceLeaveCount, Subject
  <2>2. broadcast' = Append(broadcast, NoClient) \/ broadcast' = broadcast
    BY <1>2 DEF FeedAnnounceJoin, FeedAnnounceJoinCount, FeedAnnounceLeaveCount,
                AnnounceJoin, AnnounceJoinCount, AnnounceLeaveCount, Announce
  <2>3. TypingSigned'
    BY <2>1, <2>2, OfferedSigned DEF OwnInvariant, SaysTyping
  <2> QED BY <1>1, <2>3 DEF OwnInvariant, OwnTypingUnseen
<1>3. CASE FeedAnnounceLeave
  <2>1. NotTyping(cur) \in Message /\ NotTyping(cur).says = 0 /\ Offered(NotTyping(cur))
    BY <1>3, MessageType DEF FeedInvariant, FeedAnnounceLeave, AnnounceLeave
  <2>2. broadcast' = Append(broadcast, NoClient) \/ broadcast' = broadcast
    BY <1>3 DEF FeedAnnounceLeave, AnnounceLeave, Announce
  <2>3. TypingSigned'
    BY <2>1, <2>2, OfferedSigned DEF OwnInvariant, SaysTyping
  <2> QED BY <1>1, <2>3 DEF OwnInvariant, OwnTypingUnseen
<1>4. ASSUME NEW d \in Client, FeedPublish(d)
      PROVE  OwnInvariant'
  <2>1. /\ draft[d] \in Message /\ draft[d].about \in {d, Nothing}
        /\ broadcast' = Append(broadcast, d) /\ Offered(draft[d])
    BY <1>4, MessageType DEF FeedTypeOK, FeedPublish, Publish
  <2>2. TypingSigned'
    BY <2>1, OfferedSigned, MessageType DEF OwnInvariant, SaysTyping
  <2> QED BY <1>1, <2>2 DEF OwnInvariant, OwnTypingUnseen
<1> QED BY <1>2, <1>3, <1>4

\* handleBroadcast passes a payload by its sender.
LEMMA OwnBroadcast ==
  ASSUME FeedTypeOK, HubInvariant, FeedInvariant, OwnInvariant, FeedHandleBroadcast
  PROVE  OwnInvariant'
<1>1. /\ feed' = Tail(feed) /\ broadcast' = Tail(broadcast) /\ broadcast # <<>>
      /\ UNCHANGED typing
      /\ SendSafe(clients \ {Head(broadcast)})
      /\ Delivered(clients \ {Head(broadcast)}, Head(feed), feed')
  BY DEF FeedHandleBroadcast, HandleBroadcast, HubSends
<1>2. /\ feed \in Seq(Message) /\ broadcast \in Seq(Client \cup {NoClient})
      /\ Len(feed) = Len(broadcast)
  BY DEF FeedTypeOK, TypeOK
<1>3. Len(feed) \in Nat \ {0} /\ feed # <<>>
  <2>1. Len(broadcast) \in Nat \ {0}
    BY <1>1, <1>2, EmptySeq
  <2>2. feed = <<>> => Len(feed) = 0
    BY EmptySeq
  <2> QED BY <1>2, <2>1, <2>2
<1>4. /\ Head(feed) \in Message
      /\ DOMAIN feed = 1 .. Len(feed) /\ DOMAIN feed' = 1 .. Len(feed) - 1
      /\ Head(feed) = feed[1] /\ Head(broadcast) = broadcast[1]
      /\ \A i \in 1 .. Len(feed) - 1 : /\ feed'[i] = feed[i + 1]
                                       /\ broadcast'[i] = broadcast[i + 1]
  BY <1>1, <1>2, <1>3, HeadTailProperties, LenProperties
<1>5. 1 \in DOMAIN feed /\ \A i \in DOMAIN feed' : i + 1 \in DOMAIN feed
  BY <1>3, <1>4
<1>6. TypingSigned'
  BY <1>4, <1>5 DEF OwnInvariant, TypingSigned
<1>7. ASSUME NEW c \in Client
      PROVE  Untold(queue'[c], c)
  <2>1. queue[c] \in Seq(Message) /\ Untold(queue[c], c)
    BY DEF FeedTypeOK, OwnInvariant
  <2>2. CASE SaysTyping(Head(feed), c)
    <3>1. c = Head(broadcast)
      BY <1>4, <1>5, <2>2 DEF OwnInvariant, TypingSigned
    <3>2. pending'[c] = pending[c] /\ pending[c] \in Int
      BY <1>1, <3>1 DEF SendSafe, FeedTypeOK, TypeOK
    <3>3. queue'[c] = queue[c]
      BY <1>1, <3>2 DEF Delivered
    <3> QED BY <2>1, <3>3
  <2>3. CASE ~SaysTyping(Head(feed), c)
    <3>1. queue'[c] \in {queue[c], Append(queue[c], Head(feed))}
      BY <1>1 DEF Delivered
    <3> QED BY <1>4, <2>1, <2>3, <3>1, AppendUntold
  <2> QED BY <2>2, <2>3
<1> QED BY <1>1, <1>6, <1>7 DEF OwnInvariant, OwnTypingUnseen

\* The welcome and chat_error, and what writePump writes.
LEMMA OwnReceived ==
  ASSUME FeedTypeOK, HubInvariant, FeedInvariant, OwnInvariant,
         \/ FeedAdmit
         \/ \E d \in Client : FeedReadTooLong(d) \/ FeedWriteMessage(d)
  PROVE  OwnInvariant'
<1>1. /\ queue \in [Client -> Seq(Message)] /\ typing \in [Client -> SUBSET Client]
      /\ \A c \in Client : Untold(queue[c], c) /\ c \notin typing[c]
  BY DEF FeedTypeOK, OwnInvariant, OwnTypingUnseen
<1>2. UNCHANGED <<feed, broadcast>> /\ TypingSigned'
  <2>1. UNCHANGED <<feed, broadcast>>
    BY DEF FeedAdmit, Admit, FeedReadTooLong, ReadTooLong, FeedWriteMessage, WriteMessage
  <2> QED BY <2>1 DEF OwnInvariant, TypingSigned
<1>3. CASE FeedAdmit \/ \E d \in Client : FeedReadTooLong(d)
  <2>1. UNCHANGED typing
    BY <1>3 DEF FeedAdmit, FeedReadTooLong
  <2>2. ASSUME NEW c \in Client
        PROVE  Untold(queue'[c], c)
    <3>1. queue'[c] \in {queue[c], Append(queue[c], Other)}
      BY <1>3 DEF FeedAdmit, FeedReadTooLong, Delivered
    <3>2. Other \in Message /\ ~SaysTyping(Other, c)
      BY MessageType DEF Subject, SaysTyping
    <3>3. queue[c] \in Seq(Message) /\ Untold(queue[c], c)
      BY <1>1
    <3>4. Untold(Append(queue[c], Other), c)
      BY <3>2, <3>3, AppendUntold
    <3> QED BY <3>1, <3>3, <3>4
  <2> QED BY <1>1, <1>2, <2>1, <2>2 DEF OwnInvariant, OwnTypingUnseen
<1>4. ASSUME NEW d \in Client, FeedWriteMessage(d)
      PROVE  OwnInvariant'
  <2>1. queue' = [queue EXCEPT ![d] = Tail(@)]
    BY <1>4 DEF FeedWriteMessage
  <2>2. queue[d] # <<>>
    <3>1. Len(queue[d]) = pending[d] /\ pending[d] > 0 /\ pending[d] \in Int
      BY <1>4 DEF FeedTypeOK, TypeOK, FeedWriteMessage, WriteMessage
    <3>2. queue[d] = <<>> => Len(queue[d]) = 0
      BY EmptySeq
    <3> QED BY <3>1, <3>2
  <2>3. Untold(Tail(queue[d]), d) /\ ~SaysTyping(Head(queue[d]), d)
    BY <1>1, <2>2, TailUntold
  <2>4. \A c \in Client : Untold(queue'[c], c)
    BY <1>1, <2>1, <2>3
  <2>5. ASSUME NEW c \in Client
        PROVE  c \notin typing'[c]
    <3>1. CASE Forget(d)
      BY <1>1, <3>1 DEF Forget
    <3>2. CASE Show(d, Head(queue[d]))
      <4> DEFINE m == Head(queue[d])
      <4>1. CASE typing' = typing
        BY <1>1, <4>1
      <4>2. CASE typing' = [typing EXCEPT ![d] = IF m.says = 1 THEN @ \cup {m.about}
                                                 ELSE @ \ {m.about}]
        <5>1. ~(m.about = d /\ m.says = 1)
          BY <2>3 DEF SaysTyping
        <5> HIDE DEF m
        <5>2. c # d => typing'[c] = typing[c]
          BY <1>1, <4>2
        <5>3. typing'[d] = IF m.says = 1 THEN typing[d] \cup {m.about}
                                         ELSE typing[d] \ {m.about}
          BY <1>1, <4>2
        <5>4. d \notin typing'[d]
          BY <1>1, <5>1, <5>3
        <5> QED BY <1>1, <5>2, <5>4
      <4> QED BY <3>2, <4>1, <4>2 DEF Show
    <3> QED BY <1>4, <3>1, <3>2 DEF FeedWriteMessage
  <2>6. OwnTypingUnseen'
    BY <2>5 DEF OwnTypingUnseen
  <2> QED BY <1>2, <2>4, <2>6 DEF OwnInvariant
<1> QED BY <1>3, <1>4

LEMMA OwnNext ==
  FeedTypeOK /\ HubInvariant /\ FeedInvariant /\ OwnInvariant /\ [FeedNext]_feedVars
    => OwnInvariant'
<1> SUFFICES ASSUME FeedTypeOK, HubInvariant, FeedInvariant, OwnInvariant,
                    [FeedNext]_feedVars
             PROVE  OwnInvariant'
  OBVIOUS
<1>1. CASE NoMessage \/ UNCHANGED feedVars \/ \E d \in Client : FeedReadRelayed(d)
  <2>1. UNCHANGED <<feed, broadcast, queue, typing>>
    BY <1>1 DEF NoMessage, RemoveHub, ServeWS, Register, ReadEnds, Cleanup, contents,
                feedVars, vars, FeedReadRelayed, ReadRelayed
  <2> QED BY <2>1 DEF OwnInvariant, TypingSigned, OwnTypingUnseen
<1>2. ASSUME NEW d \in Client, FeedUnregister(d)
      PROVE  OwnInvariant'
  <2>1. UNCHANGED <<feed, broadcast, queue>> /\ Forget(d)
    BY <1>2 DEF FeedUnregister, Unregister, PingFails
  <2>2. OwnTypingUnseen'
    BY <2>1 DEF FeedTypeOK, Forget, OwnInvariant, OwnTypingUnseen
  <2> QED BY <2>1, <2>2 DEF OwnInvariant, TypingSigned
<1> QED BY <1>1, <1>2, OwnOffered, OwnBroadcast, OwnReceived DEF FeedNext

\* Nobody is shown to themself as typing: readPump names the sender in its
\* payload and handleBroadcast passes it by, however long both wait.
THEOREM OwnTypingIsUnseen == FeedSpec => []OwnTypingUnseen
<1>1. FeedInit => OwnInvariant
  BY DEF FeedInit, OwnInvariant, TypingSigned, OwnTypingUnseen, Untold
<1>2. OwnInvariant => OwnTypingUnseen
  BY DEF OwnInvariant
<1> QED BY <1>1, <1>2, OwnNext, FeedIsHub, FeedTypeCorrect, PTL DEF FeedSpec

-----------------------------------------------------------------------------
(* A room at rest, when nothing was dropped.                               *)

\* What the hub tells finds room wherever it goes: no count and no departure is
\* dropped for h.broadcast, and no payload for a member's channel.
RoomInChannels ==
  /\ CountToCome => Len(broadcast) < BroadcastCap
  /\ hubPc = "run" /\ broadcast # <<>> => \A c \in Watching : pending[c] < SendCap

NothingDropped == \A c \in Client : lost[c] = {}

LEMMA DroppedNext ==
  ASSUME FeedTypeOK, HubInvariant, FeedInvariant, RoomInChannels, NothingDropped,
         [FeedNext]_feedVars
  PROVE  NothingDropped'
<1>1. lost \in [Client -> SUBSET Subject] /\ pending \in [Client -> 0 .. SendCap]
  BY DEF FeedTypeOK, TypeOK
<1>2. ASSUME NEW m, Offered(m), \/ m.about \notin Subject
                                \/ Len(broadcast') > Len(broadcast)
      PROVE  NothingDropped'
  BY <1>2 DEF Offered, NothingDropped
<1>3. Len(broadcast) \in Nat
      /\ \A b : Len(Append(broadcast, b)) = Len(broadcast) + 1
  BY DEF FeedTypeOK, TypeOK
<1>4. CASE FeedAnnounceJoin
  BY <1>2, <1>4, MessageType DEF FeedAnnounceJoin
<1>5. CASE FeedAnnounceJoinCount \/ FeedAnnounceLeave \/ FeedAnnounceLeaveCount
  <2>1. CountToCome /\ Announce
    BY <1>5 DEF FeedAnnounceJoinCount, FeedAnnounceLeave, FeedAnnounceLeaveCount,
                AnnounceJoinCount, AnnounceLeave, AnnounceLeaveCount, CountToCome
  <2>2. Len(broadcast') > Len(broadcast)
    BY <1>3, <2>1 DEF Announce, RoomInChannels
  <2> QED BY <1>2, <1>5, <2>2
          DEF FeedAnnounceJoinCount, FeedAnnounceLeave, FeedAnnounceLeaveCount
<1>6. ASSUME NEW c \in Client, FeedPublish(c)
      PROVE  NothingDropped'
  BY <1>2, <1>3, <1>6 DEF FeedPublish, Publish
<1>7. CASE FeedAdmit \/ \E c \in Client : FeedReadTooLong(c)
  BY <1>7, MessageType DEF FeedAdmit, FeedReadTooLong, Delivered, NothingDropped
<1>8. CASE FeedHandleBroadcast
  <2> DEFINE S == clients \ {Head(broadcast)}
  <2>1. SendSafe(S) /\ Delivered(S, Head(feed), Tail(feed))
    BY <1>8 DEF FeedHandleBroadcast, HandleBroadcast, HubSends
  <2>2. \A c \in Watching : c \in Client /\ pending[c] < SendCap
    BY <1>8 DEF FeedHandleBroadcast, HandleBroadcast, RoomInChannels, Watching,
                FeedTypeOK, TypeOK
  <2>3. \A c \in S \cap Watching : pending'[c] # pending[c]
    BY <1>1, <2>1, <2>2 DEF SendSafe
  <2> QED BY <2>1, <2>3 DEF Delivered, NothingDropped
<1>9. ASSUME NEW c \in Client, FeedWriteMessage(c) \/ FeedUnregister(c)
      PROVE  NothingDropped'
  BY <1>1, <1>9 DEF FeedWriteMessage, FeedUnregister, Forget, NothingDropped
<1>10. CASE NoMessage \/ UNCHANGED feedVars \/ \E c \in Client : FeedReadRelayed(c)
  BY <1>10 DEF NoMessage, contents, feedVars, FeedReadRelayed, NothingDropped
<1> QED BY <1>4, <1>5, <1>6, <1>7, <1>8, <1>9, <1>10 DEF FeedNext

\* A page that has been written all there was for it shows the members there are
\* and keeps nobody typing but members, if no channel was ever full: the
\* exceptions of UserCountRight and NoGhostTyping are the dropped messages only.
THEOREM SettledPagesAreRight ==
  FeedSpec /\ []RoomInChannels =>
    [](~CountToCome /\ feed = <<>> =>
         \A c \in Watching : queue[c] = <<>> =>
           /\ users[c] = Cardinality(clients)
           /\ \A d \in typing[c] : InRoom(d))
<1> DEFINE Right ==
      ~CountToCome /\ feed = <<>> =>
        \A c \in Watching : queue[c] = <<>> =>
          /\ users[c] = Cardinality(clients)
          /\ \A d \in typing[c] : InRoom(d)
<1>1. FeedInit => NothingDropped
  BY DEF FeedInit, NothingDropped
<1>2. FeedTypeOK /\ HubInvariant /\ FeedInvariant /\ RoomInChannels /\ NothingDropped
        /\ [FeedNext]_feedVars => NothingDropped'
  BY DroppedNext
<1>3. FeedTypeOK /\ UserCountRight /\ NoGhostTyping /\ NothingDropped => Right
  <2> SUFFICES ASSUME FeedTypeOK, UserCountRight, NoGhostTyping, NothingDropped,
                      ~CountToCome, feed = <<>>, NEW c \in Watching, queue[c] = <<>>
               PROVE  /\ users[c] = Cardinality(clients)
                      /\ \A d \in typing[c] : InRoom(d)
    OBVIOUS
  <2>1. c \in Client /\ typing[c] \in SUBSET Client /\ lost[c] = {}
    BY DEF FeedTypeOK, TypeOK, Watching, NothingDropped
  <2>2. \A x : ~Mentions(feed, x) /\ ~Mentions(queue[c], x)
    BY DEF Mentions
  <2>3. users[c] = Cardinality(clients)
    BY <2>1, <2>2 DEF UserCountRight, WillShow, Shows
  <2>4. \A d \in typing[c] : InRoom(d)
    BY <2>1, <2>2, MessageType DEF NoGhostTyping, WillShow, Shows, CountToCome
  <2> QED BY <2>3, <2>4
<1> HIDE DEF Right
<1>4. FeedSpec /\ []RoomInChannels => []Right
  BY <1>1, <1>2, <1>3, FeedIsHub, FeedTypeCorrect, UserCountsRight, NoGhosts, PTL
  DEF FeedSpec
<1> QED BY <1>4 DEF Right
=============================================================================
