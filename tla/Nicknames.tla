------------------------------ MODULE Nicknames ------------------------------
(***************************************************************************)
(* The nicknames in use (HubManager.nicknames) and the goroutines of the   *)
(* server that reserve and release them: the handler of a lobby stream     *)
(* (sseHandler), and the pumps of a WebSocket connection, which release a  *)
(* name they never reserved.                                               *)
(*                                                                         *)
(* The module is the server only.  Its actions leave open who calls, when  *)
(* and with which name; module Session gives the browsers that do.  A      *)
(* critical section of nicknamesMu is one action.  Names are valid here:   *)
(* the browser applies the rules of validateNickname before it sends one,  *)
(* and a stream with any other name is refused like one that is taken.     *)
(***************************************************************************)

CONSTANTS
  Nickname,  \* the nicknames that pass validateNickname
  NoName,    \* no nickname yet
  Stream,    \* handlers of lobby streams that can be active at a time
  Conn       \* the WebSocket connections ever asked for

ASSUME NicknamesAssumption == NoName \notin Nickname

VARIABLES
  nicknames,   \* m.nicknames
  streamPc,    \* streamPc[s]: the handler of stream s
  streamName,  \* streamName[s]: its validatedNickname
  connPc,      \* connPc[c]: ServeWS, then readPump, of connection c
  connName     \* connName[c]: its Nickname

serverVars == <<nicknames, streamPc, streamName, connPc, connName>>

StreamPc == {"idle",     \* no request, or the handler has returned
             "open",     \* has reserved its name, in streamEvents
             "release"}  \* streamEvents has returned, RemoveNickname is next

ConnPc == {"idle",      \* not asked for yet, or turned away
           "register",  \* ServeWS: upgraded, blocked in hub.register <-
           "read",      \* both pumps run
           "release",   \* readPump: deferred, unregistered, RemoveNickname next
           "closed"}    \* readPump: returned, the socket is closed

ServerInit ==
  /\ nicknames = {}
  /\ streamPc = [s \in Stream |-> "idle"]
  /\ streamName = [s \in Stream |-> NoName]
  /\ connPc = [c \in Conn |-> "idle"]
  /\ connName = [c \in Conn |-> NoName]

-----------------------------------------------------------------------------
(* The registry.                                                           *)

\* Seeded fault: the check and the entry are not one critical section.
AddNickname_Unchecked(n) == nicknames' = nicknames \cup {n}

\* AddNickname(n) succeeds, and is done.
AddNickname(n) == n \notin nicknames /\ nicknames' = nicknames \cup {n}

\* Seeded fault: the handler of the stream returns without its deferred call.
RemoveNickname_Forgotten(n) == UNCHANGED nicknames

\* RemoveNickname(n): deletes the name, whoever has reserved it.
RemoveNickname(n) == nicknames' = nicknames \ {n}

\* The answer of IsNicknameAvailable(n).
IsNicknameAvailable(n) == n \notin nicknames

-----------------------------------------------------------------------------
(* sseHandler.                                                             *)

\* Seeded fault: the name the deferred function sees is a shadowed, empty one.
OpenStream_Shadowed(s, n) ==
  /\ streamPc[s] = "idle"
  /\ AddNickname(n)
  /\ streamPc' = [streamPc EXCEPT ![s] = "open"]
  /\ UNCHANGED <<streamName, connPc, connName>>

\* handleNicknameValidation reserves the name, and streamEvents begins.
OpenStream(s, n) ==
  /\ streamPc[s] = "idle"
  /\ AddNickname(n)
  /\ streamPc' = [streamPc EXCEPT ![s] = "open"]
  /\ streamName' = [streamName EXCEPT ![s] = n]
  /\ UNCHANGED <<connPc, connName>>

\* AddNickname fails: the handler sends an error message and returns.
RefuseStream(n) == n \in nicknames /\ UNCHANGED serverVars

\* streamEvents returns: the peer is gone, or a write has failed.
EndStream(s) ==
  /\ streamPc[s] = "open"
  /\ streamPc' = [streamPc EXCEPT ![s] = "release"]
  /\ UNCHANGED <<nicknames, streamName, connPc, connName>>

\* The deferred function of sseHandler.
ReleaseStream(s) ==
  /\ streamPc[s] = "release"
  /\ RemoveNickname(streamName[s])
  /\ streamPc' = [streamPc EXCEPT ![s] = "idle"]
  /\ streamName' = [streamName EXCEPT ![s] = NoName]
  /\ UNCHANGED <<connPc, connName>>

-----------------------------------------------------------------------------
(* ServeWS and readPump.                                                   *)

\* ServeWS: the hub was found and the connection is upgraded.  The nickname is
\* taken from the query: nobody looks whether it is reserved, or by whom.
ServeWS(c, n) ==
  /\ connPc[c] = "idle"
  /\ connPc' = [connPc EXCEPT ![c] = "register"]
  /\ connName' = [connName EXCEPT ![c] = n]
  /\ UNCHANGED <<nicknames, streamPc, streamName>>

\* The hub receives the registration, and the pumps start.  It need not come to
\* this: module Hub shows a registration that nobody receives.
Register(c) ==
  /\ connPc[c] = "register"
  /\ connPc' = [connPc EXCEPT ![c] = "read"]
  /\ UNCHANGED <<nicknames, streamPc, streamName, connName>>

\* ReadMessage fails or the peer leaves, and the hub receives the
\* unregistration (Hub!DepartureServed).
EndConn(c) ==
  /\ connPc[c] = "read"
  /\ connPc' = [connPc EXCEPT ![c] = "release"]
  /\ UNCHANGED <<nicknames, streamPc, streamName, connName>>

\* The rest of the deferred function: RemoveNickname, conn.Close.
ReleaseConn(c) ==
  /\ connPc[c] = "release"
  /\ RemoveNickname(connName[c])
  /\ connPc' = [connPc EXCEPT ![c] = "closed"]
  /\ UNCHANGED <<streamPc, streamName, connName>>

-----------------------------------------------------------------------------
\* The server with any callers whatever.
ServerNext ==
  \/ \E s \in Stream, n \in Nickname : OpenStream(s, n)
  \/ \E s \in Stream : EndStream(s) \/ ReleaseStream(s)
  \/ \E c \in Conn, n \in Nickname : ServeWS(c, n)
  \/ \E c \in Conn : Register(c) \/ EndConn(c) \/ ReleaseConn(c)

ServerSpec == ServerInit /\ [][ServerNext]_serverVars

-----------------------------------------------------------------------------
(* Safety.                                                                 *)

ServerTypeOK ==
  /\ nicknames \in SUBSET Nickname
  /\ streamPc \in [Stream -> StreamPc]
  /\ streamName \in [Stream -> Nickname \cup {NoName}]
  /\ \A s \in Stream : streamPc[s] # "idle" => streamName[s] \in Nickname
  /\ connPc \in [Conn -> ConnPc]
  /\ connName \in [Conn -> Nickname \cup {NoName}]
  /\ \A c \in Conn : connPc[c] # "idle" => connName[c] \in Nickname

\* The handlers that have reserved n and have not released it.
Holders(n) == {s \in Stream : streamPc[s] # "idle" /\ streamName[s] = n}

\* A readPump has released n.
FreedByPump(n) == \E c \in Conn : connPc[c] = "closed" /\ connName[c] = n

\* A name that is in use is held by the handler of some stream, which will
\* release it: however streams and pumps overlap, the registry never keeps a
\* name that nobody is left to release (client.go: "preventing it from being
\* locked forever").
NoNameLeaked == \A n \in nicknames : Holders(n) # {}

\* Until a readPump has released the name, a nickname is in the registry exactly
\* while one handler holds it, and two handlers never hold the same: the
\* releases of readPump are the only way to break the uniqueness of nicknames.
ReservationExact ==
  \A n \in Nickname : ~FreedByPump(n) =>
    /\ n \in nicknames <=> Holders(n) # {}
    /\ \A s, t \in Holders(n) : s = t
=============================================================================
