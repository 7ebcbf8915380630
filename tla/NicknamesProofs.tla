--------------------------- MODULE NicknamesProofs ---------------------------
(***************************************************************************)
(* Theorems about Nicknames, for every number of streams, connections and  *)
(* nicknames, and whoever calls the server: type correctness, that no name *)
(* is locked forever, and that only readPump breaks the uniqueness.        *)
(***************************************************************************)
EXTENDS Nicknames, TLAPS

(* Type correctness.                                                       *)

LEMMA ServerTypeInit == ServerInit => ServerTypeOK
BY NicknamesAssumption
DEF NicknamesAssumption, ServerInit, ServerTypeOK, StreamPc, ConnPc

LEMMA ServerTypeNext == ServerTypeOK /\ [ServerNext]_serverVars => ServerTypeOK'
<1> SUFFICES ASSUME ServerTypeOK, [ServerNext]_serverVars
             PROVE  ServerTypeOK'
  OBVIOUS
<1> USE NicknamesAssumption DEF NicknamesAssumption, ServerTypeOK, StreamPc, ConnPc
<1>1. ASSUME NEW s \in Stream, NEW n \in Nickname, OpenStream(s, n)
      PROVE  ServerTypeOK'
  BY <1>1 DEF OpenStream, AddNickname
<1>2. ASSUME NEW s \in Stream, EndStream(s) \/ ReleaseStream(s)
      PROVE  ServerTypeOK'
  BY <1>2 DEF EndStream, ReleaseStream, RemoveNickname
<1>3. ASSUME NEW c \in Conn, NEW n \in Nickname, ServeWS(c, n)
      PROVE  ServerTypeOK'
  BY <1>3 DEF ServeWS
<1>4. ASSUME NEW c \in Conn, Register(c) \/ EndConn(c) \/ ReleaseConn(c)
      PROVE  ServerTypeOK'
  BY <1>4 DEF Register, EndConn, ReleaseConn, RemoveNickname
<1>5. CASE UNCHANGED serverVars
  BY <1>5 DEF serverVars
<1> QED BY <1>1, <1>2, <1>3, <1>4, <1>5 DEF ServerNext

\* The variables keep their types: a handler that holds a name knows it, so the
\* deferred function of sseHandler releases the name that was reserved.
THEOREM ServerTypeCorrect == ServerSpec => []ServerTypeOK
<1> QED BY ServerTypeInit, ServerTypeNext, PTL DEF ServerSpec

-----------------------------------------------------------------------------
(* Nobody is left to release a name.                                       *)

LEMMA LeakInit == ServerInit => NoNameLeaked
BY DEF ServerInit, NoNameLeaked

LEMMA LeakNext ==
  ServerTypeOK /\ NoNameLeaked /\ [ServerNext]_serverVars => NoNameLeaked'
<1> SUFFICES ASSUME ServerTypeOK, NoNameLeaked, [ServerNext]_serverVars,
                    NEW n \in nicknames'
             PROVE  \E s \in Stream : streamPc'[s] # "idle" /\ streamName'[s] = n
  BY DEF NoNameLeaked, Holders
<1> USE DEF ServerTypeOK, NoNameLeaked, Holders
<1>1. ASSUME NEW s \in Stream, NEW m \in Nickname, OpenStream(s, m)
      PROVE  \E t \in Stream : streamPc'[t] # "idle" /\ streamName'[t] = n
  BY <1>1 DEF OpenStream, AddNickname
<1>2. ASSUME NEW s \in Stream, EndStream(s)
      PROVE  \E t \in Stream : streamPc'[t] # "idle" /\ streamName'[t] = n
  BY <1>2 DEF EndStream
<1>3. ASSUME NEW s \in Stream, ReleaseStream(s)
      PROVE  \E t \in Stream : streamPc'[t] # "idle" /\ streamName'[t] = n
  BY <1>3 DEF ReleaseStream, RemoveNickname
<1>4. CASE \/ \E c \in Conn, m \in Nickname : ServeWS(c, m)
           \/ \E c \in Conn : Register(c) \/ EndConn(c) \/ ReleaseConn(c)
           \/ UNCHANGED serverVars
  BY <1>4 DEF ServeWS, Register, EndConn, ReleaseConn, RemoveNickname, serverVars
<1> QED BY <1>1, <1>2, <1>3, <1>4 DEF ServerNext

\* However streams and pumps overlap, a name in the registry is held by a handler
\* that will release it: no nickname is locked forever.
THEOREM NamesHeld == ServerSpec => []NoNameLeaked
<1> QED BY ServerTypeCorrect, LeakInit, LeakNext, PTL DEF ServerSpec

-----------------------------------------------------------------------------
(* Exactness until a readPump releases the name.                           *)

LEMMA ExactInit == ServerInit => ReservationExact
BY DEF ServerInit, ReservationExact, Holders, FreedByPump

\* A name that a readPump has released stays so: connections are not used again.
LEMMA FreedStable ==
  ASSUME ServerTypeOK, [ServerNext]_serverVars, NEW n \in Nickname, FreedByPump(n)
  PROVE  FreedByPump(n)'
BY DEF ServerTypeOK, FreedByPump, ServerNext, OpenStream, EndStream, ReleaseStream,
       ServeWS, Register, EndConn, ReleaseConn, serverVars

LEMMA ExactNext ==
  ServerTypeOK /\ ReservationExact /\ [ServerNext]_serverVars => ReservationExact'
<1> SUFFICES ASSUME ServerTypeOK, ReservationExact, [ServerNext]_serverVars,
                    NEW n \in Nickname, ~FreedByPump(n)'
             PROVE  /\ n \in nicknames' <=> Holders(n)' # {}
                    /\ \A s, t \in Holders(n)' : s = t
  BY DEF ReservationExact
<1>1. /\ n \in nicknames <=> Holders(n) # {}
      /\ \A s, t \in Holders(n) : s = t
  BY FreedStable DEF ReservationExact
<1>2. ASSUME NEW s \in Stream, NEW m \in Nickname, OpenStream(s, m)
      PROVE  /\ n \in nicknames' <=> Holders(n)' # {}
             /\ \A t, u \in Holders(n)' : t = u
  <2>1. Holders(n)' = IF m = n THEN Holders(n) \cup {s} ELSE Holders(n)
    BY <1>2 DEF ServerTypeOK, OpenStream, Holders
  <2>2. nicknames' = nicknames \cup {m} /\ m \notin nicknames
    BY <1>2 DEF OpenStream, AddNickname
  <2> QED BY <1>1, <2>1, <2>2
<1>3. ASSUME NEW s \in Stream, EndStream(s)
      PROVE  Holders(n)' = Holders(n) /\ nicknames' = nicknames
  BY <1>3 DEF ServerTypeOK, EndStream, Holders
<1>4. ASSUME NEW s \in Stream, ReleaseStream(s)
      PROVE  /\ n \in nicknames' <=> Holders(n)' # {}
             /\ \A t, u \in Holders(n)' : t = u
  <2>1. Holders(n)' = Holders(n) \ {s}
    BY <1>4 DEF ServerTypeOK, ReleaseStream, Holders
  <2>2. nicknames' = nicknames \ {streamName[s]}
    BY <1>4 DEF ReleaseStream, RemoveNickname
  <2>3. s \in Holders(n) <=> streamName[s] = n
    BY <1>4 DEF ReleaseStream, Holders
  <2> QED BY <1>1, <2>1, <2>2, <2>3
<1>5. ASSUME NEW c \in Conn, ReleaseConn(c)
      PROVE  Holders(n)' = Holders(n) /\ (n \in nicknames' <=> n \in nicknames)
  <2>1. connName[c] # n
    BY <1>5 DEF ServerTypeOK, ReleaseConn, FreedByPump
  <2> QED BY <1>5, <2>1 DEF ReleaseConn, RemoveNickname, Holders
<1>6. CASE \/ \E c \in Conn, m \in Nickname : ServeWS(c, m)
           \/ \E c \in Conn : Register(c) \/ EndConn(c)
           \/ UNCHANGED serverVars
  <2>1. Holders(n)' = Holders(n) /\ nicknames' = nicknames
    BY <1>6 DEF ServeWS, Register, EndConn, serverVars, Holders
  <2> QED BY <1>1, <2>1
<1> QED BY <1>1, <1>2, <1>3, <1>4, <1>5, <1>6 DEF ServerNext

\* The releases of readPump, which has reserved nothing, are the only way to
\* break the uniqueness of nicknames: until one, a name has exactly one holder
\* while it is in the registry.
THEOREM ReservationsExact == ServerSpec => []ReservationExact
<1> QED BY ServerTypeCorrect, ExactInit, ExactNext, PTL DEF ServerSpec
=============================================================================
