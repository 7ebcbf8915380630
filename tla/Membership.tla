----------------------------- MODULE Membership -----------------------------
(***************************************************************************)
(* What a hub promises its manager and its clients about who is in the     *)
(* room: a connection is a member at most once and only while the room is  *)
(* open; a room that has begun to close admits nobody; and it is gone only *)
(* when its last member has left.  How registrations, departures and the   *)
(* two ways of closing (becoming empty, Stop) are carried out is left to   *)
(* Hub, which implements this specification.                               *)
(***************************************************************************)
CONSTANT Client

VARIABLES
  phase,    \* "open", "closing" or "gone"
  members,  \* the connections in the room
  left      \* the connections that were members once

vars == <<phase, members, left>>

Init == phase = "open" /\ members = {} /\ left = {}

Join(c) ==
  /\ phase = "open" /\ c \notin members \cup left
  /\ members' = members \cup {c}
  /\ UNCHANGED <<phase, left>>

Leave(c) ==
  /\ phase # "gone" /\ c \in members
  /\ members' = members \ {c} /\ left' = left \cup {c}
  /\ UNCHANGED phase

Close ==
  /\ phase = "open" /\ phase' = "closing"
  /\ UNCHANGED <<members, left>>

Vanish ==
  /\ phase = "closing" /\ members = {} /\ phase' = "gone"
  /\ UNCHANGED <<members, left>>

Next == Close \/ Vanish \/ \E c \in Client : Join(c) \/ Leave(c)

Spec == Init /\ [][Next]_vars
=============================================================================
