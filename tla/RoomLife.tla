------------------------------ MODULE RoomLife ------------------------------
(***************************************************************************)
(* The life of one hub, as its manager relies on it: members come and go   *)
(* while it runs; with the last of them it empties and removes itself, for *)
(* good; once it is stopped it may drain instead, admits nobody any more   *)
(* and returns when the last member has left.                              *)
(*                                                                         *)
(* Hub implements this specification with its channels and goroutines.     *)
(* HubManager does not use it: the actions it has for its hubs were        *)
(* written with these guards, for many hubs at once, and that they are the *)
(* same is for a reader to see (a refinement would not show it).           *)
(***************************************************************************)
EXTENDS Integers

VARIABLES
  life,   \* "run", "emptied", "removed", "drain" or "stopped"
  users,  \* the number of members
  stop    \* Stop was called

vars == <<life, users, stop>>

\* It begins when NewHub has returned.
Init == life = "run" /\ users = 0 /\ stop = FALSE

Stop ==
  /\ stop' = TRUE
  /\ UNCHANGED <<life, users>>

Join ==
  /\ life = "run" /\ users' = users + 1
  /\ UNCHANGED <<life, stop>>

\* Once the last member has left nobody can join.
Leave ==
  /\ life = "run" /\ users > 0
  /\ users' = users - 1
  /\ life' = IF users = 1 THEN "emptied" ELSE "run"
  /\ UNCHANGED stop

Remove ==
  /\ life = "emptied" /\ life' = "removed"
  /\ UNCHANGED <<users, stop>>

Drain ==
  /\ life = "run" /\ stop /\ life' = "drain"
  /\ UNCHANGED <<users, stop>>

DrainLeave ==
  /\ life = "drain" /\ users > 0
  /\ users' = users - 1
  /\ UNCHANGED <<life, stop>>

Return ==
  /\ life = "drain" /\ users = 0 /\ life' = "stopped"
  /\ UNCHANGED <<users, stop>>

Next ==
  Stop \/ Join \/ Leave \/ Remove \/ Drain \/ DrainLeave \/ Return

Spec == Init /\ [][Next]_vars
=============================================================================
