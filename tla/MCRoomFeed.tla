----------------------------- MODULE MCRoomFeed -----------------------------
(* Instances of RoomFeed for TLC: the .cfg file gives the constants.       *)
EXTENDS RoomFeed, TLC

\* The connections are interchangeable.  There is no liveness in these runs.
AnyConnection == Permutations(Client)
=============================================================================
