------------------------------- MODULE MCLobby -------------------------------
(* Instances of Lobby for TLC: the .cfg file gives the constants.          *)
EXTENDS Lobby, TLC
=============================================================================
