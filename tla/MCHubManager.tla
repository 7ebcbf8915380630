---------------------------- MODULE MCHubManager ----------------------------
(* Instances of HubManager for TLC: the .cfg files give the constants.     *)
EXTENDS HubManager, TLC
=============================================================================
