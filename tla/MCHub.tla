-------------------------------- MODULE MCHub --------------------------------
(* Instances of Hub for TLC: the .cfg files give the constants.            *)
EXTENDS Hub, TLC
==============================================================================
