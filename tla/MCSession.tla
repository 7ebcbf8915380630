------------------------------ MODULE MCSession ------------------------------
(* Instances of Session for TLC: the .cfg files give the constants.        *)
EXTENDS Session, TLC
=============================================================================
