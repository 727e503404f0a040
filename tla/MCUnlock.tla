------------------------------ MODULE MCUnlock ------------------------------
(* Instances of Unlock for TLC; the constants are set in the .cfg files.   *)
EXTENDS Unlock
=============================================================================
