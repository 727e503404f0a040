---------------------------- MODULE MCSelfUnlock ----------------------------
(* Model-checking instances of the ring path; each cfg says what a tick is. *)
EXTENDS SelfUnlock
=============================================================================
