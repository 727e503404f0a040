------------------------------ MODULE MCDaemon ------------------------------
(* Model-checking instances of the daemon's threads: identities are model   *)
(* values, and without SYMMETRY because the run checks liveness as well.    *)
EXTENDS Daemon
=============================================================================
