----------------------------- MODULE MCListener -----------------------------
(* A model-checking instance of the sniffer.                               *)
EXTENDS Listener, TLC

CONSTANTS ring, bye, ack, k0, k1, k2

\* A TCP segment without a payload of the protocol fills the filter as well.
MCDedupKey == ring :> k0 @@ bye :> k1 @@ ack :> k2

MCFilter == [u \in Subs |-> {ring}]

Symmetry == Permutations(Slaves)
=============================================================================
