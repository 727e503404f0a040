------------------------------- MODULE MCVideo -------------------------------
(* Model-checking instances of the video session manager.                  *)
EXTENDS VideoManager, TLC

\* Sessions are interchangeable, and so are viewers (safety runs only).
Symmetry == Permutations(Sessions) \cup Permutations(Viewers)
=============================================================================
