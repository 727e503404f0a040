------------------------------- MODULE MCStream -------------------------------
(* Model-checking instance of the stream path.                             *)
EXTENDS Stream, TLC

\* A key frame, a picture, and the next key frame.
ThreePictures ==
    <<[type |-> "sps", at |-> 0], [type |-> "pps", at |-> 0], [type |-> "idr", at |-> 0],
      [type |-> "slice", at |-> 4], [type |-> "idr", at |-> 8]>>
=============================================================================
