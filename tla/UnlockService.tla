---------------------------- MODULE UnlockService ----------------------------
(***************************************************************************)
(* What the wire-worker promises to those who want a door opened, without  *)
(* threads, channels or a shutdown sequence: requests are executed one at  *)
(* a time and in the order they were made, each requester gets one answer, *)
(* its own, and only what is asked after the service has shut is turned    *)
(* away, unexecuted.                                                       *)
(***************************************************************************)
CONSTANT Requesters

VARIABLES
    open,     \* requests are still taken
    waiting,  \* requesters to be served
    ahead,    \* per requester: those who asked before it and still wait
    refused,  \* requesters who came too late and do not know it yet
    answer    \* per requester: the answer to its last request, or "none"

vars == <<open, waiting, ahead, refused, answer>>

Executed == {"ok", "failed", "canceled"}

Init ==
    /\ open = TRUE
    /\ waiting = {}
    /\ ahead = [r \in Requesters |-> {}]
    /\ refused = {}
    /\ answer = [r \in Requesters |-> "none"]

Pending(r) == r \in waiting \cup refused

Ask(r) ==
    /\ open /\ ~Pending(r)
    /\ waiting' = waiting \cup {r}
    /\ ahead' = [ahead EXCEPT ![r] = waiting]
    /\ answer' = [answer EXCEPT ![r] = "none"]
    /\ UNCHANGED <<open, refused>>

\* Somebody who asks a service that has shut learns it now or later.
AskInVain(r) ==
    /\ ~open /\ ~Pending(r)
    /\ \/ refused' = refused \cup {r} /\ answer' = [answer EXCEPT ![r] = "none"]
       \/ answer' = [answer EXCEPT ![r] = "unavailable"] /\ UNCHANGED refused
    /\ UNCHANGED <<open, waiting, ahead>>

\* Whoever has nobody ahead is next.
Serve(r) ==
    /\ r \in waiting /\ ahead[r] = {}
    /\ waiting' = waiting \ {r}
    /\ ahead' = [q \in Requesters |-> ahead[q] \ {r}]
    /\ \E o \in Executed : answer' = [answer EXCEPT ![r] = o]
    /\ UNCHANGED <<open, refused>>

\* Once those who wait have been served.
TurnAway ==
    /\ refused # {} /\ waiting = {}
    /\ refused' = {}
    /\ answer' = [r \in Requesters |-> IF r \in refused THEN "unavailable" ELSE answer[r]]
    /\ UNCHANGED <<open, waiting, ahead>>

Shut == open /\ open' = FALSE /\ UNCHANGED <<waiting, ahead, refused, answer>>

Next == \/ \E r \in Requesters : Ask(r) \/ AskInVain(r) \/ Serve(r)
        \/ TurnAway
        \/ Shut

Safety == Init /\ [][Next]_vars

Spec == /\ Safety
        /\ WF_vars(\E r \in Requesters : Serve(r))
        /\ WF_vars(TurnAway)
=============================================================================
