------------------------------- MODULE Unlock -------------------------------
(***************************************************************************)
(* One execution of `unlock::execute_unlock`: the 710 -> 711 -> 518 -> 519 *)
(* handshake with an outdoor station, its retry loop, the total time cap,  *)
(* the early stop on a req=708 bye, the cancellation by the daemon's       *)
(* shutdown flag, the classification of the result and the HTTP reply that *)
(* `/unlock` makes of it.                                                  *)
(*                                                                         *)
(* Time is a count of ticks since the lazily started `InstantDeadline`     *)
(* (the first `expired()` query, at the top of the loop).  Computation     *)
(* takes no time; the three network waits of a step and the backoff do.    *)
(***************************************************************************)
EXTENDS Integers

CONSTANTS
    MaxRetries,     \* UNLOCK_MAX_RETRIES: retries after the first attempt
    TotalCap,       \* UNLOCK_TOTAL_CAP
    OpCap,          \* per-step limit: per_attempt_cap or DEFAULT_TIMEOUT
    RetryInterval,  \* UNLOCK_RETRY_INTERVAL or SELF_UNLOCK_PROBE_INTERVAL
    Probe           \* per_attempt_timeout.is_some(): the ring path

ASSUME UnlockAssumption ==
    /\ MaxRetries \in Nat
    /\ TotalCap \in Nat
    /\ OpCap \in Nat
    /\ RetryInterval \in Nat
    /\ Probe \in BOOLEAN

VARIABLES
    phase,         \* where the worker thread is in execute_unlock
    stage,         \* UnlockStage of the current step: "A" = 710, "B" = 518
    clock,         \* ticks since the deadline was started
    stepDeadline,  \* absolute deadline of the current send_context
    sleepUntil,    \* end of the current backoff sleep
    attempt,       \* loop counter of run_unlock_with_retry
    lastKind,      \* last_wire_kind
    cancel,        \* the daemon's shutdown flag, passed as `cancel`
    bye,           \* a matching req=708 frame waits in the subscription
    outcome,       \* the tuple of the retry loop, then the UnlockOutcome
    sent,          \* history: frames written per stage
    opened,        \* history: a valid 519 was received
    afterCancel    \* history: frames written while `cancel` was set

vars == <<phase, stage, clock, stepDeadline, sleepUntil, attempt, lastKind,
          cancel, bye, outcome, sent, opened, afterCancel>>

-----------------------------------------------------------------------------
(* Result codes and error kinds.                                           *)

OK == 0
ERR == -1
TIMEOUT == -5
NO_RING == -103

None == "None"
WireKind == {"SilentFin", "Timeout", "Retryable", "Other"}

IsRetryable(kind) == kind \in {"SilentFin", "Timeout", "Retryable"}

ClassifyWireErr(kind) ==
    CASE kind = "SilentFin" -> NO_RING
      [] kind = "Timeout"   -> TIMEOUT
      [] OTHER              -> ERR

Outcomes == [result : {OK, ERR, TIMEOUT, NO_RING}, retries : Nat,
             terminatedByBye : BOOLEAN, wireKind : WireKind \cup {None}]

-----------------------------------------------------------------------------
(* The HTTP reply of /unlock for an outcome (control.rs).                  *)

ClassifyWireKind(kind) == IF kind = None THEN OK ELSE ClassifyWireErr(kind)

RespondBusinessResult(code) ==
    [status |-> 200, code |-> code, push |-> code # OK]

RespondWireFailure(kind) ==
    LET code == ClassifyWireKind(kind)
    IN  IF code = NO_RING
        THEN RespondBusinessResult(code)
        ELSE [status |-> 503, code |-> code, push |-> TRUE]

\* Slip: the business-error branch does not look at the wire kind.
RespondIgnoringKind(o) ==
    CASE o.result = OK       -> RespondBusinessResult(OK)
      [] o.result = ERR      -> RespondBusinessResult(ERR)
      [] o.terminatedByBye   -> RespondWireFailure("SilentFin")
      [] OTHER               -> RespondWireFailure(o.wireKind)

RespondUnlockOutcome(o) ==
    IF o.result = OK THEN RespondBusinessResult(OK)
    ELSE IF o.result = ERR /\ o.wireKind = None THEN RespondBusinessResult(ERR)
    ELSE IF o.terminatedByBye THEN RespondWireFailure("SilentFin")
    ELSE RespondWireFailure(o.wireKind)

-----------------------------------------------------------------------------
(* Deadlines.                                                              *)

Expired == clock >= TotalCap

Remaining == IF Expired THEN 0 ELSE TotalCap - clock

\* Slip: each step gets a full budget instead of what is left of the cap.
OpTimeoutUnshared == OpCap

OpTimeout == IF OpCap <= Remaining THEN OpCap ELSE Remaining

Network == {"connect", "write", "read"}

Phases == Network \cup {"start", "top", "backoff", "classify", "done"}

-----------------------------------------------------------------------------
Init ==
    /\ phase = "start"
    /\ stage = "A"
    /\ clock = 0
    /\ stepDeadline = 0
    /\ sleepUntil = 0
    /\ attempt = 0
    /\ lastKind = None
    /\ cancel \in BOOLEAN
    /\ bye = FALSE
    /\ outcome = [result |-> NO_RING, retries |-> 0,
                  terminatedByBye |-> FALSE, wireKind |-> None]
    /\ sent = [s \in {"A", "B"} |-> 0]
    /\ opened = FALSE
    /\ afterCancel = 0

\* Leave run_unlock_with_retry with its result tuple.
Return(code, retries, byBye, kind) ==
    /\ outcome' = [result |-> code, retries |-> retries,
                   terminatedByBye |-> byBye, wireKind |-> kind]
    /\ phase' = "classify"

\* Take post_wire_mu and subscribe to req=708 before the first attempt.
Subscribe ==
    /\ phase = "start"
    /\ phase' = "top"
    /\ UNCHANGED <<stage, clock, stepDeadline, sleepUntil, attempt, lastKind,
                   cancel, bye, outcome, sent, opened, afterCancel>>

\* send_context begins: the step's absolute deadline is fixed before connect.
BeginStep(s) ==
    /\ phase' = "connect"
    /\ stage' = s
    /\ stepDeadline' = clock + OpTimeout

TopOfLoop ==
    /\ phase = "top"
    /\ \/ /\ Expired \/ cancel
          /\ Return(NO_RING, attempt, FALSE, lastKind)
          /\ UNCHANGED <<stage, stepDeadline>>
       \/ /\ ~(Expired \/ cancel)
          /\ BeginStep("A")
          /\ UNCHANGED outcome
    /\ UNCHANGED <<clock, sleepUntil, attempt, lastKind, cancel, bye, sent,
                   opened, afterCancel>>

-----------------------------------------------------------------------------
(* One step of the handshake: connect, write the frame, read the answer.   *)

\* Slip: `cancel` is not looked at between connect and write.
ConnectUnchecked ==
    /\ phase = "connect"
    /\ clock < stepDeadline
    /\ phase' = "write"
    /\ UNCHANGED <<stage, clock, stepDeadline, sleepUntil, attempt, lastKind,
                   cancel, bye, outcome, sent, opened, afterCancel>>

\* The connection stands and `cancel` was clear when write_then_read looked.
Connect ==
    /\ phase = "connect"
    /\ clock < stepDeadline
    /\ ~cancel
    /\ phase' = "write"
    /\ UNCHANGED <<stage, clock, stepDeadline, sleepUntil, attempt, lastKind,
                   cancel, bye, outcome, sent, opened, afterCancel>>

\* write_all puts the frame on the wire; `cancel` may have been set since.
Write ==
    /\ phase = "write"
    /\ phase' = "read"
    /\ sent' = [sent EXCEPT ![stage] = @ + 1]
    /\ afterCancel' = afterCancel + (IF cancel THEN 1 ELSE 0)
    /\ UNCHANGED <<stage, clock, stepDeadline, sleepUntil, attempt, lastKind,
                   cancel, bye, outcome, opened>>

\* validate_response accepts the 711: go on to 518 with what is left of the cap.
AckA ==
    /\ phase = "read"
    /\ stage = "A"
    /\ BeginStep("B")
    /\ UNCHANGED <<clock, sleepUntil, attempt, lastKind, cancel, bye, outcome,
                   sent, opened, afterCancel>>

\* validate_response accepts the 519: the door is open.
AckB ==
    /\ phase = "read"
    /\ stage = "B"
    /\ opened' = TRUE
    /\ Return(OK, attempt, FALSE, None)
    /\ UNCHANGED <<stage, clock, stepDeadline, sleepUntil, attempt, lastKind,
                   cancel, bye, sent, afterCancel>>

\* The station answered something else: a business error, never retried.
BadAnswer ==
    /\ phase = "read"
    /\ Return(ERR, attempt, FALSE, None)
    /\ UNCHANGED <<stage, clock, stepDeadline, sleepUntil, attempt, lastKind,
                   cancel, bye, sent, opened, afterCancel>>

AttemptExpired(kind) == Probe /\ kind = "Timeout" /\ ~Expired

Backoff ==
    /\ phase' = "backoff"
    /\ sleepUntil' = clock + RetryInterval
    /\ UNCHANGED outcome

\* Slip: a wire error after the 711 is retried like any other.
WireErrRetryingB(kind) ==
    /\ lastKind' = kind
    /\ \/ /\ (~IsRetryable(kind) /\ ~AttemptExpired(kind)) \/ attempt = MaxRetries
          /\ Return(NO_RING, attempt, FALSE, kind)
          /\ UNCHANGED sleepUntil
       \/ /\ IsRetryable(kind) \/ AttemptExpired(kind)
          /\ attempt < MaxRetries
          /\ Backoff
    /\ UNCHANGED <<stage, clock, stepDeadline, attempt, cancel, bye, sent,
                   opened, afterCancel>>

\* A step ends in a wire error: return it, or sleep and retry.
WireErr(kind) ==
    /\ lastKind' = kind
    /\ \/ /\ \/ stage = "B"
             \/ ~IsRetryable(kind) /\ ~AttemptExpired(kind)
             \/ attempt = MaxRetries
          /\ Return(NO_RING, attempt, FALSE, kind)
          /\ UNCHANGED sleepUntil
       \/ /\ stage = "A"
          /\ IsRetryable(kind) \/ AttemptExpired(kind)
          /\ attempt < MaxRetries
          /\ Backoff
    /\ UNCHANGED <<stage, clock, stepDeadline, attempt, cancel, bye, sent,
                   opened, afterCancel>>

\* Slip: no deadline on the read.
StepTimeoutNoRead ==
    /\ phase \in {"connect", "write"}
    /\ ~cancel
    /\ clock >= stepDeadline
    /\ WireErr("Timeout")

\* The step's deadline passed: poll slice, SO_*TIMEO or the CancelWatcher.
StepTimeout ==
    /\ phase \in Network
    /\ ~cancel
    /\ clock >= stepDeadline
    /\ WireErr("Timeout")

\* `cancel` wins over every other classification and maps to Other.
StepCanceled ==
    /\ phase \in Network
    /\ cancel
    /\ WireErr("Other")

\* Reset, broken pipe, refused, interface gone; FIN without a byte only on read.
StepError(kind) ==
    /\ phase \in Network
    /\ ~cancel
    /\ \/ kind \in {"Retryable", "Other"}
       \/ kind = "SilentFin" /\ phase = "read" /\ clock < stepDeadline
    /\ WireErr(kind)

-----------------------------------------------------------------------------
(* ThreadSleeper::sleep: cancel, then bye, then the end of the interval.   *)

BackoffCanceled ==
    /\ phase = "backoff"
    /\ cancel
    /\ Return(NO_RING, attempt + 1, FALSE, lastKind)
    /\ UNCHANGED <<stage, clock, stepDeadline, sleepUntil, attempt, lastKind,
                   cancel, bye, sent, opened, afterCancel>>

BackoffBye ==
    /\ phase = "backoff"
    /\ ~cancel
    /\ bye
    /\ Return(NO_RING, attempt + 1, TRUE, lastKind)
    /\ UNCHANGED <<stage, clock, stepDeadline, sleepUntil, attempt, lastKind,
                   cancel, bye, sent, opened, afterCancel>>

BackoffElapsed ==
    /\ phase = "backoff"
    /\ ~cancel
    /\ ~bye
    /\ clock >= sleepUntil
    /\ phase' = "top"
    /\ attempt' = attempt + 1
    /\ UNCHANGED <<stage, clock, stepDeadline, sleepUntil, lastKind, cancel,
                   bye, outcome, sent, opened, afterCancel>>

-----------------------------------------------------------------------------
(* The tail of execute_unlock: normalise the result, drop the subscription.*)

\* Slip: the cap turns the code into -5 and leaves the wire kind as it was.
NormaliseCodeOnly(o) ==
    IF o.result \in {OK, ERR} \/ o.terminatedByBye \/ o.wireKind = None THEN o
    ELSE [o EXCEPT !.result =
             ClassifyWireErr(IF Expired /\ ~IsRetryable(o.wireKind)
                             THEN "Timeout" ELSE o.wireKind)]

Normalise(o) ==
    IF o.result \in {OK, ERR} THEN o
    ELSE IF o.terminatedByBye \/ o.wireKind = None
         THEN [o EXCEPT !.result = NO_RING]
    ELSE LET kind == IF Expired /\ ~IsRetryable(o.wireKind)
                     THEN "Timeout" ELSE o.wireKind
         IN  [o EXCEPT !.wireKind = kind, !.result = ClassifyWireErr(kind)]

Classify ==
    /\ phase = "classify"
    /\ phase' = "done"
    /\ outcome' = Normalise(outcome)
    /\ bye' = FALSE
    /\ UNCHANGED <<stage, clock, stepDeadline, sleepUntil, attempt, lastKind,
                   cancel, sent, opened, afterCancel>>

-----------------------------------------------------------------------------
(* The environment: time, the shutdown flag, the sniffed bye frame.        *)

Tick ==
    /\ \/ phase \in Network /\ clock < stepDeadline
       \/ phase = "backoff" /\ clock < sleepUntil
    /\ clock' = clock + 1
    /\ UNCHANGED <<phase, stage, stepDeadline, sleepUntil, attempt, lastKind,
                   cancel, bye, outcome, sent, opened, afterCancel>>

SetCancel ==
    /\ phase # "done"
    /\ ~cancel
    /\ cancel' = TRUE
    /\ UNCHANGED <<phase, stage, clock, stepDeadline, sleepUntil, attempt,
                   lastKind, bye, outcome, sent, opened, afterCancel>>

DeliverBye ==
    /\ phase \notin {"start", "done"}
    /\ ~bye
    /\ bye' = TRUE
    /\ UNCHANGED <<phase, stage, clock, stepDeadline, sleepUntil, attempt,
                   lastKind, cancel, outcome, sent, opened, afterCancel>>

\* The execution is over; the worker goes back to its queue.
Finished ==
    /\ phase = "done"
    /\ UNCHANGED vars

\* Steps the worker thread takes by itself.
Thread ==
    \/ Subscribe \/ TopOfLoop \/ Write \/ StepTimeout \/ StepCanceled
    \/ BackoffCanceled \/ BackoffBye \/ BackoffElapsed \/ Classify

\* Steps the outdoor station and the network decide.
Station ==
    \/ Connect \/ AckA \/ AckB \/ BadAnswer
    \/ \E kind \in WireKind : StepError(kind)

Next == Thread \/ Station \/ Tick \/ SetCancel \/ DeliverBye \/ Finished

Spec == Init /\ [][Next]_vars

\* The thread is scheduled and time passes; the station may stay silent.
FairSpec == Spec /\ WF_vars(Thread) /\ WF_vars(Tick)

-----------------------------------------------------------------------------
(* Properties.                                                             *)

\* Type invariant.
TypeOK ==
    /\ phase \in Phases
    /\ stage \in {"A", "B"}
    /\ clock \in Nat
    /\ stepDeadline \in Nat
    /\ sleepUntil \in Nat
    /\ attempt \in 0..MaxRetries
    /\ lastKind \in WireKind \cup {None}
    /\ cancel \in BOOLEAN
    /\ bye \in BOOLEAN
    /\ outcome \in Outcomes
    /\ outcome.retries <= MaxRetries
    /\ sent \in [{"A", "B"} -> Nat]
    /\ opened \in BOOLEAN
    /\ afterCancel \in Nat

\* unlock.rs forbids a retry once the station has acknowledged the 710: in one
\* execution at most one 518 (the frame that opens the door) is ever written,
\* and after it no 710 is written again.
OneOpenFrame ==
    /\ sent["B"] <= 1
    /\ sent["B"] = 1 => \/ phase = "read" /\ stage = "B"
                        \/ phase \in {"classify", "done"}

\* The wire goes quiet on shutdown: however the flag races with the handshake,
\* at most one frame is written after `cancel` is set (the one whose check in
\* write_then_read came just before).
QuietAfterCancel == afterCancel <= 1

\* The two steps of an attempt share what is left of the cap, so an execution
\* lasts at most the cap and one backoff interval (the sleep does not look at
\* the deadline).  The HTTP handler and the self-unlock consumer block this long.
DurationBound == clock <= TotalCap + RetryInterval

\* The contract stated at UnlockOutcome and in the tail of execute_unlock: the
\* result and the wire kind agree after normalisation, a bye is always -103,
\* and 0 is reported exactly when a valid 519 was read.
OutcomeNormalised ==
    phase = "done" =>
        /\ outcome.result = OK <=> opened
        /\ outcome.terminatedByBye => outcome.result = NO_RING
        /\ outcome.wireKind # None /\ ~outcome.terminatedByBye
              => outcome.result = ClassifyWireErr(outcome.wireKind)
        /\ outcome.result \in {OK, ERR} /\ outcome.wireKind = None
              => sent["A"] > 0

\* What the HTTP client of /unlock is told: 200 with result 0 exactly when the
\* station confirmed the opening; any other reply with result 0 is a 503 and
\* means that no frame was written at all; 200 with -1 means the station
\* answered, so a wire failure is never presented as a business error.
ReplyHonest ==
    phase = "done" =>
        LET reply == RespondUnlockOutcome(outcome)
        IN  /\ reply.status = 200 /\ reply.code = OK <=> opened
            /\ reply.code = OK /\ ~opened
                  => reply.status = 503 /\ sent["A"] = 0 /\ sent["B"] = 0
            /\ reply.status = 200 /\ reply.code = ERR
                  => outcome.wireKind = None /\ sent["A"] > 0
            /\ reply.push <=> ~opened

\* Every execution ends, whatever the station does, so neither the worker nor
\* the requester waiting for the reply is held forever.
Terminates == <>(phase = "done")
=============================================================================
