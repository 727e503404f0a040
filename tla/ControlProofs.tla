---------------------------- MODULE ControlProofs ----------------------------
(***************************************************************************)
(* What the handlers behind the control endpoints promise: an unlock       *)
(* (module Unlock) and a toggle of an automation flag (module Automation). *)
(*                                                                         *)
(* Unlock, for every retry count, cap, step limit and backoff interval:    *)
(* the inductive invariant IInv says, phase by phase, how far the          *)
(* handshake can have got, how late it can be and what the pending result  *)
(* can claim.  Automation, for any set of handlers and any default:        *)
(* FlagsInv says who holds the Persister's lock, what it knows of the file *)
(* and when a loaded flag can be stale.                                    *)
(***************************************************************************)
EXTENDS Unlock, Automation, TLAPS

\* No step outlives the cap, and a backoff begun before the cap ends at most
\* one interval after it.
TimeInv ==
    /\ clock <= TotalCap + RetryInterval
    /\ phase \in Network => clock <= stepDeadline /\ stepDeadline <= TotalCap
    /\ phase = "backoff" => /\ clock <= sleepUntil
                            /\ sleepUntil <= TotalCap + RetryInterval
                            /\ attempt < MaxRetries

\* Before the 711 nothing of stage B has happened; the 518 is written once.
HandshakeInv ==
    /\ phase \in {"start", "top", "backoff"}
          => stage = "A" /\ sent["B"] = 0
    /\ phase \in Network /\ stage = "A" => sent["B"] = 0
    /\ phase \in Network /\ stage = "B" => sent["A"] > 0
    /\ phase \in {"connect", "write"} => sent["B"] = 0
    /\ phase = "read" => sent["A"] > 0
    /\ phase = "read" /\ stage = "B" => sent["B"] = 1
    /\ sent["B"] <= 1
    /\ phase \notin {"classify", "done"} => ~opened
    /\ phase \in {"start", "top"} /\ lastKind = None => sent["A"] = 0
    /\ phase = "backoff" => lastKind # None

\* A frame written after the cancellation is the last one.
CancelInv ==
    /\ afterCancel <= 1
    /\ afterCancel = 1 => cancel /\ phase # "write"

\* What the tuple of the retry loop can be before it is normalised.
ReturnInv ==
    phase = "classify" =>
        \/ /\ outcome.result = OK /\ opened /\ outcome.wireKind = None
           /\ ~outcome.terminatedByBye /\ sent["A"] > 0
        \/ /\ outcome.result = ERR /\ ~opened /\ outcome.wireKind = None
           /\ ~outcome.terminatedByBye /\ sent["A"] > 0
        \/ /\ outcome.result = NO_RING /\ ~opened /\ outcome.wireKind \in WireKind
        \/ /\ outcome.result = NO_RING /\ ~opened /\ outcome.wireKind = None
           /\ ~outcome.terminatedByBye /\ sent["A"] = 0 /\ sent["B"] = 0

\* What the outcome can be once it is normalised.
DoneInv ==
    phase = "done" =>
        \/ /\ outcome.result = OK /\ opened /\ outcome.wireKind = None
           /\ ~outcome.terminatedByBye /\ sent["A"] > 0
        \/ /\ outcome.result = ERR /\ ~opened /\ outcome.wireKind = None
           /\ ~outcome.terminatedByBye /\ sent["A"] > 0
        \/ /\ outcome.result = NO_RING /\ ~opened /\ outcome.wireKind \in WireKind
           /\ outcome.terminatedByBye
        \/ /\ outcome.result = ClassifyWireErr(outcome.wireKind) /\ ~opened
           /\ outcome.wireKind \in WireKind /\ ~outcome.terminatedByBye
        \/ /\ outcome.result = NO_RING /\ ~opened /\ outcome.wireKind = None
           /\ ~outcome.terminatedByBye /\ sent["A"] = 0 /\ sent["B"] = 0

IInv == TypeOK /\ TimeInv /\ HandshakeInv /\ CancelInv /\ ReturnInv /\ DoneInv

-----------------------------------------------------------------------------
\* The invariant holds before the first step.
LEMMA InitIInv == Init => IInv
  <1> SUFFICES ASSUME Init PROVE IInv
    OBVIOUS
  <1> USE UnlockAssumption
      DEF Init, Network, WireKind, None, OK, ERR, TIMEOUT, NO_RING
  <1>1. TypeOK
    <2>1. outcome \in Outcomes /\ outcome.retries <= MaxRetries
      BY DEF Outcomes
    <2>2. sent \in [{"A", "B"} -> Nat]
      OBVIOUS
    <2>3. cancel \in BOOLEAN /\ bye \in BOOLEAN /\ opened \in BOOLEAN
      OBVIOUS
    <2>4. attempt \in 0..MaxRetries
      OBVIOUS
    <2>5. phase \in Phases /\ stage \in {"A", "B"} /\ lastKind \in WireKind \cup {None}
      BY DEF Phases
    <2> QED
      BY <2>1, <2>2, <2>3, <2>4, <2>5 DEF TypeOK
  <1>2. TimeInv /\ HandshakeInv /\ CancelInv
    BY DEF TimeInv, HandshakeInv, CancelInv
  <1>3. ReturnInv /\ DoneInv
    BY DEF ReturnInv, DoneInv
  <1> QED
    BY <1>1, <1>2, <1>3 DEF IInv

\* A wire error keeps the invariant, whatever its kind: either the loop returns
\* it or a backoff begins.
LEMMA WireErrIInv ==
  ASSUME IInv, phase \in Network, NEW kind \in WireKind, WireErr(kind)
  PROVE  IInv'
  <1> USE UnlockAssumption
      DEF IInv, TypeOK, TimeInv, HandshakeInv, CancelInv, WireErr, Network,
          WireKind, None, OK, ERR, TIMEOUT, NO_RING
  <1>1. CASE phase' = "classify"
    <2>1. Return(NO_RING, attempt, FALSE, kind) /\ UNCHANGED sleepUntil
      BY <1>1 DEF Backoff
    <2>2. TypeOK'
      BY <2>1 DEF Return, Phases, Outcomes
    <2>3. (TimeInv /\ HandshakeInv /\ CancelInv)'
      BY <2>1 DEF Return
    <2>4. (ReturnInv /\ DoneInv)'
      BY <2>1 DEF Return, ReturnInv, DoneInv
    <2> QED
      BY <2>2, <2>3, <2>4
  <1>2. CASE phase' # "classify"
    <2>1. Backoff /\ stage = "A" /\ attempt < MaxRetries
      BY <1>2 DEF Return
    <2>2. TypeOK'
      BY <2>1 DEF Backoff, Phases, Outcomes
    <2>3. (TimeInv /\ HandshakeInv /\ CancelInv)'
      BY <2>1 DEF Backoff
    <2>4. (ReturnInv /\ DoneInv)'
      BY <2>1 DEF Backoff, ReturnInv, DoneInv
    <2> QED
      BY <2>2, <2>3, <2>4
  <1> QED
    BY <1>1, <1>2

\* Every step of execute_unlock and of its surroundings keeps the invariant.
LEMMA StepIInv == IInv /\ [Next]_vars => IInv'
  <1> SUFFICES ASSUME IInv, [Next]_vars PROVE IInv'
    OBVIOUS
  <1> USE UnlockAssumption
      DEF IInv, TypeOK, TimeInv, HandshakeInv, CancelInv, ReturnInv, DoneInv,
          Phases, Network, Outcomes, WireKind, None, OK, ERR, TIMEOUT, NO_RING
  <1>1. CASE Subscribe
    BY <1>1 DEF Subscribe
  <1>2. CASE TopOfLoop
    <2>1. CASE Expired \/ cancel
      <3>1. Return(NO_RING, attempt, FALSE, lastKind)
        BY <1>2, <2>1 DEF TopOfLoop
      <3>2. outcome' \in Outcomes /\ outcome'.retries <= MaxRetries
        BY <3>1 DEF Return
      <3>3. TypeOK'
        BY <1>2, <2>1, <3>1, <3>2 DEF TopOfLoop, Return
      <3>4. (TimeInv /\ HandshakeInv /\ CancelInv)'
        BY <1>2, <2>1, <3>1 DEF TopOfLoop, Return
      <3>5. (ReturnInv /\ DoneInv)'
        BY <1>2, <2>1, <3>1 DEF TopOfLoop, Return
      <3> QED
        BY <3>3, <3>4, <3>5
    <2>2. CASE ~(Expired \/ cancel)
      <3>1. /\ OpTimeout \in Nat
            /\ clock + OpTimeout \in Nat /\ clock + OpTimeout <= TotalCap
        BY <2>2 DEF OpTimeout, Remaining, Expired
      <3>2. BeginStep("A") /\ outcome' = outcome
        BY <1>2, <2>2 DEF TopOfLoop
      <3>3. TypeOK'
        BY <1>2, <2>2, <3>1, <3>2 DEF TopOfLoop, BeginStep
      <3>4. (TimeInv /\ HandshakeInv /\ CancelInv /\ ReturnInv /\ DoneInv)'
        BY <1>2, <2>2, <3>1, <3>2 DEF TopOfLoop, BeginStep
      <3> QED
        BY <3>3, <3>4
    <2> QED
      BY <2>1, <2>2
  <1>3. CASE Write
    BY <1>3 DEF Write
  <1>4. CASE BackoffCanceled
    BY <1>4 DEF BackoffCanceled, Return
  <1>5. CASE BackoffBye
    BY <1>5 DEF BackoffBye, Return
  <1>6. CASE BackoffElapsed
    BY <1>6 DEF BackoffElapsed
  <1>7. CASE Classify
    <2>1. outcome' = Normalise(outcome) /\ phase' = "done" /\ phase = "classify"
      BY <1>7 DEF Classify
    <2>2. CASE outcome.result \in {OK, ERR}
      <3>1. outcome' = outcome
        BY <2>1, <2>2 DEF Normalise
      <3>2. TypeOK'
        BY <1>7, <2>1, <3>1 DEF Classify
      <3>3. (TimeInv /\ HandshakeInv /\ CancelInv /\ ReturnInv)'
        BY <1>7, <2>1, <3>1 DEF Classify
      <3>4. DoneInv'
        BY <1>7, <2>1, <2>2, <3>1 DEF Classify
      <3> QED
        BY <3>2, <3>3, <3>4
    <2>3. CASE outcome.result = NO_RING /\ (outcome.terminatedByBye \/ outcome.wireKind = None)
      <3>1. outcome' = outcome
        BY <2>1, <2>3 DEF Normalise
      <3>2. TypeOK'
        BY <1>7, <2>1, <3>1 DEF Classify
      <3>3. (TimeInv /\ HandshakeInv /\ CancelInv /\ ReturnInv)'
        BY <1>7, <2>1, <3>1 DEF Classify
      <3>4. DoneInv'
        BY <1>7, <2>1, <2>3, <3>1 DEF Classify
      <3> QED
        BY <3>2, <3>3, <3>4
    <2>4. CASE /\ outcome.result = NO_RING
               /\ ~outcome.terminatedByBye /\ outcome.wireKind \in WireKind
      <3> DEFINE k == IF Expired /\ ~IsRetryable(outcome.wireKind)
                      THEN "Timeout" ELSE outcome.wireKind
      <3>1. k \in WireKind
        BY <2>4
      <3>2. ClassifyWireErr(k) \in {ERR, TIMEOUT, NO_RING}
        BY DEF ClassifyWireErr
      <3>3. outcome' = [outcome EXCEPT !.wireKind = k, !.result = ClassifyWireErr(k)]
        BY <2>1, <2>4 DEF Normalise
      <3> HIDE DEF k
      <3>4. outcome' \in Outcomes /\ outcome'.retries <= MaxRetries
        BY <3>1, <3>2, <3>3
      <3>7. TypeOK'
        BY <1>7, <2>1, <3>4 DEF Classify
      <3>5. (TimeInv /\ HandshakeInv /\ CancelInv /\ ReturnInv)'
        BY <1>7, <2>1 DEF Classify
      <3>6. DoneInv'
        BY <1>7, <2>1, <2>4, <3>1, <3>2, <3>3 DEF Classify
      <3> QED
        BY <3>5, <3>6, <3>7
    <2> QED
      BY <1>7, <2>2, <2>3, <2>4, <2>1
  <1>8. CASE Connect
    BY <1>8 DEF Connect
  <1>9. CASE AckA
    BY <1>9 DEF AckA, BeginStep, OpTimeout, Remaining, Expired
  <1>10. CASE AckB
    BY <1>10 DEF AckB, Return
  <1>11. CASE BadAnswer
    BY <1>11 DEF BadAnswer, Return
  <1>12. CASE Tick
    BY <1>12 DEF Tick
  <1>13. CASE SetCancel
    BY <1>13 DEF SetCancel
  <1>14. CASE DeliverBye
    BY <1>14 DEF DeliverBye
  <1>15. CASE StepTimeout
    BY <1>15, WireErrIInv DEF StepTimeout
  <1>16. CASE StepCanceled
    BY <1>16, WireErrIInv DEF StepCanceled
  <1>17. ASSUME NEW kind \in WireKind, StepError(kind) PROVE IInv'
    BY <1>17, WireErrIInv DEF StepError
  <1>18. CASE UNCHANGED vars
    BY <1>18 DEF vars
  <1> QED
    BY <1>1, <1>2, <1>3, <1>4, <1>5, <1>6, <1>7, <1>8, <1>9, <1>10, <1>11, <1>12,
       <1>13, <1>14, <1>15, <1>16, <1>17, <1>18
       DEF Next, Thread, Station, Finished

\* So it holds throughout every execution.
LEMMA SpecIInv == Spec => []IInv
  BY InitIInv, StepIInv, PTL DEF Spec

-----------------------------------------------------------------------------
\* Every variable keeps its type, for every choice of the constants; in
\* particular the attempt and the reported retries never exceed the quota.
THEOREM TypeCorrect == Spec => []TypeOK
  <1>1. IInv => TypeOK
    BY DEF IInv
  <1> QED
    BY <1>1, SpecIInv, PTL

\* One execution writes the opening frame at most once and nothing but the
\* end of the execution follows it (run_unlock_with_retry never retries unlock-B).
THEOREM AtMostOneOpenFrame == Spec => []OneOpenFrame
  <1>1. IInv => OneOpenFrame
    BY DEF IInv, TypeOK, HandshakeInv, OneOpenFrame, Network, Phases
  <1> QED
    BY <1>1, SpecIInv, PTL

\* After the shutdown flag is set at most one more frame is written.
THEOREM WireQuietAfterCancel == Spec => []QuietAfterCancel
  <1>1. IInv => QuietAfterCancel
    BY DEF IInv, CancelInv, QuietAfterCancel
  <1> QED
    BY <1>1, SpecIInv, PTL

\* An execution lasts at most the total cap and one backoff interval.
THEOREM BoundedDuration == Spec => []DurationBound
  <1>1. IInv => DurationBound
    BY DEF IInv, TimeInv, DurationBound
  <1> QED
    BY <1>1, SpecIInv, PTL

\* The normalised outcome of execute_unlock keeps its contract.
THEOREM OutcomeContract == Spec => []OutcomeNormalised
  <1>1. IInv => OutcomeNormalised
    BY DEF IInv, TypeOK, DoneInv, OutcomeNormalised, WireKind, None,
           ClassifyWireErr, OK, ERR, TIMEOUT, NO_RING
  <1> QED
    BY <1>1, SpecIInv, PTL

\* The four result codes are different from each other.
LEMMA CodesDiffer ==
    /\ OK # ERR /\ OK # TIMEOUT /\ OK # NO_RING
    /\ ERR # TIMEOUT /\ ERR # NO_RING /\ TIMEOUT # NO_RING
  BY DEF OK, ERR, TIMEOUT, NO_RING

\* What the three responders of control.rs put in the reply.
LEMMA BusinessReply ==
    ASSUME NEW code
    PROVE  /\ RespondBusinessResult(code).status = 200
           /\ RespondBusinessResult(code).code = code
           /\ RespondBusinessResult(code).push <=> code # OK
  BY DEF RespondBusinessResult

\* A FIN without a byte is reported as "nobody rang", with status 200.
LEMMA SilentReply == RespondWireFailure("SilentFin") = RespondBusinessResult(NO_RING)
  <1>1. ClassifyWireKind("SilentFin") = NO_RING
    BY DEF ClassifyWireKind, ClassifyWireErr, None
  <1> QED
    BY <1>1 DEF RespondWireFailure

\* Any other wire failure is a 503 and always pushed.
LEMMA FailureReply ==
    ASSUME NEW kind, ClassifyWireKind(kind) # NO_RING
    PROVE  /\ RespondWireFailure(kind).status = 503
           /\ RespondWireFailure(kind).code = ClassifyWireKind(kind)
           /\ RespondWireFailure(kind).push
  BY DEF RespondWireFailure

\* The HTTP reply of /unlock tells what happened at the door.
THEOREM HonestReply == Spec => []ReplyHonest
  <1>1. IInv => ReplyHonest
    <2> SUFFICES ASSUME IInv, phase = "done" PROVE ReplyHonest
      BY DEF ReplyHonest
    <2> DEFINE reply == RespondUnlockOutcome(outcome)
    <2>1. CASE outcome.result = OK /\ opened
      <3>1. reply = RespondBusinessResult(OK)
        BY <2>1 DEF RespondUnlockOutcome
      <3> QED
        BY <2>1, <3>1, BusinessReply, CodesDiffer DEF ReplyHonest
    <2>2. CASE /\ outcome.result = ERR /\ ~opened /\ outcome.wireKind = None
               /\ sent["A"] > 0
      <3>1. reply = RespondBusinessResult(ERR)
        BY <2>2, CodesDiffer DEF RespondUnlockOutcome
      <3> QED
        BY <2>2, <3>1, BusinessReply, CodesDiffer DEF ReplyHonest
    <2>3. CASE outcome.result = NO_RING /\ ~opened /\ outcome.terminatedByBye
      <3>1. reply = RespondBusinessResult(NO_RING)
        BY <2>3, SilentReply, CodesDiffer DEF RespondUnlockOutcome
      <3> QED
        BY <2>3, <3>1, BusinessReply, CodesDiffer DEF ReplyHonest
    <2>4. CASE /\ outcome.result = ClassifyWireErr(outcome.wireKind) /\ ~opened
               /\ outcome.wireKind \in WireKind /\ ~outcome.terminatedByBye
      <3>1. ClassifyWireErr(outcome.wireKind) # OK
        BY <2>4, CodesDiffer DEF ClassifyWireErr
      <3>2. outcome.wireKind # None
        BY <2>4 DEF WireKind, None
      <3>3. reply = RespondWireFailure(outcome.wireKind)
        BY <2>4, <3>1, <3>2 DEF RespondUnlockOutcome
      <3>4. CASE outcome.wireKind = "SilentFin"
        BY <2>4, <3>3, <3>4, SilentReply, BusinessReply, CodesDiffer DEF ReplyHonest
      <3>5. CASE outcome.wireKind # "SilentFin"
        <4>1. ClassifyWireKind(outcome.wireKind) # NO_RING
          BY <3>2, <3>5, CodesDiffer DEF ClassifyWireKind, ClassifyWireErr
        <4>2. ClassifyWireKind(outcome.wireKind) # OK
          BY <3>1, <3>2 DEF ClassifyWireKind
        <4> QED
          BY <2>4, <3>3, <4>1, <4>2, FailureReply DEF ReplyHonest
      <3> QED
        BY <3>4, <3>5
    <2>5. CASE /\ outcome.result = NO_RING /\ ~opened /\ outcome.wireKind = None
               /\ ~outcome.terminatedByBye /\ sent["A"] = 0 /\ sent["B"] = 0
      <3>1. ClassifyWireKind(None) = OK
        BY DEF ClassifyWireKind
      <3>2. reply = RespondWireFailure(None)
        BY <2>5, CodesDiffer DEF RespondUnlockOutcome
      <3> QED
        BY <2>5, <3>1, <3>2, FailureReply, CodesDiffer DEF ReplyHonest
    <2> QED
      BY <2>1, <2>2, <2>3, <2>4, <2>5 DEF IInv, DoneInv
  <1> QED
    BY <1>1, SpecIInv, PTL

-----------------------------------------------------------------------------
(* The ring path with its real timings.                                    *)

\* In units of 200ms: 8 retries, probes of 800ms, pauses of 200ms, a 10s cap.
RingTimings ==
    /\ MaxRetries = 8
    /\ OpCap = 4
    /\ RetryInterval = 1
    /\ TotalCap = 50

\* An attempt that ends in a backoff takes one probe and one pause; only the
\* last one can take a second probe.
RingInv ==
    /\ clock <= 48
    /\ phase \in {"start", "top"} => clock <= 5 * attempt
    /\ phase \in Network /\ stage = "A" => stepDeadline <= 5 * attempt + 4
    /\ phase \in Network /\ stage = "B" => stepDeadline <= 5 * attempt + 8
    /\ phase = "backoff" => sleepUntil <= 5 * attempt + 5

\* Every step of a ring's unlock keeps to this schedule.
LEMMA StepRingInv ==
  ASSUME RingTimings, IInv, RingInv, [Next]_vars
  PROVE  RingInv'
  <1> USE DEF RingTimings, IInv, TypeOK, TimeInv, HandshakeInv, RingInv, Network
  <1>1. OpTimeout \in Nat /\ OpTimeout <= 4
    BY UnlockAssumption DEF OpTimeout, Remaining, Expired
  <1>2. ASSUME phase \in Network, NEW kind, WireErr(kind)
        PROVE  RingInv'
    BY <1>2 DEF WireErr, Backoff, Return
  <1>3. CASE Subscribe \/ Connect \/ Write \/ SetCancel \/ DeliverBye \/ Classify
    BY <1>3 DEF Subscribe, Connect, Write, SetCancel, DeliverBye, Classify
  <1>4. CASE TopOfLoop
    BY <1>1, <1>4 DEF TopOfLoop, BeginStep, Return
  <1>5. CASE AckA
    BY <1>1, <1>5 DEF AckA, BeginStep
  <1>6. CASE AckB \/ BadAnswer
    BY <1>6 DEF AckB, BadAnswer, Return
  <1>7. CASE BackoffCanceled \/ BackoffBye
    BY <1>7 DEF BackoffCanceled, BackoffBye, Return
  <1>8. CASE BackoffElapsed
    BY <1>8 DEF BackoffElapsed
  <1>9. CASE Tick
    BY <1>9 DEF Tick
  <1>10. CASE StepTimeout \/ StepCanceled \/ \E kind \in WireKind : StepError(kind)
    BY <1>2, <1>10 DEF StepTimeout, StepCanceled, StepError
  <1>11. CASE UNCHANGED vars
    BY <1>11 DEF vars
  <1> QED
    BY <1>3, <1>4, <1>5, <1>6, <1>7, <1>8, <1>9, <1>10, <1>11
       DEF Next, Thread, Station, Finished

\* UNLOCK_TOTAL_CAP "covers the 9 attempts": on the ring path the retries are
\* used up before the cap, so no probe is cut short by it, none of its failures
\* is reported as a cap timeout, and it holds the worker for at most 9.6s.
THEOREM RingNeverCapped ==
  ASSUME RingTimings
  PROVE  Spec => [](~Expired /\ clock <= 48)
  <1>1. Init => RingInv
    BY DEF Init, RingInv, Network
  <1>2. IInv /\ RingInv /\ [Next]_vars => RingInv'
    BY StepRingInv
  <1>3. IInv /\ RingInv => ~Expired /\ clock <= 48
    BY DEF RingTimings, RingInv, Expired, IInv, TypeOK
  <1> QED
    BY <1>1, <1>2, <1>3, SpecIInv, PTL DEF Spec

-----------------------------------------------------------------------------
(* The automation flags.                                                   *)

\* The lock is held exactly by the handler between load and rename.
LockHeld == \A h \in Handlers : pc[h] \in Critical <=> lock = h

\* PersistedState tells the truth about the file.
LastIsFile == hasWrote => file = last

\* What is about to be renamed is what was loaded, and it is news.
TmpReady ==
    \A h \in Handlers :
        /\ pc[h] = "rename" => tmp = cur[h]
        /\ pc[h] \in {"writing", "rename"} /\ hasWrote => cur[h] # last

Loaded(h, f) ==
    \/ pc[h] \in {"loaded", "writing", "rename"}
    \/ pc[h] = "loading" /\ f = "auto_unlock"

\* A loaded flag is stale only if a handler that set it since waits for the lock.
Fresh ==
    \A h \in Handlers, f \in Flag : Loaded(h, f) =>
        \/ cur[h][f] = mem[f]
        \/ \E g \in Handlers : g # h /\ flag[g] = f /\ pc[g] = "stored"

FlagsInv == FlagsTypeOK /\ Durable /\ LockHeld /\ LastIsFile /\ TmpReady /\ Fresh

-----------------------------------------------------------------------------
\* What a restart reads is a pair of flags, and a whole file is read as it is.
LEMMA LoadState ==
    /\ \A x : Load(x) \in State
    /\ \A x \in State : Load(x) = x
  BY AutomationAssumption DEF Load

\* Initially nothing is pending and the flags are those of the file.
LEMMA FlagsStart == FlagsInit => FlagsInv
  <1> SUFFICES ASSUME FlagsInit PROVE FlagsInv
    OBVIOUS
  <1>1. FlagsTypeOK
    BY LoadState DEF FlagsInit, FlagsTypeOK, State, Flag
  <1>2. Durable
    BY DEF FlagsInit, Durable
  <1>3. LockHeld /\ LastIsFile /\ TmpReady /\ Fresh
    BY AutomationAssumption
    DEF FlagsInit, LockHeld, Critical, Pending, LastIsFile, TmpReady, Fresh, Loaded
  <1> QED BY <1>1, <1>2, <1>3 DEF FlagsInv

\* Storing a flag: the handler is pending for it from then on.
LEMMA StoreIInv ==
    ASSUME FlagsInv, NEW h \in Handlers, NEW f \in Flag, NEW on \in BOOLEAN,
           Store(h, f, on)
    PROVE  FlagsInv'
  <1> USE DEF FlagsInv
  <1>1. FlagsTypeOK'
    BY DEF Store, FlagsTypeOK, State, Pending
  <1>2. Durable'
    BY DEF Store, Durable, FlagsTypeOK, State, Pending
  <1>3. LockHeld' /\ LastIsFile' /\ TmpReady'
    BY DEF Store, LockHeld, LastIsFile, TmpReady, Critical, Pending, FlagsTypeOK
  <1>4. Fresh'
    BY DEF Store, Fresh, Loaded, FlagsTypeOK, State
  <1> QED BY <1>1, <1>2, <1>3, <1>4

\* Taking the lock: nobody else is past its store.
LEMMA AcquireIInv ==
    ASSUME FlagsInv, NEW h \in Handlers, Acquire(h)
    PROVE  FlagsInv'
  <1> USE DEF FlagsInv
  <1>1. FlagsTypeOK'
    BY DEF Acquire, FlagsTypeOK, Pending
  <1>2. Durable'
    BY DEF Acquire, Durable, FlagsTypeOK, Pending
  <1>3. LockHeld' /\ LastIsFile' /\ TmpReady'
    BY AutomationAssumption
    DEF Acquire, LockHeld, LastIsFile, TmpReady, Critical, Pending, FlagsTypeOK
  <1>4. Fresh'
    BY AutomationAssumption
    DEF Acquire, Fresh, Loaded, LockHeld, Critical, Pending, FlagsTypeOK
  <1> QED BY <1>1, <1>2, <1>3, <1>4

\* Loading the two flags, one after the other.
LEMMA LoadIInv ==
    ASSUME FlagsInv, NEW h \in Handlers, LoadUnlock(h) \/ LoadHangup(h)
    PROVE  FlagsInv'
  <1> USE DEF FlagsInv
  <1>1. FlagsTypeOK'
    <2>1. cur' \in [Handlers -> State]
      <3>1. \A f \in Flag : mem[f] \in BOOLEAN /\ [cur[h] EXCEPT ![f] = mem[f]] \in State
        BY DEF FlagsTypeOK, State
      <3>2. \E f \in Flag : cur' = [cur EXCEPT ![h] = [cur[h] EXCEPT ![f] = mem[f]]]
        BY DEF LoadUnlock, LoadHangup, Flag, FlagsTypeOK
      <3> QED BY <3>1, <3>2 DEF FlagsTypeOK
    <2>2. pc' \in [Handlers -> Pending \cup {"idle", "reply"}]
      BY DEF LoadUnlock, LoadHangup, FlagsTypeOK, Pending
    <2> QED BY <2>1, <2>2 DEF LoadUnlock, LoadHangup, FlagsTypeOK
  <1>2. Durable'
    BY DEF LoadUnlock, LoadHangup, Durable, FlagsTypeOK, Pending
  <1>3. LockHeld' /\ LastIsFile' /\ TmpReady'
    BY DEF LoadUnlock, LoadHangup, LockHeld, LastIsFile, TmpReady, Critical,
           Pending, FlagsTypeOK
  <1>4. Fresh'
    BY DEF LoadUnlock, LoadHangup, Fresh, Loaded, FlagsTypeOK, State, Flag
  <1> QED BY <1>1, <1>2, <1>3, <1>4

\* Writing the temporary file leaves everything a restart sees alone.
LEMMA WriteIInv ==
    ASSUME FlagsInv, NEW h \in Handlers, Truncate(h) \/ WriteTmp(h)
    PROVE  FlagsInv'
  <1> USE DEF FlagsInv
  <1>1. FlagsTypeOK'
    BY DEF Truncate, WriteTmp, FlagsTypeOK, Pending
  <1>2. Durable'
    BY DEF Truncate, WriteTmp, Durable, FlagsTypeOK, Pending
  <1>3. LockHeld' /\ LastIsFile'
    BY DEF Truncate, WriteTmp, LockHeld, LastIsFile, Critical, Pending, FlagsTypeOK
  <1>4. TmpReady'
    BY DEF Truncate, WriteTmp, TmpReady, LockHeld, Critical, Pending, FlagsTypeOK
  <1>5. Fresh'
    BY DEF Truncate, WriteTmp, Fresh, Loaded, FlagsTypeOK
  <1> QED BY <1>1, <1>2, <1>3, <1>4, <1>5

\* When the file holds what the lock's holder loaded, every flag is durable
\* or has a handler waiting for the lock.
LEMMA SavedDurable ==
    ASSUME FlagsInv, NEW h \in Handlers, NEW f \in Flag,
           pc[h] \in {"loaded", "rename"},
           pc' = [pc EXCEPT ![h] = "reply"], Load(file') = cur[h],
           mem' = mem, flag' = flag
    PROVE  \/ Load(file')[f] = mem'[f]
           \/ \E g \in Handlers : flag'[g] = f /\ pc'[g] \in Pending
  <1>1. \/ cur[h][f] = mem[f]
        \/ \E g \in Handlers : g # h /\ flag[g] = f /\ pc[g] = "stored"
    BY DEF FlagsInv, Fresh, Loaded
  <1>2. CASE cur[h][f] = mem[f]
    BY <1>2
  <1>3. CASE \E g \in Handlers : g # h /\ flag[g] = f /\ pc[g] = "stored"
    BY <1>3 DEF FlagsInv, FlagsTypeOK, Pending
  <1> QED BY <1>1, <1>2, <1>3

\* persist() ends with the value on disk, by the rename or because it was there.
LEMMA SaveIInv ==
    ASSUME FlagsInv, NEW h \in Handlers, Skip(h) \/ Rename(h)
    PROVE  FlagsInv'
  <1>1. FlagsTypeOK'
    <2>1. CASE Skip(h)
      BY <2>1 DEF FlagsInv, Skip, FlagsTypeOK
    <2>2. CASE Rename(h)
      <3>1. tmp = cur[h] /\ cur[h] \in State
        BY <2>2 DEF FlagsInv, Rename, FlagsTypeOK, TmpReady
      <3> QED BY <2>2, <3>1 DEF FlagsInv, Rename, FlagsTypeOK
    <2> QED BY <2>1, <2>2
  <1>2. /\ pc[h] \in {"loaded", "rename"}
        /\ pc' = [pc EXCEPT ![h] = "reply"]
        /\ mem' = mem /\ flag' = flag
    BY DEF Skip, Rename
  <1>3. Load(file') = cur[h]
    <2>1. file' = cur[h]
      BY DEF FlagsInv, Skip, Rename, LastIsFile, TmpReady
    <2>2. cur[h] \in State
      BY DEF FlagsInv, FlagsTypeOK
    <2> QED BY <2>1, <2>2, LoadState
  <1>4. Durable'
    <2>1. ASSUME NEW f \in Flag
          PROVE  \/ Load(file')[f] = mem'[f]
                 \/ \E g \in Handlers : flag'[g] = f /\ pc'[g] \in Pending
      BY <1>2, <1>3, SavedDurable
    <2> QED BY <2>1 DEF Durable
  <1>5. LockHeld' /\ LastIsFile'
    BY AutomationAssumption
    DEF FlagsInv, Skip, Rename, LockHeld, LastIsFile, TmpReady, Critical, Pending, FlagsTypeOK
  <1>6. TmpReady'
    BY DEF FlagsInv, Skip, Rename, TmpReady, LockHeld, Critical, Pending, FlagsTypeOK
  <1>7. Fresh'
    BY DEF FlagsInv, Skip, Rename, Fresh, Loaded, FlagsTypeOK
  <1> QED BY <1>1, <1>4, <1>5, <1>6, <1>7 DEF FlagsInv

\* persist() ends in an error: the handler's own flag may be lost, no other.
LEMMA FailIInv ==
    ASSUME FlagsInv, NEW h \in Handlers, WriteFails(h)
    PROVE  FlagsInv'
  <1> USE DEF FlagsInv
  <1>1. FlagsTypeOK'
    BY DEF WriteFails, FlagsTypeOK, Pending
  <1>2. Durable'
    BY DEF WriteFails, Durable, FlagsTypeOK, Pending
  <1>3. LockHeld' /\ LastIsFile'
    BY AutomationAssumption
    DEF WriteFails, LockHeld, LastIsFile, Critical, Pending, FlagsTypeOK
  <1>4. TmpReady'
    BY DEF WriteFails, TmpReady, LockHeld, Critical, Pending, FlagsTypeOK
  <1>5. Fresh'
    BY DEF WriteFails, Fresh, Loaded, FlagsTypeOK
  <1> QED BY <1>1, <1>2, <1>3, <1>4, <1>5

\* Answering the client changes nothing but the handler.
LEMMA ReplyIInv ==
    ASSUME FlagsInv, NEW h \in Handlers, Reply(h)
    PROVE  FlagsInv'
  <1> USE DEF FlagsInv
  <1>1. FlagsTypeOK' /\ Durable'
    BY DEF Reply, FlagsTypeOK, Durable, Pending
  <1>2. LockHeld' /\ LastIsFile' /\ TmpReady' /\ Fresh'
    BY DEF Reply, LockHeld, LastIsFile, TmpReady, Fresh, Loaded, Critical,
           Pending, FlagsTypeOK
  <1> QED BY <1>1, <1>2

\* A crash and restart: the flags are those of the file, nobody is pending.
LEMMA RestartIInv ==
    ASSUME FlagsInv, Restart
    PROVE  FlagsInv'
  <1>1. FlagsTypeOK'
    BY LoadState DEF FlagsInv, Restart, FlagsTypeOK, State, Flag
  <1>2. Durable'
    BY DEF Restart, Durable
  <1>3. LockHeld' /\ LastIsFile' /\ TmpReady' /\ Fresh'
    BY AutomationAssumption
    DEF Restart, LockHeld, Critical, Pending, LastIsFile, TmpReady, Fresh, Loaded
  <1> QED BY <1>1, <1>2, <1>3 DEF FlagsInv

\* The inductive invariant holds throughout.
THEOREM FlagsInvariant == FlagsSpec => []FlagsInv
  <1>1. FlagsInv /\ [FlagsNext]_flagVars => FlagsInv'
    <2> SUFFICES ASSUME FlagsInv, [FlagsNext]_flagVars PROVE FlagsInv'
      OBVIOUS
    <2>1. CASE \E h \in Handlers, f \in Flag, on \in BOOLEAN : Store(h, f, on)
      BY <2>1, StoreIInv
    <2>2. ASSUME NEW h \in Handlers, Persist(h) PROVE FlagsInv'
      BY <2>2, AcquireIInv, LoadIInv, WriteIInv, SaveIInv, FailIInv DEF Persist
    <2>3. CASE \E h \in Handlers : Reply(h)
      BY <2>3, ReplyIInv
    <2>4. CASE Restart
      BY <2>4, RestartIInv
    <2>5. CASE UNCHANGED flagVars
      BY <2>5 DEF flagVars, FlagsInv, FlagsTypeOK, Durable, LockHeld, LastIsFile, TmpReady,
                  Fresh, Loaded
    <2> QED BY <2>1, <2>2, <2>3, <2>4, <2>5 DEF FlagsNext
  <1> QED BY FlagsStart, <1>1, PTL DEF FlagsSpec

\* A crash at any point of the write leaves the state file whole or absent.
THEOREM FlagsTypeCorrect == FlagsSpec => []FlagsTypeOK
  <1>1. FlagsInv => FlagsTypeOK
    BY DEF FlagsInv
  <1> QED BY <1>1, FlagsInvariant, PTL

\* A restart gives back every flag whose toggle left persist() without an error.
THEOREM FlagsDurable == FlagsSpec => []Durable
  <1>1. FlagsInv => Durable
    BY DEF FlagsInv
  <1> QED BY <1>1, FlagsInvariant, PTL

\* The Persister's deduplication spares the flash.
THEOREM FlashSpared == FlagsSpec => []NoRedundantWrite
  <1>1. FlagsInv => NoRedundantWrite
    BY DEF FlagsInv, TmpReady, LastIsFile, NoRedundantWrite
  <1> QED BY <1>1, FlagsInvariant, PTL
=============================================================================
