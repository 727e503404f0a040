---------------------------- MODULE DaemonProofs ----------------------------
(***************************************************************************)
(* The threads of the daemon, for any number of clients, sniffers, push    *)
(* threads and rings.  Three groups of facts hold in every reachable state:*)
(* what each stage of the shutdown sequence has made sure of (Staged,      *)
(* Drained), who is responsible for a push that runs (Handles, Live), and  *)
(* where the requests are relative to the sentinel (Order, Submitted,      *)
(* Closing).  The last group carries the refinement of UnlockService.      *)
(***************************************************************************)
EXTENDS Daemon, TLAPS

\* What the main thread knows from the stages it has passed.
Staged ==
    /\ pc # "loop" => shutdown
    /\ pc \notin {"loop", "stopVideo", "joinListeners"} =>
           \A s \in Slaves : sniff[s] = "exited"
    /\ pc \notin {"loop", "stopVideo", "joinListeners", "joinConsumer"} =>
           consumer = "exited"

\* A handle that is not registered yet belongs to a thread that is about to.
Handles ==
    /\ \A c \in Clients : holds[c] # NoPush => conn[c] = "closing"
    /\ \A s \in Slaves18022 : holds[s] # NoPush => sniff[s] = "dispatch"
    /\ holds["consumer"] # NoPush => consumer = "after"

\* Every running push thread has a handle somewhere.
Live ==
    \A p \in Pushes : push[p] # "free" =>
        p \in tracked \cup taken \/ \E t \in Spawners : holds[t] = p

\* After a drain that did not time out, a handler that is still there holds at
\* most a push that has not begun, and that one sees the flag.
Drained ==
    /\ pc \notin {"joinPushes", "exited"} => taken = {}
    /\ pc \in {"joinHttp", "takePushes", "joinPushes", "exited"} /\ ~timedOut =>
           \A c \in Clients : holds[c] # NoPush => push[holds[c]] # "sending"
    /\ pc \in {"joinPushes", "exited"} /\ ~timedOut =>
           \A p \in Pushes : push[p] = "sending" => p \in taken
    /\ pc = "exited" => taken = {}

\* A request is in one place only.
Order ==
    /\ \A x \in Requesters \cup {"sentinel"} : ~Precedes(x, x)
    /\ job \in Requesters => ~Queued(job) /\ job \notin late
    /\ job = "none" <=> worker # "busy"

\* Whoever has a request under way waits for it, and has no answer yet.
Submitted ==
    /\ \A c \in Clients : job = c \/ Queued(c) => conn[c] = "waiting"
    /\ job = "consumer" \/ Queued("consumer") => consumer = "waiting"
    /\ \A r \in Requesters : job = r \/ Queued(r) => reply[r] = "none"
    /\ \A c \in Clients : c \in late => conn[c] \in {"waiting", "closing", "closed"}

\* Exactly the late requests are behind the sentinel, and nothing else is left
\* when the worker has taken it.
Closing ==
    /\ ~SentinelSent => late = {} /\ ~Queued("sentinel") /\ worker \in {"idle", "busy"}
    /\ worker \in {"stopping", "exited"} => ~Queued("sentinel")
    /\ worker = "exited" => queue = <<>>
    /\ SentinelSent /\ worker \in {"idle", "busy"} => Queued("sentinel")
    /\ \A r \in Requesters :
          Queued("sentinel") /\ Queued(r) => (r \in late <=> Precedes("sentinel", r))
    /\ worker = "stopping" => \A r \in Requesters : Queued(r) => r \in late

IInv == /\ TypeOK /\ Staged /\ Handles /\ Live /\ Drained
        /\ Order /\ Submitted /\ Closing /\ SelfUnlockNeverLate

-----------------------------------------------------------------------------
(* Types.                                                                  *)

Job == Requesters \cup {"hangup", "sentinel"}

\* A step of the main thread keeps the types.
LEMMA MainTypes ==
    ASSUME TypeOK, Main
    PROVE  TypeOK'
  <1> USE DEF TypeOK, workVars, httpVars, ringVars, pushVars
  <1>1. CASE MainObserve
    BY <1>1 DEF MainObserve
  <1>2. CASE StopVideo
    BY <1>2 DEF StopVideo
  <1>3. CASE JoinListeners
    BY <1>3 DEF JoinListeners
  <1>4. CASE JoinConsumer
    BY <1>4 DEF JoinConsumer
  <1>5. CASE JoinWorker
    <2>1. pc' = "closeHttp" /\ UNCHANGED <<signal, shutdown>>
      BY <1>5 DEF JoinWorker
    <2>2. UNCHANGED <<workVars, httpVars, ringVars, pushVars>>
      BY <1>5 DEF JoinWorker
    <2> QED
      BY <2>1, <2>2
  <1>6. CASE CloseHttp
    <2>1. pc' = "drainHttp" /\ closing' \in BOOLEAN /\ accepting' \in BOOLEAN
      BY <1>6 DEF CloseHttp
    <2>2. UNCHANGED <<signal, shutdown, workVars, ringVars, pushVars, conn, http, timedOut>>
      BY <1>6 DEF CloseHttp
    <2> QED
      BY <2>1, <2>2
  <1>7. CASE DrainHttp
    BY <1>7 DEF DrainHttp
  <1>8. CASE DrainTimeout
    BY <1>8 DEF DrainTimeout
  <1>9. CASE JoinHttp
    BY <1>9 DEF JoinHttp
  <1>10. CASE TakePushes
    BY <1>10 DEF TakePushes
  <1>11. CASE JoinPushes
    BY <1>11 DEF JoinPushes
  <1>12. CASE SendSentinel
    <2>1. queue' \in Seq(Job)
      BY <1>12 DEF SendSentinel, Job
    <2> QED
      BY <1>12, <2>1 DEF SendSentinel, Job
  <1> QED
    BY <1>1, <1>2, <1>3, <1>4, <1>5, <1>6, <1>7, <1>8, <1>9, <1>10, <1>11, <1>12 DEF Main

\* The request is appended or refused at once.
LEMMA SubmitTypes ==
    ASSUME TypeOK, NEW r \in Requesters, SubmitUnlock(r)
    PROVE  /\ queue' \in Seq(Job)
           /\ reply' \in [Requesters -> Outcome \cup {"none"}]
           /\ late' \subseteq Requesters
  <1>1. queue \in Seq(Job) /\ r \in Job
    BY DEF TypeOK, Job
  <1>2. queue' = Append(queue, r) \/ queue' = queue
    BY DEF SubmitUnlock
  <1>3. queue' \in Seq(Job)
    BY <1>1, <1>2
  <1>4. reply' \in [Requesters -> Outcome \cup {"none"}]
    BY DEF SubmitUnlock, TypeOK, Outcome
  <1> QED
    BY <1>3, <1>4 DEF SubmitUnlock, TypeOK

\* A step of the worker keeps the types.
LEMMA WorkerTypes ==
    ASSUME TypeOK, Worker
    PROVE  TypeOK'
  <1> USE DEF TypeOK, mainVars, httpVars, ringVars, pushVars
  <1>1. CASE WorkerTake
    <2>1. queue \in Seq(Job) /\ queue # <<>>
      BY <1>1 DEF WorkerTake, Job
    <2>2. Head(queue) \in Job /\ Tail(queue) \in Seq(Job)
      BY <2>1
    <2>3. job' \in Requesters \cup {"hangup", "none"}
      BY <1>1, <2>2 DEF WorkerTake, Job
    <2>4. queue' \in Seq(Job) /\ worker' \in {"busy", "stopping"} /\ lateStart' \in BOOLEAN
      BY <1>1, <2>2 DEF WorkerTake
    <2> QED
      BY <1>1, <2>3, <2>4 DEF WorkerTake, Job
  <1>2. CASE WorkerFinish
    <2>1. reply' \in [Requesters -> Outcome \cup {"none"}]
      BY <1>2 DEF WorkerFinish, ExecuteUnlock, Outcome
    <2>2. /\ worker' = "idle" /\ job' = "none" /\ lateStart' \in BOOLEAN
          /\ UNCHANGED <<mainVars, httpVars, ringVars, pushVars, queue, late>>
      BY <1>2 DEF WorkerFinish
    <2> QED
      BY <2>1, <2>2
  <1>3. CASE WorkerExit
    <2>1. reply' \in [Requesters -> Outcome \cup {"none"}]
      BY <1>3 DEF WorkerExit, Outcome
    <2> QED
      BY <1>3, <2>1 DEF WorkerExit
  <1> QED
    BY <1>1, <1>2, <1>3 DEF Worker

\* Spawning and registering keep the types of the push threads and handles.
LEMMA SpawnTypes ==
    ASSUME TypeOK, NEW t \in Spawners, SpawnPush(t)
    PROVE  /\ push' \in [Pushes -> {"free", "spawned", "sending"}]
           /\ holds' \in [Spawners -> Pushes \cup {NoPush}]
  BY DEF TypeOK, SpawnPush, FreePushes

LEMMA RegisterTypes ==
    ASSUME TypeOK, NEW t \in Spawners, Register(t)
    PROVE  /\ holds' \in [Spawners -> Pushes \cup {NoPush}]
           /\ tracked' \subseteq Pushes
  BY DEF TypeOK, Register

\* A step of a push thread keeps the types.
LEMMA PushTypes ==
    ASSUME TypeOK, NEW p \in Pushes, Push(p)
    PROVE  TypeOK'
  <1> USE DEF TypeOK, mainVars, workVars, httpVars, ringVars
  <1>1. CASE PushBegin(p)
    BY <1>1 DEF PushBegin
  <1>2. CASE PushEnd(p)
    BY <1>2 DEF PushEnd
  <1> QED
    BY <1>1, <1>2 DEF Push

\* A step of a connection keeps the types.
LEMMA ConnTypes ==
    ASSUME TypeOK, NEW c \in Clients,
           Accept(c) \/ ClientGone(c) \/ Dispatch(c) \/ Handler(c)
    PROVE  TypeOK'
  <1>0. c \in Requesters /\ c \in Spawners
    BY DEF Requesters, Spawners
  <1> USE DEF TypeOK, mainVars, ringVars
  <1>1. CASE Accept(c)
    BY <1>1 DEF Accept, workVars, pushVars
  <1>2. CASE ClientGone(c)
    BY <1>2 DEF ClientGone, workVars, pushVars
  <1>3. CASE Dispatch(c)
    BY <1>0, <1>3, SubmitTypes DEF Dispatch, pushVars, Job
  <1>4. CASE CountConn(c)
    BY <1>4 DEF CountConn, workVars, pushVars
  <1>5. CASE Answer(c)
    <2>1. /\ push' \in [Pushes -> {"free", "spawned", "sending"}]
          /\ holds' \in [Spawners -> Pushes \cup {NoPush}]
      BY <1>0, <1>5, SpawnTypes DEF Answer
    <2> QED
      BY <1>5, <2>1 DEF Answer, workVars
  <1>6. CASE CloseConn(c)
    BY <1>0, <1>6, RegisterTypes DEF CloseConn, workVars
  <1> QED
    BY <1>1, <1>2, <1>3, <1>4, <1>5, <1>6 DEF Handler

\* A step of a sniffer keeps the types.
LEMMA SlaveTypes ==
    ASSUME TypeOK, NEW s \in Slaves,
           Slave(s) \/ SlaveFail(s) \/ (s \in Slaves18022 /\ SlaveRing(s))
    PROVE  TypeOK'
  <1> USE DaemonAssumption DEF TypeOK, workVars, httpVars
  <1>1. CASE SlaveCheck(s)
    BY <1>1 DEF SlaveCheck, mainVars, pushVars
  <1>2. CASE SlaveWake(s)
    BY <1>2 DEF SlaveWake, mainVars, pushVars
  <1>3. CASE s \in Slaves18022 /\ SlaveDispatch(s)
    <2>1. holds' \in [Spawners -> Pushes \cup {NoPush}] /\ tracked' \subseteq Pushes
      BY <1>3, RegisterTypes DEF SlaveDispatch, Spawners
    <2>2. ringQ' \in 0..RingCap
      BY <1>3 DEF SlaveDispatch
    <2> QED
      BY <1>3, <2>1, <2>2 DEF SlaveDispatch, mainVars
  <1>4. CASE SlaveFail(s)
    BY <1>4 DEF SlaveFail, pushVars
  <1>5. CASE s \in Slaves18022 /\ SlaveRing(s)
    <2>1. /\ push' \in [Pushes -> {"free", "spawned", "sending"}]
          /\ holds' \in [Spawners -> Pushes \cup {NoPush}]
      BY <1>5, SpawnTypes DEF SlaveRing, Spawners
    <2>2. rings' \in 0..MaxRings
      BY <1>5 DEF SlaveRing
    <2> QED
      BY <1>5, <2>1, <2>2 DEF SlaveRing, mainVars
  <1> QED
    BY <1>1, <1>2, <1>3, <1>4, <1>5 DEF Slave

\* A step of the consumer or of a timer keeps the types.
LEMMA ConsumerTypes ==
    ASSUME TypeOK, Consumer \/ Timer
    PROVE  TypeOK'
  <1>0. "consumer" \in Requesters /\ "consumer" \in Spawners
    BY DEF Requesters, Spawners
  <1> USE DaemonAssumption DEF TypeOK, mainVars, httpVars
  <1>1. CASE ConsumerSkip
    <2>1. ringQ' \in 0..RingCap
      BY <1>1 DEF ConsumerSkip
    <2> QED
      BY <1>1, <2>1 DEF ConsumerSkip, workVars, pushVars
  <1>2. CASE ConsumerTrigger
    <2>1. ringQ' \in 0..RingCap
      BY <1>2 DEF ConsumerTrigger
    <2> QED
      BY <1>0, <1>2, <2>1, SubmitTypes DEF ConsumerTrigger, pushVars, Job
  <1>3. CASE ConsumerReply
    <2>1. /\ push' \in [Pushes -> {"free", "spawned", "sending"}]
          /\ holds' \in [Spawners -> Pushes \cup {NoPush}]
      BY <1>0, <1>3, SpawnTypes DEF ConsumerReply
    <2> QED
      BY <1>3, <2>1 DEF ConsumerReply, workVars
  <1>4. CASE ConsumerAfter
    <2>1. holds' \in [Spawners -> Pushes \cup {NoPush}] /\ tracked' \subseteq Pushes
      BY <1>0, <1>4, RegisterTypes DEF ConsumerAfter
    <2>2. timers' \in [waiting : Nat, due : Nat]
      BY <1>4 DEF ConsumerAfter
    <2> QED
      BY <1>4, <2>1, <2>2 DEF ConsumerAfter, workVars
  <1>5. CASE ConsumerStop
    BY <1>5 DEF ConsumerStop, workVars, pushVars
  <1>6. CASE TimerCheck
    <2>1. timers' \in [waiting : Nat, due : Nat]
      BY <1>6 DEF TimerCheck
    <2> QED
      BY <1>6, <2>1 DEF TimerCheck, workVars, pushVars
  <1>7. CASE TimerSubmit
    <2>1. timers' \in [waiting : Nat, due : Nat]
      BY <1>7 DEF TimerSubmit
    <2>2. queue' \in Seq(Job)
      BY <1>7 DEF TimerSubmit, Job
    <2> QED
      BY <1>7, <2>1, <2>2 DEF TimerSubmit, pushVars, Job
  <1> QED
    BY <1>1, <1>2, <1>3, <1>4, <1>5, <1>6, <1>7 DEF Consumer, Timer

\* Every step keeps the types.
LEMMA Types == TypeOK /\ [Next]_vars => TypeOK'
  <1> SUFFICES ASSUME TypeOK, [Next]_vars PROVE TypeOK'
    OBVIOUS
  <1>1. CASE Signal
    BY <1>1 DEF Signal, TypeOK, workVars, httpVars, ringVars, pushVars
  <1>2. CASE Bind
    <2>1. http' \in {"serving", "exited"} /\ accepting' \in BOOLEAN
      BY <1>2 DEF Bind, TypeOK
    <2> QED
      BY <1>2, <2>1 DEF Bind, TypeOK, mainVars, workVars, ringVars, pushVars
  <1>3. CASE ServeReturn
    BY <1>3 DEF ServeReturn, TypeOK, mainVars, workVars, ringVars, pushVars
  <1>4. CASE UNCHANGED vars
    BY <1>4 DEF vars, TypeOK
  <1>5. ASSUME NEW s \in Slaves18022, SlaveRing(s) PROVE TypeOK'
    BY <1>5, SlaveTypes DEF Slaves
  <1> QED
    BY <1>1, <1>2, <1>3, <1>4, <1>5, MainTypes, WorkerTypes, PushTypes, ConnTypes,
       SlaveTypes, ConsumerTypes DEF Next, Exited

-----------------------------------------------------------------------------
(* The shutdown sequence and the pushes.                                   *)

LEMMA InitIInv == Init => IInv
  <1> SUFFICES ASSUME Init PROVE IInv
    OBVIOUS
  <1> USE DaemonAssumption DEF Init
  <1>1. TypeOK
    <2>1. push \in [Pushes -> {"free", "spawned", "sending"}] /\ tracked \subseteq Pushes
      BY DEF StartupPushes
    <2>2. reply \in [Requesters -> Outcome \cup {"none"}] /\ holds \in [Spawners -> Pushes \cup {NoPush}]
      OBVIOUS
    <2>3. rings \in 0..MaxRings /\ ringQ \in 0..RingCap /\ timers \in [waiting : Nat, due : Nat]
      OBVIOUS
    <2>4. {signal, shutdown, lateStart, accepting, closing, timedOut} \subseteq BOOLEAN
      OBVIOUS
    <2>5. /\ queue \in Seq(Requesters \cup {"hangup", "sentinel"})
          /\ conn \in [Clients -> {"out", "accepted", "reading", "waiting", "closing", "closed"}]
          /\ sniff \in [Slaves -> {"check", "recv", "dispatch", "exited"}]
      OBVIOUS
    <2>6. /\ pc = "loop" /\ worker = "idle" /\ job = "none" /\ http = "binding"
          /\ consumer = "recv" /\ taken = {} /\ late = {}
      OBVIOUS
    <2> HIDE DEF Init
    <2> QED
      BY <2>1, <2>2, <2>3, <2>4, <2>5, <2>6 DEF TypeOK
  <1>2. Staged /\ Drained /\ SelfUnlockNeverLate
    BY DEF Staged, Drained, SelfUnlockNeverLate, Spawners, Requesters
  <1>3. Handles /\ Live
    BY DEF Handles, Live, StartupPushes, Spawners, Requesters
  <1>4. Order /\ Submitted /\ Closing
    BY DEF Order, Submitted, Closing, Queued, Precedes, SentinelSent, Requesters
  <1> QED
    BY <1>1, <1>2, <1>3, <1>4 DEF IInv

\* A thread that has ended stays so.
LEMMA StagedKept == TypeOK /\ Staged /\ [Next]_vars => Staged'
  <1> SUFFICES ASSUME TypeOK, Staged, [Next]_vars PROVE Staged'
    OBVIOUS
  <1> USE DEF Staged
  <1>1. CASE MainObserve
    BY <1>1 DEF MainObserve, ringVars
  <1>2. CASE StopVideo \/ JoinListeners \/ JoinConsumer \/ SendSentinel
    BY <1>2 DEF StopVideo, JoinListeners, JoinConsumer, SendSentinel, ringVars
  <1>3. CASE JoinWorker \/ CloseHttp \/ DrainHttp \/ DrainTimeout \/ JoinHttp
    BY <1>3 DEF JoinWorker, CloseHttp, DrainHttp, DrainTimeout, JoinHttp, ringVars
  <1>4. CASE TakePushes \/ JoinPushes
    BY <1>4 DEF TakePushes, JoinPushes, ringVars
  <1>5. ASSUME NEW s \in Slaves,
               Slave(s) \/ SlaveFail(s) \/ (s \in Slaves18022 /\ SlaveRing(s))
        PROVE  Staged'
    <2>1. /\ sniff[s] # "exited" /\ UNCHANGED <<pc, consumer>>
          /\ shutdown => shutdown'
      BY <1>5 DEF Slave, SlaveCheck, SlaveWake, SlaveDispatch, SlaveFail, SlaveRing, mainVars
    <2> QED
      BY <2>1
  <1>6. CASE Consumer
    <2>1. consumer # "exited" /\ UNCHANGED <<pc, shutdown, sniff>>
      BY <1>6 DEF Consumer, ConsumerSkip, ConsumerTrigger, ConsumerReply, ConsumerAfter,
         ConsumerStop, mainVars
    <2> QED
      BY <2>1
  <1>7. CASE UNCHANGED <<pc, shutdown, sniff, consumer>>
    BY <1>7
  <1>8. CASE Worker \/ Timer \/ Bind \/ ServeReturn \/ Signal
    BY <1>8, <1>7 DEF Worker, WorkerTake, WorkerFinish, WorkerExit, Timer, TimerCheck,
       TimerSubmit, Bind, ServeReturn, Signal, mainVars, ringVars
  <1>9. ASSUME NEW c \in Clients, Accept(c) \/ ClientGone(c) \/ Dispatch(c) \/ Handler(c)
        PROVE  Staged'
    BY <1>9, <1>7 DEF Accept, ClientGone, Dispatch, Handler, CountConn, Answer, CloseConn,
       mainVars, ringVars
  <1>10. ASSUME NEW p \in Pushes, Push(p) PROVE Staged'
    BY <1>10, <1>7 DEF Push, PushBegin, PushEnd, mainVars, ringVars
  <1> QED
    BY <1>1, <1>2, <1>3, <1>4, <1>5, <1>6, <1>7, <1>8, <1>9, <1>10
       DEF Next, Main, Exited, vars, Slaves

\* A handle is registered before its thread goes on.
LEMMA HandlesKept == TypeOK /\ Handles /\ [Next]_vars => Handles'
  <1> SUFFICES ASSUME TypeOK, Handles, [Next]_vars PROVE Handles'
    OBVIOUS
  <1>0. /\ "consumer" \notin Clients \cup Slaves /\ Clients \cap Slaves = {}
        /\ DOMAIN holds = Spawners /\ DOMAIN conn = Clients /\ DOMAIN sniff = Slaves
        /\ Clients \subseteq Spawners /\ Slaves18022 \subseteq Spawners
        /\ "consumer" \in Spawners /\ Slaves18022 \subseteq Slaves
    BY DaemonAssumption DEF TypeOK, Spawners, Requesters, Slaves
  <1> USE <1>0 DEF Handles
  <1>1. ASSUME NEW t \in Spawners, SpawnPush(t)
        PROVE  \A u \in Spawners : u # t => holds'[u] = holds[u]
    BY <1>1 DEF SpawnPush
  <1>2. ASSUME NEW t \in Spawners, Register(t)
        PROVE  holds'[t] = NoPush /\ \A u \in Spawners : u # t => holds'[u] = holds[u]
    BY <1>2 DEF Register
  <1>3. ASSUME NEW c \in Clients, Accept(c) \/ CountConn(c) \/ ClientGone(c) \/ Dispatch(c)
        PROVE  Handles'
    BY <1>3 DEF Accept, CountConn, ClientGone, Dispatch, ringVars, pushVars
  <1>4. ASSUME NEW c \in Clients, Answer(c) PROVE Handles'
    BY <1>1, <1>4 DEF Answer, ringVars
  <1>5. ASSUME NEW c \in Clients, CloseConn(c) PROVE Handles'
    BY <1>2, <1>5 DEF CloseConn, ringVars
  <1>6. ASSUME NEW s \in Slaves, SlaveCheck(s) \/ SlaveWake(s) \/ SlaveFail(s) PROVE Handles'
    BY <1>6 DEF SlaveCheck, SlaveWake, SlaveFail, httpVars, pushVars
  <1>7. ASSUME NEW s \in Slaves18022, SlaveRing(s) PROVE Handles'
    BY <1>1, <1>7 DEF SlaveRing, httpVars
  <1>8. ASSUME NEW s \in Slaves18022, SlaveDispatch(s) PROVE Handles'
    BY <1>2, <1>8 DEF SlaveDispatch, httpVars
  <1>9. CASE ConsumerSkip \/ ConsumerTrigger \/ ConsumerStop
    BY <1>9 DEF ConsumerSkip, ConsumerTrigger, ConsumerStop, httpVars, pushVars
  <1>10. CASE ConsumerReply
    BY <1>1, <1>10 DEF ConsumerReply, httpVars
  <1>11. CASE ConsumerAfter
    BY <1>2, <1>11 DEF ConsumerAfter, httpVars
  <1>12. CASE UNCHANGED <<holds, conn, sniff, consumer>>
    BY <1>12
  <1>13. CASE Main \/ Signal
    BY <1>12, <1>13 DEF Main, MainObserve, StopVideo, JoinListeners, JoinConsumer,
       SendSentinel, JoinWorker, CloseHttp, DrainHttp, DrainTimeout, JoinHttp, TakePushes,
       JoinPushes, Signal, httpVars, ringVars, pushVars
  <1>14. CASE Worker \/ Timer \/ Bind \/ ServeReturn
    BY <1>12, <1>14 DEF Worker, WorkerTake, WorkerFinish, WorkerExit, Timer, TimerCheck,
       TimerSubmit, Bind, ServeReturn, httpVars, ringVars, pushVars
  <1>15. ASSUME NEW p \in Pushes, Push(p) PROVE Handles'
    BY <1>12, <1>15 DEF Push, PushBegin, PushEnd, httpVars, ringVars
  <1> QED
    BY <1>3, <1>4, <1>5, <1>6, <1>7, <1>8, <1>9, <1>10, <1>11, <1>12, <1>13, <1>14, <1>15
       DEF Next, Exited, vars, Handler, Slave, Consumer

\* A push thread that runs keeps a handle somewhere until it ends.
LEMMA LiveKept == TypeOK /\ Handles /\ Live /\ Drained /\ [Next]_vars => Live'
  <1> SUFFICES ASSUME TypeOK, Handles, Live, Drained, [Next]_vars PROVE Live'
    OBVIOUS
  <1>0. /\ "consumer" \in Spawners /\ Clients \subseteq Spawners /\ Slaves18022 \subseteq Spawners
        /\ DOMAIN holds = Spawners /\ DOMAIN push = Pushes /\ NoPush \notin Pushes
        /\ \A t \in Spawners : holds[t] = NoPush \/ holds[t] \in Pushes
    BY DaemonAssumption DEF TypeOK, Spawners, Requesters
  <1> USE <1>0 DEF Live
  <1>1. ASSUME NEW t \in Spawners, holds[t] = NoPush, SpawnPush(t), UNCHANGED <<tracked, taken>>
        PROVE  Live'
    <2>1. CASE UNCHANGED <<push, holds>>
      BY <1>1, <2>1
    <2>2. ASSUME NEW n \in FreePushes, push' = [push EXCEPT ![n] = "spawned"],
                 holds' = [holds EXCEPT ![t] = n]
          PROVE  Live'
      <3> SUFFICES ASSUME NEW p \in Pushes, push'[p] # "free"
                   PROVE  p \in tracked' \cup taken' \/ \E u \in Spawners : holds'[u] = p
        OBVIOUS
      <3>1. CASE p = n
        BY <2>2, <3>1
      <3>2. CASE p # n
        <4>1. push[p] # "free"
          BY <2>2, <3>2
        <4>2. \A u \in Spawners : holds[u] = p => holds'[u] = p
          BY <1>1, <2>2
        <4> QED
          BY <1>1, <4>1, <4>2
      <3> QED
        BY <3>1, <3>2
    <2> QED
      BY <1>1, <2>1, <2>2 DEF SpawnPush
  <1>2. ASSUME NEW t \in Spawners, Register(t), UNCHANGED <<push, taken>>
        PROVE  Live'
    <2> SUFFICES ASSUME NEW p \in Pushes, push[p] # "free"
                 PROVE  p \in tracked' \cup taken' \/ \E u \in Spawners : holds'[u] = p
      BY <1>2
    <2>1. tracked \subseteq tracked' /\ (holds[t] = p => p \in tracked')
      BY <1>2 DEF Register
    <2>2. \A u \in Spawners : u # t => holds'[u] = holds[u]
      BY <1>2 DEF Register
    <2> QED
      BY <1>2, <2>1, <2>2
  <1>3. ASSUME NEW c \in Clients, Answer(c) PROVE Live'
    <2>1. holds[c] = NoPush
      BY <1>3 DEF Answer, Handles
    <2>2. CASE UNCHANGED <<push, holds>>
      BY <1>3, <2>2 DEF Answer
    <2>3. CASE SpawnPush(c)
      BY <1>1, <1>3, <2>1, <2>3 DEF Answer
    <2> QED
      BY <1>3, <2>2, <2>3 DEF Answer
  <1>4. ASSUME NEW c \in Clients, CloseConn(c) PROVE Live'
    BY <1>2, <1>4 DEF CloseConn
  <1>5. ASSUME NEW s \in Slaves18022, SlaveRing(s) PROVE Live'
    <2>1. holds[s] = NoPush
      BY <1>5 DEF SlaveRing, Handles
    <2> QED
      BY <1>1, <1>5, <2>1 DEF SlaveRing
  <1>6. ASSUME NEW s \in Slaves18022, SlaveDispatch(s) PROVE Live'
    BY <1>2, <1>6 DEF SlaveDispatch
  <1>7. CASE ConsumerReply
    <2>1. holds["consumer"] = NoPush
      BY <1>7 DEF ConsumerReply, Handles
    <2>2. CASE UNCHANGED <<push, holds>>
      BY <1>7, <2>2 DEF ConsumerReply
    <2>3. CASE SpawnPush("consumer")
      BY <1>1, <1>7, <2>1, <2>3 DEF ConsumerReply
    <2> QED
      BY <1>7, <2>2, <2>3 DEF ConsumerReply
  <1>8. CASE ConsumerAfter
    BY <1>2, <1>8 DEF ConsumerAfter
  <1>9. ASSUME NEW p \in Pushes, PushBegin(p) PROVE Live'
    BY <1>9 DEF PushBegin
  <1>10. ASSUME NEW p \in Pushes, PushEnd(p) PROVE Live'
    BY <1>10 DEF PushEnd
  <1>11. CASE TakePushes
    <2>1. UNCHANGED <<push, holds>> /\ taken' = tracked /\ tracked' = {} /\ taken = {}
      BY <1>11 DEF TakePushes, Drained
    <2> QED
      BY <2>1
  <1>12. CASE UNCHANGED pushVars
    BY <1>12 DEF pushVars
  <1>13. CASE Main \/ Signal
    BY <1>11, <1>12, <1>13 DEF Main, MainObserve, StopVideo, JoinListeners, JoinConsumer,
       SendSentinel, JoinWorker, CloseHttp, DrainHttp, DrainTimeout, JoinHttp, JoinPushes, Signal
  <1>14. CASE Worker \/ Timer \/ Bind \/ ServeReturn
    BY <1>12, <1>14 DEF Worker, WorkerTake, WorkerFinish, WorkerExit, Timer, TimerCheck,
       TimerSubmit, Bind, ServeReturn
  <1>15. ASSUME NEW c \in Clients, Accept(c) \/ CountConn(c) \/ ClientGone(c) \/ Dispatch(c)
         PROVE  Live'
    BY <1>12, <1>15 DEF Accept, CountConn, ClientGone, Dispatch
  <1>16. ASSUME NEW s \in Slaves, SlaveCheck(s) \/ SlaveWake(s) \/ SlaveFail(s) PROVE Live'
    BY <1>12, <1>16 DEF SlaveCheck, SlaveWake, SlaveFail
  <1>17. CASE ConsumerSkip \/ ConsumerTrigger \/ ConsumerStop
    BY <1>12, <1>17 DEF ConsumerSkip, ConsumerTrigger, ConsumerStop
  <1>18. CASE UNCHANGED vars
    BY <1>12, <1>18 DEF vars, pushVars
  <1> QED
    BY <1>3, <1>4, <1>5, <1>6, <1>7, <1>8, <1>9, <1>10, <1>13, <1>14, <1>15, <1>16, <1>17,
       <1>18 DEF Next, Exited, Handler, Slave, Consumer, Push

\* The stages after the drain leave no push that is being sent without somebody
\* who waits for it.
LEMMA DrainedKept ==
    TypeOK /\ Staged /\ Handles /\ Live /\ Drained /\ [Next]_vars => Drained'
  <1> SUFFICES ASSUME TypeOK, Staged, Handles, Live, Drained, [Next]_vars PROVE Drained'
    OBVIOUS
  <1>0. /\ "consumer" \notin Clients \cup Slaves /\ Clients \cap Slaves = {}
        /\ "consumer" \in Spawners /\ Clients \subseteq Spawners /\ Slaves18022 \subseteq Spawners
        /\ DOMAIN holds = Spawners /\ DOMAIN push = Pushes /\ NoPush \notin Pushes
        /\ \A t \in Spawners : holds[t] = NoPush \/ holds[t] \in Pushes
        /\ Slaves18022 \subseteq Slaves /\ Spawners = Clients \cup {"consumer"} \cup Slaves18022
    BY DaemonAssumption DEF TypeOK, Spawners, Requesters, Slaves
  <1> USE <1>0
  \* Only a push thread that finds the flag unset begins to send.
  <1>1. ASSUME NEW t \in Spawners, SpawnPush(t)
        PROVE  /\ \A p \in Pushes : push'[p] = "sending" <=> push[p] = "sending"
               /\ \A u \in Spawners : \/ holds'[u] = holds[u]
                                      \/ holds'[u] \in Pushes /\ push'[holds'[u]] = "spawned"
    BY <1>1 DEF SpawnPush, FreePushes
  <1>2. ASSUME NEW t \in Spawners, SpawnPush(t), UNCHANGED <<pc, timedOut, taken>>
        PROVE  Drained'
    <2>1. /\ \A p \in Pushes : push'[p] = "sending" <=> push[p] = "sending"
          /\ \A u \in Spawners : \/ holds'[u] = holds[u]
                                 \/ holds'[u] \in Pushes /\ push'[holds'[u]] = "spawned"
      BY <1>1, <1>2
    <2> QED
      BY <1>2, <2>1 DEF Drained
  <1>3. ASSUME NEW t \in Spawners, Register(t), UNCHANGED <<pc, timedOut, taken, push>>
        PROVE  Drained'
    <2>1. \A u \in Spawners : holds'[u] \in {holds[u], NoPush}
      BY <1>3 DEF Register
    <2> QED
      BY <1>3, <2>1 DEF Drained
  <1>4. CASE UNCHANGED <<pc, timedOut, taken, push, holds>>
    BY <1>4 DEF Drained
  <1>5. ASSUME NEW p \in Pushes, PushBegin(p) PROVE Drained'
    <2>1. /\ UNCHANGED <<pc, timedOut, holds>>
          /\ shutdown => push' = [push EXCEPT ![p] = "free"] /\ taken' = taken \ {p}
          /\ ~shutdown => taken' = taken
      BY <1>5 DEF PushBegin, mainVars, httpVars
    <2>2. CASE shutdown
      BY <2>1, <2>2 DEF Drained
    <2>3. CASE ~shutdown
      BY <2>1, <2>3 DEF Drained, Staged
    <2> QED
      BY <2>2, <2>3
  <1>6. ASSUME NEW p \in Pushes, PushEnd(p) PROVE Drained'
    <2>1. /\ UNCHANGED <<pc, timedOut, holds>>
          /\ push' = [push EXCEPT ![p] = "free"] /\ taken' = taken \ {p}
      BY <1>6 DEF PushEnd, mainVars, httpVars
    <2> QED
      BY <2>1 DEF Drained
  <1>7. CASE MainObserve \/ StopVideo \/ JoinListeners \/ JoinConsumer \/ SendSentinel
             \/ JoinWorker \/ CloseHttp
    BY <1>7 DEF MainObserve, StopVideo, JoinListeners, JoinConsumer, SendSentinel, JoinWorker,
       CloseHttp, pushVars, httpVars, Drained
  <1>8. CASE DrainHttp
    <2>1. \A c \in Clients : holds[c] = NoPush
      BY <1>8 DEF DrainHttp, ActiveConns, Handles
    <2> QED
      BY <1>8, <2>1 DEF DrainHttp, Drained, pushVars, httpVars
  <1>9. CASE DrainTimeout \/ JoinHttp
    BY <1>9 DEF DrainTimeout, JoinHttp, Drained, pushVars, httpVars
  <1>10. CASE TakePushes
    <2>1. /\ pc = "takePushes" /\ pc' = "joinPushes" /\ UNCHANGED <<push, holds, timedOut>>
          /\ taken' = tracked /\ taken = {}
      BY <1>10 DEF TakePushes, Drained, httpVars
    <2>2. /\ \A s \in Slaves18022 : holds[s] = NoPush
          /\ holds["consumer"] = NoPush
      BY <2>1 DEF Staged, Handles
    <2>3. ASSUME NEW p \in Pushes, push[p] = "sending", ~timedOut PROVE p \in tracked
      BY <2>1, <2>2, <2>3 DEF Live, Drained
    <2> QED
      BY <2>1, <2>3 DEF Drained
  <1>11. CASE JoinPushes
    BY <1>11 DEF JoinPushes, Drained, pushVars, httpVars
  <1>12. ASSUME NEW c \in Clients, Answer(c) PROVE Drained'
    <2>1. UNCHANGED <<pc, timedOut, taken>> /\ (UNCHANGED <<push, holds>> \/ SpawnPush(c))
      BY <1>12 DEF Answer, mainVars
    <2> QED
      BY <1>2, <1>4, <2>1
  <1>13. ASSUME NEW c \in Clients, CloseConn(c) PROVE Drained'
    BY <1>3, <1>13 DEF CloseConn, mainVars
  <1>14. ASSUME NEW s \in Slaves18022, SlaveRing(s) PROVE Drained'
    BY <1>2, <1>14 DEF SlaveRing, mainVars, httpVars
  <1>15. ASSUME NEW s \in Slaves18022, SlaveDispatch(s) PROVE Drained'
    BY <1>3, <1>15 DEF SlaveDispatch, mainVars, httpVars
  <1>16. CASE ConsumerReply
    <2>1. UNCHANGED <<pc, timedOut, taken>> /\ (UNCHANGED <<push, holds>> \/ SpawnPush("consumer"))
      BY <1>16 DEF ConsumerReply, mainVars, httpVars
    <2> QED
      BY <1>2, <1>4, <2>1
  <1>17. CASE ConsumerAfter
    BY <1>3, <1>17 DEF ConsumerAfter, mainVars, httpVars
  <1>18. CASE Signal \/ Worker \/ Timer \/ Bind \/ ServeReturn
    BY <1>4, <1>18 DEF Signal, Worker, WorkerTake, WorkerFinish, WorkerExit, Timer, TimerCheck,
       TimerSubmit, Bind, ServeReturn, mainVars, httpVars, pushVars
  <1>19. ASSUME NEW c \in Clients, Accept(c) \/ CountConn(c) \/ ClientGone(c) \/ Dispatch(c)
         PROVE  Drained'
    BY <1>4, <1>19 DEF Accept, CountConn, ClientGone, Dispatch, mainVars, pushVars
  <1>20. ASSUME NEW s \in Slaves, SlaveCheck(s) \/ SlaveWake(s) \/ SlaveFail(s) PROVE Drained'
    BY <1>4, <1>20 DEF SlaveCheck, SlaveWake, SlaveFail, mainVars, httpVars, pushVars
  <1>21. CASE ConsumerSkip \/ ConsumerTrigger \/ ConsumerStop
    BY <1>4, <1>21 DEF ConsumerSkip, ConsumerTrigger, ConsumerStop, mainVars, httpVars, pushVars
  <1>22. CASE UNCHANGED vars
    BY <1>4, <1>22 DEF vars
  <1> QED
    BY <1>5, <1>6, <1>7, <1>8, <1>9, <1>10, <1>11, <1>12, <1>13, <1>14, <1>15, <1>16, <1>17,
       <1>18, <1>19, <1>20, <1>21, <1>22
       DEF Next, Main, Exited, Handler, Slave, Consumer, Push

-----------------------------------------------------------------------------
(* The queue.                                                              *)

\* A job that is submitted goes to the end.
LEMMA QueueAppend ==
    ASSUME TypeOK, NEW x, queue' = Append(queue, x)
    PROVE  /\ \A r : Queued(r)' <=> Queued(r) \/ r = x
           /\ \A q, r : Precedes(q, r)' <=> Precedes(q, r) \/ (r = x /\ Queued(q))
  <1> DEFINE n == Len(queue)
  <1>1. /\ n \in Nat /\ Len(queue') = n + 1 /\ queue'[n + 1] = x
        /\ \A i \in 1..n : queue'[i] = queue[i]
    BY DEF TypeOK
  <1> HIDE DEF n
  <1>2. ASSUME NEW r PROVE Queued(r)' <=> Queued(r) \/ r = x
    <2>1. Queued(r) <=> \E i \in 1..n : queue[i] = r
      BY DEF Queued, n
    <2>2. Queued(r)' <=> \E i \in 1..(n + 1) : queue'[i] = r
      BY <1>1 DEF Queued
    <2> QED
      BY <1>1, <2>1, <2>2
  <1>3. ASSUME NEW q, NEW r
        PROVE  Precedes(q, r)' <=> Precedes(q, r) \/ (r = x /\ Queued(q))
    <2>1. Precedes(q, r) <=> \E i, j \in 1..n : i < j /\ queue[i] = q /\ queue[j] = r
      BY DEF Precedes, n
    <2>2. Precedes(q, r)' <=> \E i, j \in 1..(n + 1) : i < j /\ queue'[i] = q /\ queue'[j] = r
      BY <1>1 DEF Precedes
    <2>3. Queued(q) <=> \E i \in 1..n : queue[i] = q
      BY DEF Queued, n
    <2>4. ASSUME NEW i \in 1..(n + 1), NEW j \in 1..(n + 1), i < j, queue'[i] = q, queue'[j] = r
          PROVE  Precedes(q, r) \/ (r = x /\ Queued(q))
      <3>1. i \in 1..n /\ queue[i] = q
        BY <1>1, <2>4
      <3>2. CASE j = n + 1
        BY <1>1, <2>3, <2>4, <3>1, <3>2
      <3>3. CASE j \in 1..n
        BY <1>1, <2>1, <2>4, <3>1, <3>3
      <3> QED
        BY <1>1, <3>2, <3>3
    <2>5. ASSUME Precedes(q, r) PROVE Precedes(q, r)'
      <3>1. PICK i \in 1..n, j \in 1..n : i < j /\ queue[i] = q /\ queue[j] = r
        BY <2>1, <2>5
      <3>2. i \in 1..(n + 1) /\ j \in 1..(n + 1) /\ queue'[i] = q /\ queue'[j] = r
        BY <1>1, <3>1
      <3> QED
        BY <2>2, <3>1, <3>2
    <2>6. ASSUME r = x, Queued(q) PROVE Precedes(q, r)'
      <3>1. PICK i \in 1..n : queue[i] = q
        BY <2>3, <2>6
      <3>2. i \in 1..(n + 1) /\ n + 1 \in 1..(n + 1) /\ i < n + 1 /\ queue'[i] = q
        BY <1>1, <3>1
      <3> QED
        BY <1>1, <2>2, <2>6, <3>2
    <2> QED
      BY <2>2, <2>4, <2>5, <2>6
  <1> QED
    BY <1>2, <1>3

\* The worker takes the first job; the others keep their order.
LEMMA QueueTail ==
    ASSUME TypeOK, queue # <<>>, queue' = Tail(queue)
    PROVE  /\ \A r : Queued(r) <=> r = Head(queue) \/ Queued(r)'
           /\ \A q, r : Precedes(q, r) <=> Precedes(q, r)' \/ (q = Head(queue) /\ Queued(r)')
  <1> DEFINE n == Len(queue)
  <1>1. /\ n \in Nat \ {0} /\ Len(queue') = n - 1 /\ queue[1] = Head(queue)
        /\ \A i \in 1..(n - 1) : queue'[i] = queue[i + 1]
    BY DEF TypeOK
  <1> HIDE DEF n
  <1>2. \A r : Queued(r) <=> \E i \in 1..n : queue[i] = r
    BY DEF Queued, n
  <1>3. \A r : Queued(r)' <=> \E i \in 1..(n - 1) : queue'[i] = r
    BY <1>1 DEF Queued
  <1>4. \A i \in 2..n : i - 1 \in 1..(n - 1) /\ queue'[i - 1] = queue[i]
    BY <1>1
  <1>5. \A i \in 1..(n - 1) : i + 1 \in 1..n
    BY <1>1
  <1>6. ASSUME NEW r PROVE Queued(r) <=> r = Head(queue) \/ Queued(r)'
    <2>1. ASSUME Queued(r), r # Head(queue) PROVE Queued(r)'
      <3>1. PICK i \in 1..n : queue[i] = r
        BY <1>2, <2>1
      <3>2. i \in 2..n
        BY <1>1, <2>1, <3>1
      <3> QED
        BY <1>3, <1>4, <3>1, <3>2
    <2>2. ASSUME r = Head(queue) PROVE Queued(r)
      BY <1>1, <1>2, <2>2
    <2>3. ASSUME Queued(r)' PROVE Queued(r)
      BY <1>1, <1>2, <1>3, <1>5, <2>3
    <2> QED
      BY <2>1, <2>2, <2>3
  <1>7. ASSUME NEW q, NEW r
        PROVE  Precedes(q, r) <=> Precedes(q, r)' \/ (q = Head(queue) /\ Queued(r)')
    <2>1. Precedes(q, r) <=> \E i, j \in 1..n : i < j /\ queue[i] = q /\ queue[j] = r
      BY DEF Precedes, n
    <2>2. Precedes(q, r)' <=> \E i, j \in 1..(n - 1) : i < j /\ queue'[i] = q /\ queue'[j] = r
      BY <1>1 DEF Precedes
    <2>3. ASSUME Precedes(q, r) PROVE Precedes(q, r)' \/ (q = Head(queue) /\ Queued(r)')
      <3>1. PICK i \in 1..n, j \in 1..n : i < j /\ queue[i] = q /\ queue[j] = r
        BY <2>1, <2>3
      <3>2. j \in 2..n /\ j - 1 \in 1..(n - 1) /\ queue'[j - 1] = r
        BY <1>1, <1>4, <3>1
      <3>3. CASE i = 1
        BY <1>1, <1>3, <3>1, <3>2, <3>3
      <3>4. CASE i # 1
        <4>1. i \in 2..n /\ i - 1 \in 1..(n - 1) /\ queue'[i - 1] = q /\ i - 1 < j - 1
          BY <1>1, <1>4, <3>1, <3>4
        <4> QED
          BY <2>2, <3>2, <4>1
      <3> QED
        BY <3>3, <3>4
    <2>4. ASSUME Precedes(q, r)' PROVE Precedes(q, r)
      <3>1. PICK i \in 1..(n - 1), j \in 1..(n - 1) : i < j /\ queue'[i] = q /\ queue'[j] = r
        BY <2>2, <2>4
      <3>2. i + 1 \in 1..n /\ j + 1 \in 1..n /\ i + 1 < j + 1
        BY <1>1, <3>1
      <3>3. queue[i + 1] = q /\ queue[j + 1] = r
        BY <1>1, <3>1
      <3> QED
        BY <2>1, <3>2, <3>3
    <2>5. ASSUME q = Head(queue), Queued(r)' PROVE Precedes(q, r)
      <3>1. PICK j \in 1..(n - 1) : queue'[j] = r
        BY <1>3, <2>5
      <3>2. 1 \in 1..n /\ j + 1 \in 1..n /\ 1 < j + 1 /\ queue[1] = q /\ queue[j + 1] = r
        BY <1>1, <2>5, <3>1
      <3> QED
        BY <2>1, <3>2
    <2> QED
      BY <2>3, <2>4, <2>5
  <1> QED
    BY <1>6, <1>7

\* Nothing is in an empty queue, and whoever precedes somebody is in the queue.
LEMMA QueueEmpty ==
    ASSUME NEW r, NEW q
    PROVE  /\ queue = <<>> => ~Queued(r) /\ ~Precedes(q, r)
           /\ Precedes(q, r) => Queued(q) /\ Queued(r)
  BY DEF Queued, Precedes

\* The steps that concern the queue, the worker and the answers.
LEMMA WorkSteps ==
    ASSUME [Next]_vars
    PROVE  \/ WorkerTake \/ WorkerFinish \/ WorkerExit
           \/ ConsumerTrigger \/ TimerSubmit \/ SendSentinel
           \/ \E c \in Clients : Dispatch(c)
           \/ UNCHANGED workVars /\ (SentinelSent' <=> SentinelSent)
  <1> DEFINE Idle == UNCHANGED workVars /\ (SentinelSent' <=> SentinelSent)
  <1>1. UNCHANGED <<workVars, pc>> => Idle
    BY DEF SentinelSent
  <1>2. MainObserve \/ StopVideo \/ JoinListeners \/ JoinConsumer \/ JoinWorker \/ CloseHttp
        \/ DrainHttp \/ DrainTimeout \/ JoinHttp \/ TakePushes \/ JoinPushes => Idle
    BY DEF MainObserve, StopVideo, JoinListeners, JoinConsumer, JoinWorker, CloseHttp, DrainHttp,
       DrainTimeout, JoinHttp, TakePushes, JoinPushes, SentinelSent
  <1> HIDE DEF Idle
  <1>3. Signal \/ Bind \/ ServeReturn \/ TimerCheck => Idle
    BY <1>1 DEF Signal, Bind, ServeReturn, TimerCheck, mainVars
  <1>4. ConsumerSkip \/ ConsumerReply \/ ConsumerAfter \/ ConsumerStop => Idle
    BY <1>1 DEF ConsumerSkip, ConsumerReply, ConsumerAfter, ConsumerStop, mainVars
  <1>5. \A c \in Clients : Accept(c) \/ ClientGone(c) \/ Handler(c) => Idle
    BY <1>1 DEF Accept, ClientGone, Handler, CountConn, Answer, CloseConn, mainVars
  <1>6. \A s \in Slaves : Slave(s) \/ SlaveFail(s) => Idle
    BY <1>1 DEF Slave, SlaveCheck, SlaveWake, SlaveDispatch, SlaveFail, mainVars
  <1>7. \A s \in Slaves18022 : SlaveRing(s) => Idle
    BY <1>1 DEF SlaveRing, mainVars
  <1>8. \A p \in Pushes : Push(p) => Idle
    BY <1>1 DEF Push, PushBegin, PushEnd, mainVars
  <1>9. UNCHANGED vars => Idle
    BY <1>1 DEF vars, workVars
  <1>10. \/ WorkerTake \/ WorkerFinish \/ WorkerExit
         \/ ConsumerTrigger \/ TimerSubmit \/ SendSentinel
         \/ \E c \in Clients : Dispatch(c)
         \/ Idle
    BY <1>2, <1>3, <1>4, <1>5, <1>6, <1>7, <1>8, <1>9
       DEF Next, Main, Worker, Consumer, Timer, Exited
  <1> QED
    BY <1>10 DEF Idle

\* A request by somebody who has none under way.
LEMMA SubmitOrder ==
    ASSUME TypeOK, Order, NEW r \in Requesters, r # job, ~Queued(r), SubmitUnlock(r),
           UNCHANGED <<job, worker>>
    PROVE  Order'
  <1>1. CASE ReceiverAlive
    <2>1. queue' = Append(queue, r)
      BY <1>1 DEF SubmitUnlock
    <2>2. /\ \A x : Queued(x)' <=> Queued(x) \/ x = r
          /\ \A q, x : Precedes(q, x)' <=> Precedes(q, x) \/ (x = r /\ Queued(q))
      BY <2>1, QueueAppend
    <2>3. late' \subseteq late \cup {r}
      BY DEF SubmitUnlock
    <2> QED
      BY <2>2, <2>3 DEF Order
  <1>2. CASE ~ReceiverAlive
    <2>1. queue' = queue /\ late' \subseteq late \cup {r}
      BY <1>2 DEF SubmitUnlock
    <2> QED
      BY <2>1 DEF Order, Queued, Precedes
  <1> QED
    BY <1>1, <1>2

\* The job at the head of the queue is not behind the sentinel.
LEMMA HeadNotLate ==
    ASSUME TypeOK, Order, Closing, WorkerTake, Head(queue) # "sentinel"
    PROVE  Head(queue) \notin late
  <1>1. /\ \A r : Queued(r) <=> r = Head(queue) \/ Queued(r)'
        /\ \A q, r : Precedes(q, r) <=> Precedes(q, r)' \/ (q = Head(queue) /\ Queued(r)')
    BY QueueTail DEF WorkerTake
  <1> SUFFICES ASSUME Head(queue) \in late PROVE FALSE
    OBVIOUS
  <1>2. PICK h : h = Head(queue)
    OBVIOUS
  <1>3. h \in Requesters /\ h \in late /\ SentinelSent /\ worker = "idle"
    BY <1>2 DEF TypeOK, Closing, WorkerTake
  <1>4. Queued("sentinel") /\ Queued(h)
    BY <1>1, <1>2, <1>3 DEF Closing
  <1>5. Precedes("sentinel", h)
    BY <1>3, <1>4 DEF Closing
  <1>6. Precedes("sentinel", h)'
    BY <1>1, <1>2, <1>5
  <1>7. Queued(h)'
    BY <1>6 DEF Precedes, Queued
  <1>8. Precedes(h, h)
    BY <1>1, <1>2, <1>7
  <1> QED
    BY <1>3, <1>8 DEF Order

\* No step puts a request in two places.
LEMMA OrderKept == IInv /\ [Next]_vars => Order'
  <1> SUFFICES ASSUME IInv, [Next]_vars PROVE Order'
    OBVIOUS
  <1>0. /\ TypeOK /\ Order /\ Submitted /\ Closing
        /\ {"hangup", "sentinel", "none"} \cap Requesters = {} /\ "consumer" \in Requesters
    BY DaemonAssumption DEF IInv, Requesters
  <1>1. CASE WorkerTake
    <2>1. /\ \A r : Queued(r) <=> r = Head(queue) \/ Queued(r)'
          /\ \A q, r : Precedes(q, r) <=> Precedes(q, r)' \/ (q = Head(queue) /\ Queued(r)')
      BY <1>0, <1>1, QueueTail DEF WorkerTake
    <2>2. late' = late /\ worker = "idle" /\ job = "none"
      BY <1>0, <1>1 DEF WorkerTake, Order
    <2>3. CASE Head(queue) = "sentinel"
      <3>1. worker' = "stopping" /\ job' = job
        BY <1>1, <2>3 DEF WorkerTake
      <3> QED
        BY <1>0, <2>1, <2>2, <3>1 DEF Order
    <2>4. CASE Head(queue) # "sentinel"
      <3>1. worker' = "busy" /\ job' = Head(queue)
        BY <1>1, <2>4 DEF WorkerTake
      <3>2. Head(queue) \in Requesters \cup {"hangup"}
        BY <1>0, <1>1, <2>4 DEF WorkerTake, TypeOK
      <3>3. Head(queue) \notin late
        BY <1>0, <1>1, <2>4, HeadNotLate
      <3> QED
        BY <1>0, <2>1, <2>2, <3>1, <3>2, <3>3 DEF Order
    <2> QED
      BY <2>3, <2>4
  <1>2. CASE WorkerFinish
    BY <1>0, <1>2 DEF WorkerFinish, Order, Queued, Precedes
  <1>3. CASE WorkerExit
    BY <1>0, <1>3 DEF WorkerExit, Order, Queued, Precedes
  <1>4. CASE ConsumerTrigger
    <2>1. job # "consumer" /\ ~Queued("consumer")
      BY <1>0, <1>4 DEF ConsumerTrigger, Submitted
    <2> QED
      BY <1>0, <1>4, <2>1, SubmitOrder DEF ConsumerTrigger
  <1>5. ASSUME NEW c \in Clients, Dispatch(c) PROVE Order'
    <2>1. c \in Requesters /\ job # c /\ ~Queued(c)
      BY <1>0, <1>5 DEF Dispatch, Submitted, Requesters
    <2> QED
      BY <1>0, <1>5, <2>1, SubmitOrder DEF Dispatch
  <1>6. CASE TimerSubmit
    <2>1. UNCHANGED <<job, worker, late>>
          /\ (queue' = Append(queue, "hangup") \/ queue' = queue)
      BY <1>6 DEF TimerSubmit
    <2>2. CASE queue' = queue
      BY <1>0, <2>1, <2>2 DEF Order, Queued, Precedes
    <2>3. CASE queue' = Append(queue, "hangup")
      BY <1>0, <2>1, <2>3, QueueAppend DEF Order
    <2> QED
      BY <2>1, <2>2, <2>3
  <1>7. CASE SendSentinel
    <2>1. UNCHANGED <<job, worker, late>>
          /\ (queue' = Append(queue, "sentinel") \/ queue' = queue)
      BY <1>7 DEF SendSentinel
    <2>2. CASE queue' = queue
      BY <1>0, <2>1, <2>2 DEF Order, Queued, Precedes
    <2>3. CASE queue' = Append(queue, "sentinel")
      <3>1. ~Queued("sentinel")
        BY <1>0, <1>7 DEF SendSentinel, Closing, SentinelSent
      <3> QED
        BY <1>0, <2>1, <2>3, <3>1, QueueAppend DEF Order
    <2> QED
      BY <2>1, <2>2, <2>3
  <1>8. CASE UNCHANGED workVars
    BY <1>0, <1>8 DEF workVars, Order, Queued, Precedes
  <1> QED
    BY <1>1, <1>2, <1>3, <1>4, <1>5, <1>6, <1>7, <1>8, WorkSteps

\* Nobody stops waiting without an answer.
LEMMA WaitSteps ==
    ASSUME TypeOK, [Next]_vars
    PROVE  /\ \A c \in Clients :
                 \/ conn'[c] = conn[c]
                 \/ conn[c] \in {"out", "accepted", "reading"}
                 \/ conn[c] = "waiting" /\ reply[c] # "none" /\ conn'[c] = "closing"
                 \/ conn[c] = "closing" /\ conn'[c] = "closed"
           /\ consumer' = consumer \/ consumer # "waiting" \/ reply["consumer"] # "none"
  <1> DEFINE Goal ==
          /\ \A c \in Clients :
                \/ conn'[c] = conn[c]
                \/ conn[c] \in {"out", "accepted", "reading"}
                \/ conn[c] = "waiting" /\ reply[c] # "none" /\ conn'[c] = "closing"
                \/ conn[c] = "closing" /\ conn'[c] = "closed"
          /\ consumer' = consumer \/ consumer # "waiting" \/ reply["consumer"] # "none"
  <1>0. DOMAIN conn = Clients
    BY DEF TypeOK
  <1>1. UNCHANGED <<conn, consumer>> => Goal
    OBVIOUS
  <1>2. ASSUME NEW c \in Clients, Accept(c) \/ ClientGone(c) \/ Dispatch(c) \/ Handler(c)
        PROVE  Goal
    <2>1. UNCHANGED consumer
      BY <1>2 DEF Accept, ClientGone, Dispatch, Handler, CountConn, Answer, CloseConn, ringVars
    <2>2. \/ conn[c] \in {"out", "accepted", "reading"}
          \/ conn[c] = "waiting" /\ reply[c] # "none" /\ conn' = [conn EXCEPT ![c] = "closing"]
          \/ conn[c] = "closing" /\ conn' = [conn EXCEPT ![c] = "closed"]
      BY <1>2 DEF Accept, ClientGone, Dispatch, Handler, CountConn, Answer, CloseConn
    <2>3. \A d \in Clients : d # c => conn'[d] = conn[d]
      BY <1>0, <1>2 DEF Accept, ClientGone, Dispatch, Handler, CountConn, Answer, CloseConn
    <2> QED
      BY <1>0, <2>1, <2>2, <2>3
  <1>3. Consumer => Goal
    BY DEF Consumer, ConsumerSkip, ConsumerTrigger, ConsumerReply, ConsumerAfter,
       ConsumerStop, httpVars
  <1> HIDE DEF Goal
  <1>4. Main => Goal
    BY <1>1 DEF Main, MainObserve, StopVideo, JoinListeners, JoinConsumer, SendSentinel,
       JoinWorker, CloseHttp, DrainHttp, DrainTimeout, JoinHttp, TakePushes, JoinPushes,
       httpVars, ringVars
  <1>5. Signal \/ Worker \/ Timer \/ Bind \/ ServeReturn => Goal
    BY <1>1 DEF Signal, Worker, WorkerTake, WorkerFinish, WorkerExit, Timer, TimerCheck,
       TimerSubmit, Bind, ServeReturn, httpVars, ringVars
  <1>6. \A s \in Slaves : Slave(s) \/ SlaveFail(s) => Goal
    BY <1>1 DEF Slave, SlaveCheck, SlaveWake, SlaveDispatch, SlaveFail, httpVars
  <1>7. \A s \in Slaves18022 : SlaveRing(s) => Goal
    BY <1>1 DEF SlaveRing, httpVars
  <1>8. \A p \in Pushes : Push(p) => Goal
    BY <1>1 DEF Push, PushBegin, PushEnd, httpVars, ringVars
  <1>9. UNCHANGED vars => Goal
    BY <1>1 DEF vars
  <1>10. Goal
    BY <1>2, <1>3, <1>4, <1>5, <1>6, <1>7, <1>8, <1>9 DEF Next, Exited
  <1> QED
    BY <1>10 DEF Goal

\* A requester that goes on has had its answer.
LEMMA SubmittedKept == IInv /\ [Next]_vars => Submitted'
  <1> SUFFICES ASSUME IInv, [Next]_vars PROVE Submitted'
    OBVIOUS
  <1>0. /\ TypeOK /\ Order /\ Submitted /\ Closing
        /\ {"hangup", "sentinel", "none"} \cap Requesters = {} /\ "consumer" \notin Clients
        /\ Requesters = Clients \cup {"consumer"}
        /\ DOMAIN reply = Requesters /\ DOMAIN conn = Clients
    BY DaemonAssumption DEF IInv, TypeOK, Requesters
  <1>1. CASE WorkerTake
    <2>1. \A r : Queued(r) <=> r = Head(queue) \/ Queued(r)'
      BY <1>0, <1>1, QueueTail DEF WorkerTake
    <2>2. UNCHANGED <<conn, consumer, reply, late>> /\ job' \in {job, Head(queue)}
      BY <1>1 DEF WorkerTake, httpVars, ringVars
    <2> QED
      BY <1>0, <2>1, <2>2 DEF Submitted
  <1>2. CASE WorkerFinish
    <2>1. UNCHANGED <<conn, consumer, queue, late>> /\ job' = "none"
      BY <1>2 DEF WorkerFinish, httpVars, ringVars
    <2>2. \A r \in Requesters : r # job => reply'[r] = reply[r]
      BY <1>0, <1>2 DEF WorkerFinish
    <2>3. \A r : Queued(r)' <=> Queued(r)
      BY <2>1 DEF Queued
    <2> QED
      BY <1>0, <2>1, <2>2, <2>3 DEF Submitted, Order
  <1>3. CASE WorkerExit
    <2>1. UNCHANGED <<conn, consumer, late, job>> /\ job = "none"
      BY <1>0, <1>3 DEF WorkerExit, httpVars, ringVars, Order
    <2>2. \A r : ~Queued(r)'
      BY <1>3 DEF WorkerExit, Queued
    <2> QED
      BY <1>0, <2>1, <2>2 DEF Submitted
  <1>4. ASSUME NEW r \in Requesters, SubmitUnlock(r), UNCHANGED job, r # job, ~Queued(r)
        PROVE  /\ \A x : Queued(x)' => Queued(x) \/ x = r
               /\ Queued(r)' => reply'[r] = "none"
               /\ \A x \in Requesters : x # r => reply'[x] = reply[x]
               /\ late' \subseteq late \cup {r}
    <2>1. CASE ReceiverAlive
      <3>1. queue' = Append(queue, r) /\ reply' = [reply EXCEPT ![r] = "none"]
        BY <1>4, <2>1 DEF SubmitUnlock
      <3>2. \A x : Queued(x)' <=> Queued(x) \/ x = r
        BY <1>0, <3>1, QueueAppend
      <3> QED
        BY <1>0, <1>4, <3>1, <3>2 DEF SubmitUnlock
    <2>2. CASE ~ReceiverAlive
      <3>1. queue' = queue /\ reply' = [reply EXCEPT ![r] = "unavailable"]
        BY <1>4, <2>2 DEF SubmitUnlock
      <3>2. \A x : Queued(x)' <=> Queued(x)
        BY <3>1 DEF Queued
      <3> QED
        BY <1>0, <1>4, <3>1, <3>2 DEF SubmitUnlock
    <2> QED
      BY <2>1, <2>2
  <1>5. CASE ConsumerTrigger
    <2>1. /\ UNCHANGED <<conn, job>> /\ consumer = "recv" /\ consumer' = "waiting"
          /\ SubmitUnlock("consumer")
      BY <1>5 DEF ConsumerTrigger, httpVars
    <2>2. job # "consumer" /\ ~Queued("consumer")
      BY <1>0, <2>1 DEF Submitted
    <2>3. /\ \A x : Queued(x)' => Queued(x) \/ x = "consumer"
          /\ Queued("consumer")' => reply'["consumer"] = "none"
          /\ \A x \in Requesters : x # "consumer" => reply'[x] = reply[x]
          /\ late' \subseteq late \cup {"consumer"}
      BY <1>0, <1>4, <2>1, <2>2
    <2> QED
      BY <1>0, <2>1, <2>2, <2>3 DEF Submitted
  <1>6. ASSUME NEW c \in Clients, Dispatch(c) PROVE Submitted'
    <2>1. /\ UNCHANGED <<consumer, job>> /\ conn[c] = "reading" /\ SubmitUnlock(c)
          /\ conn' = [conn EXCEPT ![c] = "waiting"]
      BY <1>6 DEF Dispatch, ringVars
    <2>2. job # c /\ ~Queued(c)
      BY <1>0, <2>1 DEF Submitted
    <2>3. /\ \A x : Queued(x)' => Queued(x) \/ x = c
          /\ Queued(c)' => reply'[c] = "none"
          /\ \A x \in Requesters : x # c => reply'[x] = reply[x]
          /\ late' \subseteq late \cup {c}
      BY <1>0, <1>4, <2>1, <2>2
    <2> QED
      BY <1>0, <2>1, <2>2, <2>3 DEF Submitted
  <1>7. CASE TimerSubmit \/ SendSentinel
    <2>1. /\ UNCHANGED <<conn, consumer, job, reply, late>>
          /\ queue' = queue \/ queue' = Append(queue, "hangup") \/ queue' = Append(queue, "sentinel")
      BY <1>7 DEF TimerSubmit, SendSentinel, httpVars, ringVars
    <2>2. \A r \in Requesters : Queued(r)' => Queued(r)
      <3>1. CASE queue' = queue
        BY <3>1 DEF Queued
      <3>2. CASE queue' = Append(queue, "hangup")
        BY <1>0, <3>2, QueueAppend
      <3>3. CASE queue' = Append(queue, "sentinel")
        BY <1>0, <3>3, QueueAppend
      <3> QED
        BY <2>1, <3>1, <3>2, <3>3
    <2> QED
      BY <1>0, <2>1, <2>2 DEF Submitted
  <1>8. CASE UNCHANGED workVars
    <2>1. UNCHANGED <<queue, job, reply, late>>
      BY <1>8 DEF workVars
    <2>2. \A r : Queued(r)' <=> Queued(r)
      BY <2>1 DEF Queued
    <2>3. /\ \A c \in Clients :
                \/ conn'[c] = conn[c]
                \/ conn[c] \in {"out", "accepted", "reading"}
                \/ conn[c] = "waiting" /\ reply[c] # "none" /\ conn'[c] = "closing"
                \/ conn[c] = "closing" /\ conn'[c] = "closed"
          /\ consumer' = consumer \/ consumer # "waiting" \/ reply["consumer"] # "none"
      BY <1>0, WaitSteps
    <2> QED
      BY <1>0, <2>1, <2>2, <2>3 DEF Submitted
  <1> QED
    BY <1>1, <1>2, <1>3, <1>5, <1>6, <1>7, <1>8, WorkSteps

\* A request is late exactly if it comes to stand behind the sentinel.
LEMMA SubmitClosing ==
    ASSUME TypeOK, Closing, NEW r \in Requesters, r \notin late, ~Queued(r), SubmitUnlock(r),
           r # "sentinel", UNCHANGED <<worker, pc>>
    PROVE  Closing'
  <1>1. /\ late' = IF SentinelSent THEN late \cup {r} ELSE late
        /\ SentinelSent' <=> SentinelSent
    BY DEF SubmitUnlock, SentinelSent
  <1>2. CASE ReceiverAlive
    <2>1. queue' = Append(queue, r) /\ worker # "exited"
      BY <1>2 DEF SubmitUnlock, ReceiverAlive
    <2>2. /\ \A x : Queued(x)' <=> Queued(x) \/ x = r
          /\ \A q, x : Precedes(q, x)' <=> Precedes(q, x) \/ (x = r /\ Queued(q))
      BY <2>1, QueueAppend
    <2> QED
      BY <1>1, <2>1, <2>2 DEF Closing
  <1>3. CASE ~ReceiverAlive
    <2>1. queue' = queue /\ worker = "exited" /\ queue = <<>>
      BY <1>3 DEF SubmitUnlock, ReceiverAlive, Closing
    <2>2. \A x : ~Queued(x) /\ ~Queued(x)'
      BY <2>1 DEF Queued
    <2> QED
      BY <1>1, <2>1, <2>2 DEF Closing
  <1> QED
    BY <1>2, <1>3

\* The sentinel separates those who are served from those who are refused.
LEMMA ClosingKept == IInv /\ [Next]_vars => Closing'
  <1> SUFFICES ASSUME IInv, [Next]_vars PROVE Closing'
    OBVIOUS
  <1>0. /\ TypeOK /\ Order /\ Submitted /\ Closing
        /\ {"hangup", "sentinel", "none"} \cap Requesters = {}
        /\ Requesters = Clients \cup {"consumer"} /\ "consumer" \notin late
    BY DaemonAssumption DEF IInv, Requesters, SelfUnlockNeverLate
  <1>1. CASE WorkerTake
    <2>1. /\ \A r : Queued(r) <=> r = Head(queue) \/ Queued(r)'
          /\ \A q, r : Precedes(q, r) <=> Precedes(q, r)' \/ (q = Head(queue) /\ Queued(r)')
      BY <1>0, <1>1, QueueTail DEF WorkerTake
    <2>2. late' = late /\ worker = "idle" /\ (SentinelSent' <=> SentinelSent)
      BY <1>1 DEF WorkerTake, mainVars, SentinelSent
    <2>3. CASE Head(queue) = "sentinel"
      <3>1. worker' = "stopping"
        BY <1>1, <2>3 DEF WorkerTake
      <3>2. Queued("sentinel") /\ ~Precedes("sentinel", "sentinel")
        BY <1>0, <2>1, <2>3 DEF Order
      <3>3. ~Queued("sentinel")'
        BY <2>1, <2>3, <3>2
      <3>4. \A r \in Requesters : Queued(r)' => r \in late
        BY <1>0, <2>1, <2>3, <3>2 DEF Closing
      <3> QED
        BY <1>0, <2>2, <3>1, <3>2, <3>3, <3>4 DEF Closing
    <2>4. CASE Head(queue) # "sentinel"
      <3>1. worker' = "busy"
        BY <1>1, <2>4 DEF WorkerTake
      <3> QED
        BY <1>0, <2>1, <2>2, <2>4, <3>1 DEF Closing
    <2> QED
      BY <2>3, <2>4
  <1>2. CASE WorkerFinish
    <2>1. /\ UNCHANGED <<queue, late>> /\ worker = "busy" /\ worker' = "idle"
          /\ SentinelSent' <=> SentinelSent
      BY <1>2 DEF WorkerFinish, mainVars, SentinelSent
    <2>2. (\A r : Queued(r)' <=> Queued(r)) /\ (\A q, r : Precedes(q, r)' <=> Precedes(q, r))
      BY <2>1 DEF Queued, Precedes
    <2> QED
      BY <1>0, <2>1, <2>2 DEF Closing
  <1>3. CASE WorkerExit
    <2>1. /\ late' = late /\ worker = "stopping" /\ worker' = "exited" /\ queue' = <<>>
          /\ SentinelSent' <=> SentinelSent
      BY <1>3 DEF WorkerExit, mainVars, SentinelSent
    <2>2. \A r : ~Queued(r)'
      BY <2>1 DEF Queued
    <2> QED
      BY <1>0, <2>1, <2>2 DEF Closing
  <1>4. CASE ConsumerTrigger
    <2>1. ~Queued("consumer")
      BY <1>0, <1>4 DEF ConsumerTrigger, Submitted
    <2> QED
      BY <1>0, <1>4, <2>1, SubmitClosing DEF ConsumerTrigger, mainVars
  <1>5. ASSUME NEW c \in Clients, Dispatch(c) PROVE Closing'
    <2>1. ~Queued(c) /\ c \notin late
      BY <1>0, <1>5 DEF Dispatch, Submitted
    <2> QED
      BY <1>0, <1>5, <2>1, SubmitClosing DEF Dispatch, mainVars
  <1>6. CASE TimerSubmit
    <2>1. /\ UNCHANGED <<worker, late>> /\ (SentinelSent' <=> SentinelSent)
          /\ queue' = IF worker # "exited" THEN Append(queue, "hangup") ELSE queue
      BY <1>6 DEF TimerSubmit, ReceiverAlive, mainVars, SentinelSent
    <2>2. CASE worker = "exited"
      <3>1. (\A r : Queued(r)' <=> Queued(r)) /\ (\A q, r : Precedes(q, r)' <=> Precedes(q, r))
        BY <2>1, <2>2 DEF Queued, Precedes
      <3> QED
        BY <1>0, <2>1, <2>2, <3>1 DEF Closing
    <2>3. CASE worker # "exited"
      <3>1. /\ \A r : Queued(r)' <=> Queued(r) \/ r = "hangup"
            /\ \A q, r : Precedes(q, r)' <=> Precedes(q, r) \/ (r = "hangup" /\ Queued(q))
        BY <1>0, <2>1, <2>3, QueueAppend
      <3> QED
        BY <1>0, <2>1, <2>3, <3>1 DEF Closing
    <2> QED
      BY <2>2, <2>3
  <1>7. CASE SendSentinel
    <2>1. /\ UNCHANGED <<worker, late>> /\ ~SentinelSent /\ SentinelSent'
          /\ queue' = IF worker # "exited" THEN Append(queue, "sentinel") ELSE queue
      BY <1>7 DEF SendSentinel, ReceiverAlive, SentinelSent
    <2>2. late = {} /\ ~Queued("sentinel") /\ worker \in {"idle", "busy"}
      BY <1>0, <2>1 DEF Closing
    <2>3. /\ \A r : Queued(r)' <=> Queued(r) \/ r = "sentinel"
          /\ \A q, r : Precedes(q, r)' <=> Precedes(q, r) \/ (r = "sentinel" /\ Queued(q))
      BY <1>0, <2>1, <2>2, QueueAppend
    <2>4. \A r : ~Precedes("sentinel", r)
      BY <2>2, QueueEmpty
    <2> QED
      BY <1>0, <2>1, <2>2, <2>3, <2>4 DEF Closing
  <1>8. CASE UNCHANGED workVars /\ (SentinelSent' <=> SentinelSent)
    <2>1. UNCHANGED <<queue, worker, late>>
      BY <1>8 DEF workVars
    <2>2. (\A r : Queued(r)' <=> Queued(r)) /\ (\A q, r : Precedes(q, r)' <=> Precedes(q, r))
      BY <2>1 DEF Queued, Precedes
    <2> QED
      BY <1>0, <1>8, <2>1, <2>2 DEF Closing
  <1> QED
    BY <1>1, <1>2, <1>3, <1>4, <1>5, <1>6, <1>7, <1>8, WorkSteps

\* The consumer has ended when the sentinel is sent.
LEMMA NeverLateKept == IInv /\ [Next]_vars => SelfUnlockNeverLate'
  <1> SUFFICES ASSUME IInv, [Next]_vars PROVE SelfUnlockNeverLate'
    OBVIOUS
  <1>0. "consumer" \notin late /\ "consumer" \notin Clients
    BY DaemonAssumption DEF IInv, SelfUnlockNeverLate
  <1>1. CASE ConsumerTrigger
    <2>1. consumer # "exited" /\ SubmitUnlock("consumer")
      BY <1>1 DEF ConsumerTrigger
    <2>2. ~SentinelSent
      BY <2>1 DEF IInv, Staged, SentinelSent
    <2> QED
      BY <1>0, <2>1, <2>2 DEF SubmitUnlock, SelfUnlockNeverLate
  <1>2. ASSUME NEW c \in Clients, Dispatch(c) PROVE SelfUnlockNeverLate'
    <2>1. late' \subseteq late \cup {c}
      BY <1>2 DEF Dispatch, SubmitUnlock
    <2> QED
      BY <1>0, <2>1 DEF SelfUnlockNeverLate
  <1>3. WorkerTake \/ WorkerFinish \/ WorkerExit \/ TimerSubmit \/ SendSentinel
        \/ UNCHANGED workVars => late' = late
    BY DEF WorkerTake, WorkerFinish, WorkerExit, TimerSubmit, SendSentinel, workVars
  <1> QED
    BY <1>0, <1>1, <1>2, <1>3, WorkSteps DEF SelfUnlockNeverLate

LEMMA Inductive == Spec => []IInv
  <1>1. Init => IInv
    BY InitIInv
  <1>2. IInv /\ [Next]_vars => IInv'
    <2> SUFFICES ASSUME IInv, [Next]_vars PROVE IInv'
      OBVIOUS
    <2>1. TypeOK' /\ Staged' /\ Handles' /\ Live' /\ Drained'
      BY Types, StagedKept, HandlesKept, LiveKept, DrainedKept DEF IInv
    <2>2. Order' /\ Submitted' /\ Closing' /\ SelfUnlockNeverLate'
      BY OrderKept, SubmittedKept, ClosingKept, NeverLateKept
    <2> QED
      BY <2>1, <2>2 DEF IInv
  <1> QED
    BY <1>1, <1>2, PTL DEF Spec

-----------------------------------------------------------------------------
(* Theorems.                                                               *)

\* The daemon's threads keep the types of what they share.
THEOREM TypeCorrect == Spec => []TypeOK
  <1>1. IInv => TypeOK
    BY DEF IInv
  <1> QED
    BY <1>1, Inductive, PTL

\* However many clients and sniffers there are, the self-unlock path never
\* submits to a queue that the sentinel has closed.
THEOREM ConsumerNeverLate == Spec => []SelfUnlockNeverLate
  <1>1. IInv => SelfUnlockNeverLate
    BY DEF IInv
  <1> QED
    BY <1>1, Inductive, PTL

\* However many push threads there are and whoever spawned them, run() does not
\* return in the middle of a POST unless the HTTP drain timed out.
THEOREM PushesFinish == Spec => []NoPushCutOff
  <1>1. IInv => NoPushCutOff
    BY DEF IInv, Drained, NoPushCutOff
  <1> QED
    BY <1>1, Inductive, PTL

-----------------------------------------------------------------------------
(* The refinement.                                                         *)

\* Those ahead of r in the mapping.
Before(r) == {q \in Waiting : r \in Waiting /\ r # job /\ (q = job \/ Precedes(q, r))}

\* A step that changes nobody's place is a stuttering step of the service.
LEMMA Stutters ==
    ASSUME Waiting' = Waiting, \A r \in Requesters : Before(r)' = Before(r),
           Refused' = Refused, reply' = reply, SentinelSent' <=> SentinelSent
    PROVE  UNCHANGED Service!vars
  <1>1. Ahead' = Ahead
    BY DEF Ahead, Before
  <1> QED
    BY <1>1 DEF Service!vars

\* A request before the sentinel joins those who wait, behind all of them.
LEMMA AskRefined ==
    ASSUME IInv, NEW r \in Requesters, r # job, ~Queued(r), r \notin late,
           SubmitUnlock(r), UNCHANGED <<job, worker, pc>>, ~SentinelSent
    PROVE  Service!Ask(r)
  <1>0. TypeOK /\ Order /\ Closing
    BY DEF IInv
  <1>1. /\ worker \in {"idle", "busy"} /\ late = {} /\ late' = {}
        /\ queue' = Append(queue, r) /\ reply' = [reply EXCEPT ![r] = "none"]
        /\ ~SentinelSent'
    BY <1>0 DEF Closing, SubmitUnlock, ReceiverAlive, SentinelSent
  <1>2. /\ \A x : Queued(x)' <=> Queued(x) \/ x = r
        /\ \A q, x : Precedes(q, x)' <=> Precedes(q, x) \/ (x = r /\ Queued(q))
    BY <1>0, <1>1, QueueAppend
  <1>3. \A q, x : Precedes(q, x) => Queued(q) /\ Queued(x)
    BY QueueEmpty
  <1>4. Waiting' = Waiting \cup {r} /\ r \notin Waiting
    BY <1>1, <1>2 DEF Waiting
  <1>5. Refused' = Refused /\ Refused = {}
    BY <1>1 DEF Refused
  <1>6. \A x \in Requesters : Before(x)' = IF x = r THEN Waiting ELSE Before(x)
    <2> SUFFICES ASSUME NEW x \in Requesters
                 PROVE  Before(x)' = IF x = r THEN Waiting ELSE Before(x)
      OBVIOUS
    <2>1. CASE x = r
      <3>1. Before(r)' = {q \in Waiting' : q = job \/ Precedes(q, r)'}
        BY <1>4 DEF Before
      <3>2. \A q \in Waiting : q = job \/ Queued(q)
        BY DEF Waiting
      <3>3. ~Precedes(r, r)'
        BY <1>2, <1>3
      <3> QED
        BY <1>2, <1>4, <2>1, <3>1, <3>2, <3>3
    <2>2. CASE x # r
      <3>1. \A q : Precedes(q, x)' <=> Precedes(q, x)
        BY <1>2, <2>2
      <3>2. ~Precedes(r, x)
        BY <1>3
      <3> QED
        BY <1>4, <2>2, <3>1, <3>2 DEF Before
    <2> QED
      BY <2>1, <2>2
  <1>7. Ahead' = [Ahead EXCEPT ![r] = Waiting]
    <2>1. Ahead = [x \in Requesters |-> Before(x)] /\ Ahead' = [x \in Requesters |-> Before(x)']
      BY DEF Ahead, Before
    <2> QED
      BY <1>6, <2>1
  <1> QED
    BY <1>1, <1>4, <1>5, <1>7 DEF Service!Ask, Service!Pending

\* A request behind the sentinel changes nobody's place.
LEMMA AskInVainRefined ==
    ASSUME IInv, NEW r \in Requesters, r # job, ~Queued(r), r \notin late,
           SubmitUnlock(r), UNCHANGED <<job, worker, pc>>, SentinelSent
    PROVE  Service!AskInVain(r)
  <1>0. TypeOK /\ Order /\ Closing
    BY DEF IInv
  <1>1. late' = late \cup {r} /\ SentinelSent'
    BY DEF SubmitUnlock, SentinelSent
  <1>2. \A q, x : Precedes(q, x) => Queued(q) /\ Queued(x)
    BY QueueEmpty
  <1>3. r \notin Waiting /\ r \notin Refused
    BY DEF Waiting, Refused
  <1>4. Ahead = [x \in Requesters |-> Before(x)] /\ Ahead' = [x \in Requesters |-> Before(x)']
    BY DEF Ahead, Before
  <1>5. CASE ReceiverAlive
    <2>1. queue' = Append(queue, r) /\ reply' = [reply EXCEPT ![r] = "none"]
      BY <1>5 DEF SubmitUnlock
    <2>2. /\ \A x : Queued(x)' <=> Queued(x) \/ x = r
          /\ \A q, x : Precedes(q, x)' <=> Precedes(q, x) \/ (x = r /\ Queued(q))
      BY <1>0, <2>1, QueueAppend
    <2>3. Waiting' = Waiting
      BY <1>1, <2>2 DEF Waiting
    <2>4. Refused' = Refused \cup {r}
      BY <1>1, <2>2 DEF Refused
    <2>5. \A x \in Requesters : Before(x)' = Before(x)
      BY <1>3, <2>2, <2>3 DEF Before
    <2>6. Ahead' = Ahead
      BY <1>4, <2>5
    <2> QED
      BY <1>1, <1>3, <2>1, <2>3, <2>4, <2>6 DEF Service!AskInVain, Service!Pending
  <1>6. CASE ~ReceiverAlive
    <2>1. queue' = queue /\ reply' = [reply EXCEPT ![r] = "unavailable"]
      BY <1>6 DEF SubmitUnlock
    <2>2. /\ \A x : Queued(x)' <=> Queued(x)
          /\ \A q, x : Precedes(q, x)' <=> Precedes(q, x)
      BY <2>1 DEF Queued, Precedes
    <2>3. Waiting' = Waiting
      BY <1>1, <2>2 DEF Waiting
    <2>4. Refused' = Refused
      BY <1>1, <2>2 DEF Refused
    <2>5. \A x \in Requesters : Before(x)' = Before(x)
      BY <2>2, <2>3 DEF Before
    <2>6. Ahead' = Ahead
      BY <1>4, <2>5
    <2> QED
      BY <1>1, <1>3, <2>1, <2>3, <2>4, <2>6 DEF Service!AskInVain, Service!Pending
  <1> QED
    BY <1>5, <1>6

\* Taking a job from the queue moves nobody: the first of those who wait is the
\* one whose job is executed.
LEMMA TakeRefined ==
    ASSUME IInv, WorkerTake
    PROVE  UNCHANGED Service!vars
  <1>0. /\ TypeOK /\ Order /\ Closing
        /\ {"hangup", "sentinel", "none"} \cap Requesters = {}
    BY DaemonAssumption DEF IInv, Requesters
  <1>1. PICK h : h = Head(queue)
    OBVIOUS
  <1>2. /\ \A r : Queued(r) <=> r = h \/ Queued(r)'
        /\ \A q, r : Precedes(q, r) <=> Precedes(q, r)' \/ (q = h /\ Queued(r)')
    BY <1>0, <1>1, QueueTail DEF WorkerTake
  <1>3. /\ job = "none" /\ late' = late /\ reply' = reply
        /\ SentinelSent' <=> SentinelSent
    BY <1>0 DEF WorkerTake, Order, mainVars, SentinelSent
  <1>4. CASE h \notin Requesters
    <2>1. job' \notin Requesters
      BY <1>0, <1>1, <1>3, <1>4 DEF WorkerTake
    <2>2. \A r \in Requesters : Queued(r)' <=> Queued(r)
      BY <1>2, <1>4
    <2>3. \A q, r \in Requesters : Precedes(q, r)' <=> Precedes(q, r)
      BY <1>2, <1>4
    <2>4. Waiting' = Waiting /\ Waiting \subseteq Requesters
      BY <1>0, <1>3, <2>1, <2>2 DEF Waiting
    <2>5. \A r \in Requesters : Before(r)' = Before(r)
      BY <1>0, <1>3, <2>1, <2>3, <2>4 DEF Before
    <2>6. Refused' = Refused
      BY <1>0, <1>3, <2>2 DEF Refused, TypeOK
    <2> QED
      BY <1>3, <2>4, <2>5, <2>6, Stutters
  <1>5. CASE h \in Requesters
    <2>1. job' = h
      BY <1>0, <1>1, <1>5 DEF WorkerTake
    <2>2. h \notin late
      BY <1>0, <1>1, <1>5, HeadNotLate
    <2>3. ~Queued(h)' /\ Queued(h)
      BY <1>0, <1>2, <1>5 DEF Order
    <2>4. Waiting' = Waiting /\ Waiting \subseteq Requesters
      BY <1>0, <1>2, <1>3, <2>1, <2>2, <2>3 DEF Waiting
    <2>5. \A q, r : Precedes(q, r)' => Queued(r)'
      BY DEF Precedes, Queued
    <2>6. \A r \in Requesters : Before(r)' = Before(r)
      <3> SUFFICES ASSUME NEW r \in Requesters PROVE Before(r)' = Before(r)
        OBVIOUS
      <3>1. Before(r) = {q \in Waiting : r \in Waiting /\ Precedes(q, r)}
        BY <1>0, <1>3, <2>4 DEF Before
      <3>2. Before(r)' = {q \in Waiting : r \in Waiting /\ r # h /\ (q = h \/ Precedes(q, r)')}
        BY <2>1, <2>4 DEF Before
      <3>3. CASE r = h
        <4>1. \A q : ~Precedes(q, h)
          BY <1>2, <2>3, <2>5
        <4> QED
          BY <3>1, <3>2, <3>3, <4>1
      <3>4. CASE r # h /\ r \in Waiting
        <4>1. Queued(r)'
          BY <1>0, <1>2, <1>3, <3>4 DEF Waiting
        <4>2. \A q : Precedes(q, r) <=> q = h \/ Precedes(q, r)'
          BY <1>2, <4>1
        <4> QED
          BY <3>1, <3>2, <3>4, <4>2
      <3>5. CASE r \notin Waiting
        BY <3>1, <3>2, <3>5
      <3> QED
        BY <3>3, <3>4, <3>5
    <2>7. Refused' = Refused
      BY <1>2, <1>3, <2>2 DEF Refused
    <2> QED
      BY <1>3, <2>4, <2>6, <2>7, Stutters
  <1> QED
    BY <1>4, <1>5

\* The end of an unlock serves the requester that has nobody ahead.
LEMMA FinishRefined ==
    ASSUME IInv, WorkerFinish, job \in Requesters
    PROVE  Service!Serve(job)
  <1>0. TypeOK /\ Order /\ "none" \notin Requesters
    BY DaemonAssumption DEF IInv, Requesters
  <1>1. PICK r \in Requesters : r = job
    OBVIOUS
  <1>2. /\ job' = "none" /\ UNCHANGED <<queue, late>> /\ (SentinelSent' <=> SentinelSent)
        /\ \E o \in Service!Executed : reply' = [reply EXCEPT ![r] = o]
    <2>1. r # "hangup"
      BY <1>1, DaemonAssumption DEF Requesters
    <2>2. ExecuteUnlock \subseteq Service!Executed
      BY DEF ExecuteUnlock, Service!Executed
    <2> QED
      BY <1>1, <2>1, <2>2 DEF WorkerFinish, mainVars, SentinelSent
  <1>3. /\ \A x : Queued(x)' <=> Queued(x)
        /\ \A q, x : Precedes(q, x)' <=> Precedes(q, x)
    BY <1>2 DEF Queued, Precedes
  <1>4. ~Queued(r) /\ r \notin late
    BY <1>0, <1>1 DEF Order
  <1>5. r \in Waiting /\ Waiting' = Waiting \ {r} /\ Waiting \subseteq Requesters
    BY <1>0, <1>1, <1>2, <1>3, <1>4 DEF Waiting
  <1>6. Refused' = Refused
    BY <1>2, <1>3 DEF Refused
  <1>7. \A x \in Requesters : Before(x)' = Before(x) \ {r}
    <2> SUFFICES ASSUME NEW x \in Requesters PROVE Before(x)' = Before(x) \ {r}
      OBVIOUS
    <2>1. Before(x) = {q \in Waiting : x \in Waiting /\ x # r /\ (q = r \/ Precedes(q, x))}
      BY <1>1 DEF Before
    <2>2. Before(x)' = {q \in Waiting \ {r} : x \in Waiting \ {r} /\ Precedes(q, x)}
      BY <1>0, <1>2, <1>3, <1>5 DEF Before
    <2> QED
      BY <2>1, <2>2
  <1>8. Ahead = [x \in Requesters |-> Before(x)] /\ Ahead' = [x \in Requesters |-> Before(x)']
    BY DEF Ahead, Before
  <1>9. Ahead[r] = {} /\ Ahead' = [q \in Requesters |-> Ahead[q] \ {r}]
    <2>1. Before(r) = {}
      BY <1>1 DEF Before
    <2> QED
      BY <1>7, <1>8, <2>1
  <1>10. Service!Serve(r)
    BY <1>2, <1>5, <1>6, <1>9 DEF Service!Serve
  <1> QED
    BY <1>1, <1>10

\* Dropping the receiver turns away all who are behind the sentinel.
LEMMA ExitRefined ==
    ASSUME IInv, WorkerExit
    PROVE  Service!TurnAway \/ UNCHANGED Service!vars
  <1>0. /\ TypeOK /\ Order /\ Closing /\ "none" \notin Requesters /\ late \subseteq Requesters
    BY DaemonAssumption DEF IInv, TypeOK, Requesters
  <1>1. /\ worker = "stopping" /\ queue' = <<>> /\ UNCHANGED <<late, job>> /\ job = "none"
        /\ reply' = [r \in Requesters |-> IF Queued(r) THEN "unavailable" ELSE reply[r]]
        /\ SentinelSent' <=> SentinelSent
    BY <1>0 DEF WorkerExit, Order, Queued, mainVars, SentinelSent
  <1>2. \A r : ~Queued(r)'
    BY <1>1 DEF Queued
  <1>3. \A r \in Requesters : Queued(r) <=> r \in Refused
    BY <1>0, <1>1 DEF Closing, Refused
  <1>4. Waiting = {} /\ Waiting' = {}
    BY <1>0, <1>1, <1>2 DEF Waiting, Closing
  <1>5. Refused' = {}
    BY <1>2 DEF Refused
  <1>6. \A r \in Requesters : Before(r) = {} /\ Before(r)' = {}
    BY <1>4 DEF Before
  <1>7. reply' = [r \in Requesters |-> IF r \in Refused THEN "unavailable" ELSE reply[r]]
    BY <1>1, <1>3
  <1>8. CASE Refused = {}
    <2>1. reply' = reply
      BY <1>0, <1>7, <1>8 DEF TypeOK
    <2> QED
      BY <1>1, <1>4, <1>5, <1>6, <1>8, <2>1, Stutters
  <1>9. CASE Refused # {}
    <2>1. Ahead' = Ahead
      BY <1>6 DEF Ahead, Before
    <2> QED
      BY <1>1, <1>4, <1>5, <1>7, <1>9, <2>1 DEF Service!TurnAway
  <1> QED
    BY <1>8, <1>9

\* A job that is not a request, at the end of the queue, changes nobody's place.
LEMMA OtherJobRefined ==
    ASSUME IInv, NEW x \in {"hangup", "sentinel"}, queue' = Append(queue, x),
           UNCHANGED <<job, late>>
    PROVE  /\ Waiting' = Waiting /\ Refused' = Refused
           /\ \A r \in Requesters : Before(r)' = Before(r)
  <1>0. TypeOK /\ x \notin Requesters /\ late \subseteq Requesters
    BY DaemonAssumption DEF IInv, TypeOK, Requesters
  <1>1. /\ \A y : Queued(y)' <=> Queued(y) \/ y = x
        /\ \A q, y : Precedes(q, y)' <=> Precedes(q, y) \/ (y = x /\ Queued(q))
    BY <1>0, QueueAppend
  <1>2. Waiting' = Waiting
    BY <1>0, <1>1 DEF Waiting
  <1>3. Refused' = Refused
    BY <1>0, <1>1 DEF Refused
  <1>4. \A r \in Requesters : Before(r)' = Before(r)
    BY <1>0, <1>1, <1>2 DEF Before
  <1> QED
    BY <1>2, <1>3, <1>4

\* Every step of the daemon is a step of the service or leaves it as it is.
LEMMA StepRefined == IInv /\ [Next]_vars => [Service!Next]_(Service!vars)
  <1> SUFFICES ASSUME IInv, [Next]_vars PROVE Service!Next \/ UNCHANGED Service!vars
    OBVIOUS
  <1>0. /\ TypeOK /\ Submitted /\ Closing /\ Clients \subseteq Requesters
        /\ "consumer" \in Requesters /\ "consumer" \notin late
    BY DEF IInv, Requesters, SelfUnlockNeverLate
  <1>1. ASSUME NEW r \in Requesters, r # job, ~Queued(r), r \notin late, SubmitUnlock(r),
               UNCHANGED <<job, worker, pc>>
        PROVE  Service!Next
    BY <1>1, AskRefined, AskInVainRefined DEF Service!Next
  <1>2. CASE WorkerTake
    BY <1>2, TakeRefined
  <1>3. CASE WorkerFinish
    <2>1. CASE job \in Requesters
      BY <1>3, <2>1, FinishRefined DEF Service!Next
    <2>2. CASE job \notin Requesters
      <3>1. /\ job' = "none" /\ UNCHANGED <<queue, late, reply>> /\ "none" \notin Requesters
            /\ SentinelSent' <=> SentinelSent
        BY <1>3, <2>2, DaemonAssumption DEF WorkerFinish, mainVars, SentinelSent, Requesters
      <3>2. /\ \A x : Queued(x)' <=> Queued(x)
            /\ \A q, x : Precedes(q, x)' <=> Precedes(q, x)
        BY <3>1 DEF Queued, Precedes
      <3>3. Waiting' = Waiting /\ Refused' = Refused
        BY <2>2, <3>1, <3>2 DEF Waiting, Refused
      <3>4. Waiting \subseteq Requesters
        BY DEF Waiting
      <3>5. \A r \in Requesters : Before(r)' = Before(r)
        BY <2>2, <3>1, <3>2, <3>3, <3>4 DEF Before
      <3> QED
        BY <3>1, <3>3, <3>5, Stutters
    <2> QED
      BY <2>1, <2>2
  <1>4. CASE WorkerExit
    BY <1>4, ExitRefined DEF Service!Next
  <1>5. CASE ConsumerTrigger
    <2>1. "consumer" # job /\ ~Queued("consumer")
      BY <1>0, <1>5 DEF ConsumerTrigger, Submitted
    <2> QED
      BY <1>0, <1>1, <1>5, <2>1 DEF ConsumerTrigger, mainVars
  <1>6. ASSUME NEW c \in Clients, Dispatch(c) PROVE Service!Next
    <2>1. c # job /\ ~Queued(c) /\ c \notin late
      BY <1>0, <1>6 DEF Dispatch, Submitted
    <2> QED
      BY <1>0, <1>1, <1>6, <2>1 DEF Dispatch, mainVars
  <1>7. CASE UNCHANGED workVars /\ (SentinelSent' <=> SentinelSent)
    <2>1. UNCHANGED <<queue, job, late, reply>>
      BY <1>7 DEF workVars
    <2>2. /\ Waiting' = Waiting /\ Refused' = Refused
          /\ \A r \in Requesters : Before(r)' = Before(r)
      BY <2>1 DEF Waiting, Refused, Before, Queued, Precedes
    <2> QED
      BY <1>7, <2>1, <2>2, Stutters
  <1>8. CASE TimerSubmit
    <2>1. /\ UNCHANGED <<job, late, reply, worker>> /\ (SentinelSent' <=> SentinelSent)
          /\ queue' = queue \/ queue' = Append(queue, "hangup")
      BY <1>8 DEF TimerSubmit, mainVars, SentinelSent
    <2>2. CASE queue' = queue
      <3>1. UNCHANGED workVars
        BY <1>8, <2>1, <2>2 DEF workVars, TimerSubmit
      <3> QED
        BY <1>7, <2>1, <3>1
    <2>3. CASE queue' = Append(queue, "hangup")
      BY <2>1, <2>3, OtherJobRefined, Stutters
    <2> QED
      BY <2>1, <2>2, <2>3
  <1>9. CASE SendSentinel
    <2>1. /\ UNCHANGED <<job, late, reply>> /\ ~SentinelSent /\ SentinelSent'
          /\ queue' = Append(queue, "sentinel")
      BY <1>0, <1>9 DEF SendSentinel, SentinelSent, Closing, ReceiverAlive
    <2>2. /\ Waiting' = Waiting /\ Refused' = Refused
          /\ \A r \in Requesters : Before(r)' = Before(r)
      BY <2>1, OtherJobRefined
    <2>3. Ahead' = Ahead
      BY <2>2 DEF Ahead, Before
    <2> QED
      BY <2>1, <2>2, <2>3 DEF Service!Next, Service!Shut
  <1> QED
    BY <1>2, <1>3, <1>4, <1>5, <1>6, <1>7, <1>8, <1>9, WorkSteps

\* The worker, the job channel with its sentinel and the reply channels implement
\* UnlockService (the part of ServedInOrder that is about safety): requests are
\* executed once, in the order they were submitted, each answer goes to the one
\* who asked, and only requests after the sentinel are told "unavailable".
THEOREM DaemonImplementsService == Spec => Service!Safety
  <1>1. Init => Service!Init
    <2> SUFFICES ASSUME Init PROVE Service!Init
      OBVIOUS
    <2>1. "none" \notin Requesters
      BY DaemonAssumption DEF Requesters
    <2>2. Waiting = {} /\ Refused = {} /\ ~SentinelSent
      BY <2>1 DEF Init, Waiting, Refused, Queued, SentinelSent
    <2>3. Ahead = [r \in Requesters |-> {}]
      BY <2>2 DEF Ahead
    <2> QED
      BY <2>2, <2>3 DEF Init, Service!Init
  <1>2. IInv /\ [Next]_vars => [Service!Next]_(Service!vars)
    BY StepRefined
  <1> QED
    BY <1>1, <1>2, Inductive, PTL DEF Spec, Service!Safety

=============================================================================
