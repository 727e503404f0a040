------------------------------- MODULE Daemon -------------------------------
(***************************************************************************)
(* The threads of the daemon and its shutdown order: the main thread, the  *)
(* single wire-worker and its job queue, the HTTP server with its request  *)
(* handlers, the sniffer threads, the self-unlock consumer, the auto-hangup*)
(* timers and the detached push threads.                                   *)
(*                                                                         *)
(* What happens inside one unlock is module Unlock; here it is one of four *)
(* outcomes.  Debounce and flag gate of the consumer are a free choice,    *)
(* and time is left out: a timeout may fire whenever its wait is on.       *)
(***************************************************************************)
EXTENDS Naturals, Sequences, FiniteSets

CONSTANTS
    Clients,      \* HTTP connections, each with one /unlock request
    Slaves18022,  \* sniffer threads of listen18022, one per interface
    Slaves6672,   \* sniffer threads of listen6672
    Pushes,       \* thread identities for detached pushes
    RingCap,      \* capacity of the subscription channel
    MaxRings,     \* bound: ring frames seen during a behaviour
    NoPush        \* "holds no push handle"

Slaves == Slaves18022 \cup Slaves6672
Requesters == Clients \cup {"consumer"}
Spawners == Requesters \cup Slaves18022

ASSUME DaemonAssumption ==
    /\ RingCap \in Nat \ {0}
    /\ MaxRings \in Nat
    /\ NoPush \notin Pushes
    /\ "consumer" \notin Clients \cup Slaves
    /\ {"hangup", "sentinel", "none"} \cap (Clients \cup {"consumer"}) = {}
    /\ Clients \cap Slaves = {}
    /\ Slaves18022 \cap Slaves6672 = {}

VARIABLES
    signal,    \* SIGNAL_SHUTDOWN
    shutdown,  \* the shared shutdown flag
    pc,        \* where the main thread is in run()
    queue,     \* the job channel
    worker,    \* state of the wire-worker
    job,       \* the job it executes
    lateStart, \* the flag was already set when that job began
    reply,     \* per requester: its one-shot reply channel
    conn,      \* per client: state of its connection
    http,      \* the http8080 thread
    accepting, \* the server's `listener` slot holds a socket
    closing,   \* Server.closing
    timedOut,  \* Server::shutdown returned ShutdownError::Timeout
    sniff,     \* per slave: its recv loop
    rings,     \* ring frames seen so far
    ringQ,     \* frames in the self-unlock subscription channel
    consumer,  \* the self-unlock consumer thread
    timers,    \* hangup timers: waiting, and past their last flag check
    push,      \* per push thread: its state
    holds,     \* per spawner: spawned handle not yet registered
    tracked,   \* live handles in the PushTracker
    taken,     \* live handles join_all waits for
    late       \* history: requesters whose job was submitted after the sentinel

vars == <<signal, shutdown, pc, queue, worker, job, lateStart, reply, conn,
          http, accepting, closing, timedOut, sniff, rings, ringQ, consumer,
          timers, push, holds, tracked, taken, late>>

mainVars == <<signal, shutdown, pc>>
workVars == <<queue, worker, job, lateStart, reply, late>>
httpVars == <<conn, http, accepting, closing, timedOut>>
ringVars == <<sniff, rings, ringQ, consumer, timers>>
pushVars == <<push, holds, tracked, taken>>

Outcome == {"ok", "failed", "canceled", "unavailable"}

SentinelSent == pc \in {"joinWorker", "closeHttp", "drainHttp", "joinHttp",
                        "takePushes", "joinPushes", "exited"}

\* The automation_state and diagnosis pushes are spawned and registered before
\* main enters its loop; a spawn that fails leaves nothing behind.
StartupPushes ==
    \E started \in SUBSET Pushes :
        /\ push = [p \in Pushes |-> IF p \in started THEN "spawned" ELSE "free"]
        /\ tracked = started

Init ==
    /\ signal = FALSE
    /\ shutdown = FALSE
    /\ pc = "loop"
    /\ queue = <<>>
    /\ worker = "idle"
    /\ job = "none"
    /\ lateStart = FALSE
    /\ reply = [r \in Requesters |-> "none"]
    /\ conn = [c \in Clients |-> "out"]
    /\ http = "binding"
    /\ accepting = FALSE
    /\ closing = FALSE
    /\ timedOut = FALSE
    /\ sniff = [s \in Slaves |-> "check"]
    /\ rings = 0
    /\ ringQ = 0
    /\ consumer = "recv"
    /\ timers = [waiting |-> 0, due |-> 0]
    /\ StartupPushes
    /\ holds = [t \in Spawners |-> NoPush]
    /\ taken = {}
    /\ late = {}

-----------------------------------------------------------------------------
(* The job queue and the wire-worker.                                      *)

ReceiverAlive == worker # "exited"

\* submit_job and the wait for the reply: a send to a dead worker fails.
SubmitUnlock(r) ==
    /\ IF ReceiverAlive
       THEN /\ queue' = Append(queue, r)
            /\ reply' = [reply EXCEPT ![r] = "none"]
       ELSE /\ reply' = [reply EXCEPT ![r] = "unavailable"]
            /\ UNCHANGED queue
    /\ late' = IF SentinelSent THEN late \cup {r} ELSE late

\* run_worker receives the next job; the sentinel ends the loop.
WorkerTake ==
    /\ worker = "idle"
    /\ queue # <<>>
    /\ queue' = Tail(queue)
    /\ IF Head(queue) = "sentinel"
       THEN worker' = "stopping" /\ UNCHANGED <<job, lateStart>>
       ELSE /\ worker' = "busy"
            /\ job' = Head(queue)
            /\ lateStart' = shutdown
    /\ UNCHANGED <<mainVars, httpVars, ringVars, pushVars, reply, late>>

\* What execute_unlock returns: no frame was sent if the flag was set at once.
ExecuteUnlock ==
    IF lateStart THEN {"canceled"}
    ELSE {"ok", "failed"} \cup (IF shutdown THEN {"canceled"} ELSE {})

\* Slip: a canceled unlock is not reported back.
WorkerFinishSilent ==
    /\ worker = "busy"
    /\ worker' = "idle"
    /\ job' = "none"
    /\ lateStart' = FALSE
    /\ \/ job = "hangup" /\ UNCHANGED reply
       \/ /\ job \in Requesters
          /\ \E o \in ExecuteUnlock :
                reply' = IF o = "canceled" THEN reply ELSE [reply EXCEPT ![job] = o]
    /\ UNCHANGED <<mainVars, httpVars, ringVars, pushVars, queue, late>>

\* The job is done; an unlock's outcome goes to its requester.
WorkerFinish ==
    /\ worker = "busy"
    /\ worker' = "idle"
    /\ job' = "none"
    /\ lateStart' = FALSE
    /\ \/ job = "hangup" /\ UNCHANGED reply
       \/ /\ job \in Requesters
          /\ \E o \in ExecuteUnlock : reply' = [reply EXCEPT ![job] = o]
    /\ UNCHANGED <<mainVars, httpVars, ringVars, pushVars, queue, late>>

\* The receiver is dropped with what is queued: those reply channels disconnect.
WorkerExit ==
    /\ worker = "stopping"
    /\ worker' = "exited"
    /\ queue' = <<>>
    /\ reply' = [r \in Requesters |->
                    IF \E i \in 1..Len(queue) : queue[i] = r
                    THEN "unavailable" ELSE reply[r]]
    /\ UNCHANGED <<mainVars, httpVars, ringVars, pushVars, job, lateStart,
                   late>>

Worker == WorkerTake \/ WorkerFinish \/ WorkerExit

-----------------------------------------------------------------------------
(* Detached pushes.                                                        *)

FreePushes == {p \in Pushes : push[p] = "free" /\ \A t \in Spawners : holds[t] # p}

\* spawn_push: the thread exists, its handle is not in the tracker yet.  The
\* spawn itself may fail, and then there is nothing to register.
SpawnPush(t) ==
    \/ \E p \in FreePushes :
          /\ push' = [push EXCEPT ![p] = "spawned"]
          /\ holds' = [holds EXCEPT ![t] = p]
    \/ UNCHANGED <<push, holds>>

\* PushTracker::register; a finished thread's handle no longer matters.
Register(t) ==
    /\ holds' = [holds EXCEPT ![t] = NoPush]
    /\ tracked' = IF holds[t] # NoPush /\ push[holds[t]] # "free"
                  THEN tracked \cup {holds[t]} ELSE tracked

PushBegin(p) ==
    /\ push[p] = "spawned"
    /\ push' = [push EXCEPT ![p] = IF shutdown THEN "free" ELSE "sending"]
    /\ tracked' = IF shutdown THEN tracked \ {p} ELSE tracked
    /\ taken' = IF shutdown THEN taken \ {p} ELSE taken
    /\ UNCHANGED <<mainVars, workVars, httpVars, ringVars, holds>>

\* The POST to the home automation server ends (its timeout included).
PushEnd(p) ==
    /\ push[p] = "sending"
    /\ push' = [push EXCEPT ![p] = "free"]
    /\ tracked' = tracked \ {p}
    /\ taken' = taken \ {p}
    /\ UNCHANGED <<mainVars, workVars, httpVars, ringVars, holds>>

Push(p) == PushBegin(p) \/ PushEnd(p)

-----------------------------------------------------------------------------
(* The HTTP server and the /unlock handler.                                *)

ActiveConns == {c \in Clients : conn[c] \in {"reading", "waiting", "closing"}}

Bind ==
    /\ http = "binding"
    /\ \/ http' = "serving" /\ accepting' = TRUE
       \/ http' = "exited" /\ UNCHANGED accepting
    /\ UNCHANGED <<mainVars, workVars, ringVars, pushVars, conn, closing,
                   timedOut>>

BetweenAccepts == http = "serving" /\ \A c \in Clients : conn[c] # "accepted"

\* accept() under the listener lock.
Accept(c) ==
    /\ BetweenAccepts
    /\ accepting
    /\ conn[c] = "out"
    /\ conn' = [conn EXCEPT ![c] = "accepted"]
    /\ UNCHANGED <<mainVars, workVars, ringVars, pushVars, http, accepting,
                   closing, timedOut>>

\* active.fetch_add and the connection thread, after the lock is released.
CountConn(c) ==
    /\ conn[c] = "accepted"
    /\ conn' = [conn EXCEPT ![c] = "reading"]
    /\ UNCHANGED <<mainVars, workVars, ringVars, pushVars, http, accepting,
                   closing, timedOut>>

\* The accept loop ends: the slot is empty or `closing` is set on WouldBlock,
\* or accept fails for another reason.
ServeReturn ==
    /\ BetweenAccepts
    /\ http' = "exited"
    /\ UNCHANGED <<mainVars, workVars, ringVars, pushVars, conn, accepting,
                   closing, timedOut>>

\* The client hangs up or sends no acceptable request.
ClientGone(c) ==
    /\ conn[c] = "reading"
    /\ conn' = [conn EXCEPT ![c] = "closed"]
    /\ UNCHANGED <<mainVars, workVars, ringVars, pushVars, http, accepting,
                   closing, timedOut>>

\* handle_unlock: the request is complete, dispatch it and wait.
Dispatch(c) ==
    /\ conn[c] = "reading"
    /\ conn' = [conn EXCEPT ![c] = "waiting"]
    /\ SubmitUnlock(c)
    /\ UNCHANGED <<mainVars, ringVars, pushVars, worker, job, lateStart, http,
                   accepting, closing, timedOut>>

\* The reply is there; anything but success spawns a push.
Answer(c) ==
    /\ conn[c] = "waiting"
    /\ reply[c] # "none"
    /\ conn' = [conn EXCEPT ![c] = "closing"]
    /\ \/ reply[c] = "ok" /\ UNCHANGED <<push, holds>>
       \/ reply[c] # "ok" /\ SpawnPush(c)
    /\ UNCHANGED <<mainVars, workVars, ringVars, http, accepting, closing,
                   timedOut, tracked, taken>>

\* Register the push, write the response, drop the ActiveGuard.
CloseConn(c) ==
    /\ conn[c] = "closing"
    /\ conn' = [conn EXCEPT ![c] = "closed"]
    /\ Register(c)
    /\ UNCHANGED <<mainVars, workVars, ringVars, http, accepting, closing,
                   timedOut, push, taken>>

Handler(c) == CountConn(c) \/ Answer(c) \/ CloseConn(c)

-----------------------------------------------------------------------------
(* The sniffer threads.                                                    *)

\* Slip: the recv loop does not look at the flag.
SlaveCheckNot(s) ==
    /\ sniff[s] = "check"
    /\ sniff' = [sniff EXCEPT ![s] = "recv"]
    /\ UNCHANGED <<mainVars, workVars, httpVars, pushVars, rings, ringQ,
                   consumer, timers>>

\* Top of the recv loop: look at the flag, then block in recv.
SlaveCheck(s) ==
    /\ sniff[s] = "check"
    /\ sniff' = [sniff EXCEPT ![s] = IF shutdown THEN "exited" ELSE "recv"]
    /\ UNCHANGED <<mainVars, workVars, httpVars, pushVars, rings, ringQ,
                   consumer, timers>>

\* SO_RCVTIMEO wakes the thread, or a frame that is no ring comes in.
SlaveWake(s) ==
    /\ sniff[s] = "recv"
    /\ sniff' = [sniff EXCEPT ![s] = "check"]
    /\ UNCHANGED <<mainVars, workVars, httpVars, pushVars, rings, ringQ,
                   consumer, timers>>

\* A req=704 frame: on_detect spawns the ring push.
SlaveRing(s) ==
    /\ sniff[s] = "recv"
    /\ rings < MaxRings
    /\ rings' = rings + 1
    /\ sniff' = [sniff EXCEPT ![s] = "dispatch"]
    /\ SpawnPush(s)
    /\ UNCHANGED <<mainVars, workVars, httpVars, ringQ, consumer, timers,
                   tracked, taken>>

\* on_detect registers the push; dispatch_to_subs drops the frame if full.
SlaveDispatch(s) ==
    /\ sniff[s] = "dispatch"
    /\ sniff' = [sniff EXCEPT ![s] = "check"]
    /\ Register(s)
    /\ ringQ' = IF consumer # "exited" /\ ringQ < RingCap THEN ringQ + 1 ELSE ringQ
    /\ UNCHANGED <<mainVars, workVars, httpVars, rings, consumer, timers, push,
                   taken>>

\* recv (or the socket setup) fails: run_platform sets the shared flag.
SlaveFail(s) ==
    /\ sniff[s] \in {"check", "recv"}
    /\ ~shutdown
    /\ shutdown' = TRUE
    /\ sniff' = [sniff EXCEPT ![s] = "exited"]
    /\ UNCHANGED <<signal, pc, workVars, httpVars, pushVars, rings, ringQ,
                   consumer, timers>>

Slave(s) == \/ SlaveCheck(s)
            \/ SlaveWake(s)
            \/ s \in Slaves18022 /\ SlaveDispatch(s)

-----------------------------------------------------------------------------
(* The self-unlock consumer and the hangup timers.                         *)

\* handle_ring stops at the flag gate or at the debounce.
ConsumerSkip ==
    /\ consumer = "recv"
    /\ ringQ > 0
    /\ ringQ' = ringQ - 1
    /\ UNCHANGED <<mainVars, workVars, httpVars, pushVars, sniff, rings,
                   consumer, timers>>

ConsumerTrigger ==
    /\ consumer = "recv"
    /\ ringQ > 0
    /\ ringQ' = ringQ - 1
    /\ consumer' = "waiting"
    /\ SubmitUnlock("consumer")
    /\ UNCHANGED <<mainVars, httpVars, pushVars, worker, job, lateStart, sniff,
                   rings, timers>>

\* Only a success is pushed.
ConsumerReply ==
    /\ consumer = "waiting"
    /\ reply["consumer"] # "none"
    /\ \/ reply["consumer"] = "ok" /\ consumer' = "after" /\ SpawnPush("consumer")
       \/ reply["consumer"] # "ok" /\ consumer' = "recv" /\ UNCHANGED <<push, holds>>
    /\ UNCHANGED <<mainVars, workVars, httpVars, sniff, rings, ringQ, timers,
                   tracked, taken>>

\* Register the push; with auto_hangup on, start a hangup timer.
ConsumerAfter ==
    /\ consumer = "after"
    /\ consumer' = "recv"
    /\ Register("consumer")
    /\ \/ timers' = [timers EXCEPT !.waiting = @ + 1]
       \/ UNCHANGED timers
    /\ UNCHANGED <<mainVars, workVars, httpVars, sniff, rings, ringQ, push,
                   taken>>

\* recv_timeout ran out and the flag is set: leave and cancel the subscription.
ConsumerStop ==
    /\ consumer = "recv"
    /\ ringQ = 0
    /\ shutdown
    /\ consumer' = "exited"
    /\ UNCHANGED <<mainVars, workVars, httpVars, pushVars, sniff, rings, ringQ,
                   timers>>

Consumer == \/ ConsumerSkip \/ ConsumerTrigger \/ ConsumerReply
            \/ ConsumerAfter \/ ConsumerStop

\* The delay is over or the flag is set, whichever the thread sees first.
TimerCheck ==
    /\ timers.waiting > 0
    /\ timers' = IF shutdown
                 THEN [timers EXCEPT !.waiting = @ - 1]
                 ELSE [waiting |-> timers.waiting - 1, due |-> timers.due + 1]
    /\ UNCHANGED <<mainVars, workVars, httpVars, pushVars, sniff, rings, ringQ,
                   consumer>>

TimerSubmit ==
    /\ timers.due > 0
    /\ timers' = [timers EXCEPT !.due = @ - 1]
    /\ queue' = IF ReceiverAlive THEN Append(queue, "hangup") ELSE queue
    /\ UNCHANGED <<mainVars, httpVars, pushVars, worker, job, lateStart, reply,
                   late, sniff, rings, ringQ, consumer>>

Timer == TimerCheck \/ TimerSubmit

-----------------------------------------------------------------------------
(* The main thread.                                                        *)

\* The main loop sees the signal or a finished HTTP thread; step 1 of shutdown.
MainObserve ==
    /\ pc = "loop"
    /\ signal \/ http = "exited"
    /\ shutdown' = TRUE
    /\ pc' = "stopVideo"
    /\ UNCHANGED <<signal, workVars, httpVars, ringVars, pushVars>>

\* Step 1v: Manager::shutdown returns within its deadline (module VideoManager).
StopVideo ==
    /\ pc = "stopVideo"
    /\ pc' = "joinListeners"
    /\ UNCHANGED <<signal, shutdown, workVars, httpVars, ringVars, pushVars>>

\* Step 2.
JoinListeners ==
    /\ pc = "joinListeners"
    /\ \A s \in Slaves : sniff[s] = "exited"
    /\ pc' = "joinConsumer"
    /\ UNCHANGED <<signal, shutdown, workVars, httpVars, ringVars, pushVars>>

\* Slip: the consumer is not joined before the sentinel.
JoinConsumerNot ==
    /\ pc = "joinConsumer"
    /\ pc' = "sentinel"
    /\ UNCHANGED <<signal, shutdown, workVars, httpVars, ringVars, pushVars>>

\* Step 2.5.
JoinConsumer ==
    /\ pc = "joinConsumer"
    /\ consumer = "exited"
    /\ pc' = "sentinel"
    /\ UNCHANGED <<signal, shutdown, workVars, httpVars, ringVars, pushVars>>

\* Step 3.
SendSentinel ==
    /\ pc = "sentinel"
    /\ pc' = "joinWorker"
    /\ queue' = IF ReceiverAlive THEN Append(queue, "sentinel") ELSE queue
    /\ UNCHANGED <<signal, shutdown, worker, job, lateStart, reply, late,
                   httpVars, ringVars, pushVars>>

JoinWorker ==
    /\ pc = "joinWorker"
    /\ worker = "exited"
    /\ pc' = "closeHttp"
    /\ UNCHANGED <<signal, shutdown, workVars, httpVars, ringVars, pushVars>>

\* Step 4: Server::shutdown takes the listener, then polls `active`.
CloseHttp ==
    /\ pc = "closeHttp"
    /\ pc' = "drainHttp"
    /\ closing' = TRUE
    /\ accepting' = FALSE
    /\ UNCHANGED <<signal, shutdown, workVars, ringVars, pushVars, conn, http,
                   timedOut>>

\* Slip: the accept loop is joined, the handlers are not waited for.
DrainNothing ==
    /\ pc = "drainHttp"
    /\ pc' = "joinHttp"
    /\ UNCHANGED <<signal, shutdown, workVars, httpVars, ringVars, pushVars>>

DrainHttp ==
    /\ pc = "drainHttp"
    /\ ActiveConns = {}
    /\ pc' = "joinHttp"
    /\ UNCHANGED <<signal, shutdown, workVars, httpVars, ringVars, pushVars>>

DrainTimeout ==
    /\ pc = "drainHttp"
    /\ ActiveConns # {}
    /\ timedOut' = TRUE
    /\ pc' = "joinHttp"
    /\ UNCHANGED <<signal, shutdown, workVars, ringVars, pushVars, conn, http,
                   accepting, closing>>

JoinHttp ==
    /\ pc = "joinHttp"
    /\ http = "exited"
    /\ pc' = "takePushes"
    /\ UNCHANGED <<signal, shutdown, workVars, httpVars, ringVars, pushVars>>

\* Step 5: join_all takes the handles under the lock and joins them outside.
TakePushes ==
    /\ pc = "takePushes"
    /\ pc' = "joinPushes"
    /\ taken' = tracked
    /\ tracked' = {}
    /\ UNCHANGED <<signal, shutdown, workVars, httpVars, ringVars, push,
                   holds>>

\* run() returns and the process ends with whatever threads are left.
JoinPushes ==
    /\ pc = "joinPushes"
    /\ taken = {}
    /\ pc' = "exited"
    /\ UNCHANGED <<signal, shutdown, workVars, httpVars, ringVars, pushVars>>

Main == \/ MainObserve \/ StopVideo \/ JoinListeners \/ JoinConsumer \/ SendSentinel
        \/ JoinWorker \/ CloseHttp \/ DrainHttp \/ DrainTimeout \/ JoinHttp
        \/ TakePushes \/ JoinPushes

\* SIGTERM or SIGINT.
Signal ==
    /\ ~signal
    /\ signal' = TRUE
    /\ UNCHANGED <<shutdown, pc, workVars, httpVars, ringVars, pushVars>>

-----------------------------------------------------------------------------
\* No thread outlives the process.
Alive == pc # "exited"

Exited == ~Alive /\ UNCHANGED vars

Next ==
    \/ Main
    \/ Alive /\ Signal
    \/ Alive /\ Worker
    \/ Alive /\ Consumer
    \/ Alive /\ Timer
    \/ Alive /\ Bind
    \/ Alive /\ ServeReturn
    \/ \E c \in Clients :
          Alive /\ (Accept(c) \/ ClientGone(c) \/ Dispatch(c) \/ Handler(c))
    \/ \E s \in Slaves : Alive /\ (Slave(s) \/ SlaveFail(s))
    \/ \E s \in Slaves18022 : Alive /\ SlaveRing(s)
    \/ \E p \in Pushes : Alive /\ Push(p)
    \/ Exited

Spec == Init /\ [][Next]_vars

\* Threads are scheduled; clients, rings, failures and signals are not promised.
FairSpec ==
    /\ Spec
    /\ WF_vars(Main)
    /\ WF_vars(Alive /\ Worker)
    /\ WF_vars(Alive /\ Consumer)
    /\ WF_vars(Alive /\ Bind)
    /\ WF_vars(Alive /\ closing /\ ServeReturn)
    /\ \A c \in Clients : WF_vars(Alive /\ Handler(c))
    /\ \A s \in Slaves : WF_vars(Alive /\ Slave(s))
    /\ \A p \in Pushes : WF_vars(Alive /\ Push(p))

-----------------------------------------------------------------------------
(* Properties.                                                             *)

\* Type invariant.
TypeOK ==
    /\ signal \in BOOLEAN
    /\ shutdown \in BOOLEAN
    /\ pc \in {"loop", "stopVideo", "joinListeners", "joinConsumer", "sentinel", "joinWorker",
               "closeHttp", "drainHttp", "joinHttp", "takePushes",
               "joinPushes", "exited"}
    /\ queue \in Seq(Requesters \cup {"hangup", "sentinel"})
    /\ worker \in {"idle", "busy", "stopping", "exited"}
    /\ job \in Requesters \cup {"hangup", "none"}
    /\ lateStart \in BOOLEAN
    /\ reply \in [Requesters -> Outcome \cup {"none"}]
    /\ conn \in [Clients ->
                   {"out", "accepted", "reading", "waiting", "closing", "closed"}]
    /\ http \in {"binding", "serving", "exited"}
    /\ accepting \in BOOLEAN
    /\ closing \in BOOLEAN
    /\ timedOut \in BOOLEAN
    /\ sniff \in [Slaves -> {"check", "recv", "dispatch", "exited"}]
    /\ rings \in 0..MaxRings
    /\ ringQ \in 0..RingCap
    /\ consumer \in {"recv", "waiting", "after", "exited"}
    /\ timers \in [waiting : Nat, due : Nat]
    /\ push \in [Pushes -> {"free", "spawned", "sending"}]
    /\ holds \in [Spawners -> Pushes \cup {NoPush}]
    /\ tracked \subseteq Pushes
    /\ taken \subseteq Pushes
    /\ late \subseteq Requesters

\* Joining the consumer before the sentinel (steps 2 and 2.5) means that the
\* self-unlock path never submits to a closing queue: after shutdown it is told
\* "canceled", never "unavailable".
SelfUnlockNeverLate == "consumer" \notin late

\* Step 5 after step 4, "so that no late handler's push gets past it": when the
\* process ends, no push is cut off in the middle of its POST, unless the HTTP
\* drain timed out.
NoPushCutOff ==
    pc = "exited" /\ ~timedOut => \A p \in Pushes : push[p] # "sending"

(***************************************************************************)
(* The worker, its channel with the sentinel and the reply channels        *)
(* implement UnlockService: the requester of the job in execution and those*)
(* before the sentinel wait, in that order; those behind it are refused    *)
(* when the receiver is dropped.  So no job is lost, executed twice, out   *)
(* of turn or answered to someone else, a request is told "unavailable"    *)
(* only if it came after the sentinel, and under fair scheduling nobody    *)
(* waits forever.                                                          *)
(***************************************************************************)
Queued(r) == \E i \in 1..Len(queue) : queue[i] = r
Precedes(q, r) == \E i, j \in 1..Len(queue) : i < j /\ queue[i] = q /\ queue[j] = r
Waiting == {r \in Requesters : r = job \/ (Queued(r) /\ r \notin late)}
Ahead == [r \in Requesters |->
             {q \in Waiting : r \in Waiting /\ r # job /\ (q = job \/ Precedes(q, r))}]
Refused == {r \in late : Queued(r)}
Service == INSTANCE UnlockService WITH
    open <- ~SentinelSent, waiting <- Waiting, ahead <- Ahead, refused <- Refused,
    answer <- reply
ServedInOrder == Service!Spec

\* The fixed join order never deadlocks: after a signal the process ends.
ShutdownCompletes == signal ~> pc = "exited"

\* The comments at the listener threads and at the main loop: a failed listener
\* is not fatal, the daemon goes on in HTTP-only mode.  So as long as nobody
\* asked for a shutdown and the HTTP thread lives, no request is canceled.
ListenerFailureNotFatal ==
    \A r \in Requesters : reply[r] = "canceled" => signal \/ http = "exited"
=============================================================================
