------------------------- MODULE VideoManagerProofs -------------------------
(***************************************************************************)
(* The slot of the video manager, for any number of sessions, stations,    *)
(* viewers and cleanup threads.  The properties are about what may be late *)
(* (a stop frame, a viewer, a cleanup thread); the invariant says what is  *)
(* true of the session that is in the slot, of the one that is starting    *)
(* and of those that are being torn down.                                  *)
(***************************************************************************)
EXTENDS VideoManager, TLAPS

\* One session at a time holds the lock of the slot, which is empty then.
Slot ==
    /\ \A s \in Sessions : starting = s <=> phase[s] \in {"dialing", "acked"}
    /\ starting # NoSession => current = NoSession
    /\ NoOrphan

\* A teardown is that of a session that was open; it raises the stop flag
\* after the stop frame.
Downs ==
    \A s \in Sessions :
        /\ ended[s] = IF down[s] = "none" THEN 0 ELSE 1
        /\ down[s] # "none" => phase[s] = "open"
        /\ stop[s] => down[s] \in {"awaitDone", "done"}

\* The receiver keeps its socket until it sees the stop flag or loses it.
Sockets ==
    \A s \in Sessions :
        /\ phase[s] = "unused" => socket[s] = "none"
        /\ phase[s] \in {"dialing", "acked"} => socket[s] = "open"
        /\ phase[s] = "open" /\ ~stop[s] => socket[s] \in {"open", "lost"}
        /\ phase[s] # "open" => monitor[s] = "none"

\* Somebody else got the port: the receiver does not hold it any more.
PortPassedOn ==
    \A s, r \in Sessions :
        down[s] = "stopPreview" /\ r \in {current, starting} /\ r # s
            => socket[s] # "open"

\* A handler at work has a session.
Watched == \A v \in Viewers : viewer[v] # "idle" => watching[v] \in Sessions

IInv == /\ TypeOK /\ Slot /\ Downs /\ Sockets /\ PortPassedOn /\ Watched
        /\ StopSparesSuccessor

-----------------------------------------------------------------------------
(* Types.                                                                  *)

\* Every step of a session keeps the types.
LEMMA SessionTypes ==
    ASSUME TypeOK, NEW s \in Sessions, SessionStep(s)
    PROVE  TypeOK'
  <1> USE VideoAssumption DEF TypeOK, slotVars, bufVars, threadVars, cleanVars, exitVars,
                              viewVars, wireVars, downVars
  <1>0. ASSUME SpawnCleanup(s)
        PROVE  /\ cleanup' \in [Threads -> {"none", "spawned", "tearing", "finished"}]
               /\ monitor' = [monitor EXCEPT ![s] = "register"]
    <2>1. PICK k \in Cleanups : cleanup' = [cleanup EXCEPT ![<<s, k>>] = "spawned"]
      BY <1>0, Zenon DEF SpawnCleanup
    <2>2. monitor' = [monitor EXCEPT ![s] = "register"]
      BY <1>0, Zenon DEF SpawnCleanup
    <2> QED
      BY <2>1, <2>2 DEF Threads
  <1>1. CASE StartReuse(s)
    BY <1>1 DEF StartReuse
  <1>2. CASE StartBind(s)
    BY <1>2 DEF StartBind
  <1>3. CASE StartAck(s)
    BY <1>3 DEF StartAck
  <1>4. CASE StartPreviewFails(s)
    BY <1>4 DEF StartPreviewFails
  <1>5. CASE StartRollback(s)
    BY <1>5 DEF StartRollback
  <1>6. CASE StartDone(s)
    BY <1>6 DEF StartDone
  <1>7. CASE StopByUri(s)
    BY <1>7 DEF StopByUri, TakeCurrent
  <1>8. CASE SendStop(s)
    BY <1>8 DEF SendStop
  <1>9. CASE SetStop(s)
    BY <1>9 DEF SetStop
  <1>10. CASE CloseBuffer(s)
    BY <1>10 DEF CloseBuffer
  <1>11. CASE ReceiveIdr(s)
    BY <1>11 DEF ReceiveIdr
  <1>12. CASE RtpFails(s)
    BY <1>12 DEF RtpFails
  <1>13. CASE RtpStops(s)
    BY <1>13 DEF RtpStops
  <1>14. CASE Expire(s)
    BY <1>14 DEF Expire
  <1>15. CASE MonitorStops(s)
    BY <1>15 DEF MonitorStops
  <1>16. CASE MonitorExpires(s)
    BY <1>0, <1>16 DEF MonitorExpires
  <1>17. CASE RegisterCleanup(s)
    BY <1>17 DEF RegisterCleanup, Threads
  <1>18. CASE ReinviteReset(s)
    BY <1>18 DEF ReinviteReset
  <1>19. CASE ReinviteGivesUp(s)
    BY <1>0, <1>19 DEF ReinviteGivesUp
  <1>20. CASE ReinviteCheck(s)
    BY <1>20 DEF ReinviteCheck
  <1>21. CASE ReinviteSend(s)
    BY <1>21 DEF ReinviteSend
  <1> QED
    BY <1>1, <1>2, <1>3, <1>4, <1>5, <1>6, <1>7, <1>8, <1>9, <1>10, <1>11, <1>12, <1>13,
       <1>14, <1>15, <1>16, <1>17, <1>18, <1>19, <1>20, <1>21 DEF SessionStep,
       HandleVideoStart, Start, Teardown, Monitor, Reinvite

\* Every step of a viewer keeps the types.
LEMMA ViewerTypes ==
    ASSUME TypeOK, NEW v \in Viewers, ViewerStep(v)
    PROVE  TypeOK'
  <1> USE VideoAssumption DEF TypeOK, slotVars, bufVars, threadVars, cleanVars, exitVars,
                              viewVars, wireVars, downVars
  <1>1. CASE Open(v)
    BY <1>1 DEF Open
  <1>2. CASE GiveUp(v)
    BY <1>2 DEF GiveUp
  <1>3. CASE Ready(v)
    BY <1>3 DEF Ready, RefreshTtl
  <1>4. CASE Refresh(v)
    BY <1>4 DEF Refresh, RefreshTtl
  <1>5. CASE Fin(v)
    BY <1>5 DEF Fin
  <1>6. CASE WriteFails(v)
    BY <1>6 DEF WriteFails
  <1>7. CASE Disconnected(v)
    BY <1>7 DEF Disconnected
  <1>8. CASE StopById(v)
    BY <1>8 DEF StopById, TakeCurrent
  <1>9. CASE Stall(v) \/ Resume(v)
    BY <1>9 DEF Stall, Resume
  <1> QED
    BY <1>1, <1>2, <1>3, <1>4, <1>5, <1>6, <1>7, <1>8, <1>9 DEF ViewerStep

\* So does every step of a cleanup thread and of shutdown.
LEMMA CleanupTypes ==
    ASSUME TypeOK, NEW t \in Threads, Cleanup(t)
    PROVE  TypeOK'
  <1> USE VideoAssumption DEF TypeOK, slotVars, bufVars, threadVars, cleanVars, exitVars,
                              viewVars, wireVars, downVars
  <1>1. CASE StopInternal(t)
    BY <1>1 DEF StopInternal, TakeCurrent
  <1>2. CASE CleanupReturns(t)
    BY <1>2 DEF CleanupReturns
  <1> QED
    BY <1>1, <1>2 DEF Cleanup

LEMMA ShutdownTypes ==
    ASSUME TypeOK, ShutdownTake \/ Shutdown
    PROVE  TypeOK'
  <1> USE VideoAssumption DEF TypeOK, slotVars, bufVars, threadVars, cleanVars, exitVars,
                              viewVars, wireVars, downVars
  <1>1. CASE ShutdownTake
    BY <1>1 DEF ShutdownTake, TakeCurrent
  <1>2. CASE ShutdownCollect
    BY <1>2 DEF ShutdownCollect
  <1>3. CASE ShutdownJoined
    BY <1>3 DEF ShutdownJoined
  <1>4. CASE ShutdownTimeout
    BY <1>4 DEF ShutdownTimeout
  <1> QED
    BY <1>1, <1>2, <1>3, <1>4 DEF Shutdown

\* Every step of the system keeps the types.
LEMMA Types == TypeOK /\ [Next]_vars => TypeOK'
  <1> SUFFICES ASSUME TypeOK, [Next]_vars PROVE TypeOK'
    OBVIOUS
  <1>1. CASE UNCHANGED vars
    BY <1>1 DEF TypeOK, vars
  <1>2. CASE Ended \/ Over
    BY <1>2, <1>1 DEF Ended, Over
  <1> QED
    BY <1>1, <1>2, SessionTypes, ViewerTypes, CleanupTypes, ShutdownTypes DEF Next

-----------------------------------------------------------------------------
(* The invariant.                                                          *)

\* Nothing has been started.
LEMMA InitIInv == Init => IInv
  <1> SUFFICES ASSUME Init PROVE IInv
    OBVIOUS
  <1>1. TypeOK
    BY VideoAssumption DEF Init, TypeOK
  <1>2. Slot
    BY VideoAssumption DEF Init, Slot, NoOrphan
  <1>3. Downs /\ Sockets /\ PortPassedOn
    BY DEF Init, Downs, Sockets, PortPassedOn
  <1>4. Watched /\ StopSparesSuccessor
    BY DEF Init, Watched, StopSparesSuccessor
  <1> QED
    BY <1>1, <1>2, <1>3, <1>4 DEF IInv

\* What the invariant speaks of.
Core == <<current, starting, phase, stop, socket, monitor, down, ended, hits>>

\* A step that leaves all this alone, and handlers with their sessions, keeps it.
LEMMA QuietIInv ==
    ASSUME IInv, TypeOK', UNCHANGED Core, Watched'
    PROVE  IInv'
  BY DEF IInv, Core, Slot, NoOrphan, Downs, Sockets, PortPassedOn, StopSparesSuccessor

\* The monitor's own steps: it runs only for a session that was opened.
LEMMA MonitorIInv ==
    ASSUME IInv, TypeOK', NEW s \in Sessions, monitor[s] # "none",
           NEW m, monitor' = [monitor EXCEPT ![s] = m],
           UNCHANGED <<current, starting, phase, stop, socket, down, ended, hits,
                       viewer, watching>>
    PROVE  IInv'
  <1>1. Sockets'
    BY DEF IInv, TypeOK, Sockets
  <1> QED
    BY <1>1 DEF IInv, Slot, NoOrphan, Downs, PortPassedOn, StopSparesSuccessor, Watched

\* Whoever takes the session out of the slot begins its only teardown, before
\* anybody else can be in the slot or starting.
LEMMA TakeIInv ==
    ASSUME IInv, TypeOK', NEW s \in Sessions, current = s, LockFree, TakeCurrent(s),
           UNCHANGED <<starting, phase, stop, socket, monitor, hits>>, Watched'
    PROVE  IInv'
  <1>1. /\ phase[s] = "open" /\ down[s] = "none" /\ ended[s] = 0 /\ ~stop[s]
        /\ s # NoSession /\ starting = NoSession
    BY VideoAssumption DEF IInv, Slot, NoOrphan, Downs, LockFree
  <1>2. Slot'
    BY <1>1, VideoAssumption DEF IInv, TypeOK, Slot, NoOrphan, TakeCurrent
  <1>3. Downs'
    BY <1>1 DEF IInv, TypeOK, Downs, TakeCurrent
  <1>4. Sockets'
    BY DEF IInv, Sockets
  <1>5. PortPassedOn'
    BY <1>1, VideoAssumption DEF PortPassedOn, TakeCurrent
  <1>6. StopSparesSuccessor'
    BY DEF IInv, StopSparesSuccessor
  <1> QED
    BY <1>2, <1>3, <1>4, <1>5, <1>6 DEF IInv

\* start: the lock is held from the bind to the end.
LEMMA StartIInv ==
    ASSUME IInv, TypeOK', NEW s \in Sessions, HandleVideoStart(s)
    PROVE  IInv'
  <1> USE VideoAssumption DEF IInv, TypeOK
  <1>0. Watched'
    BY DEF HandleVideoStart, Start, StartReuse, StartBind, StartAck, StartPreviewFails,
           StartRollback, StartDone, Watched, viewVars
  <1>1. CASE StartReuse(s)
    BY <1>0, <1>1, QuietIInv DEF StartReuse, Core, slotVars, threadVars, wireVars, downVars
  <1>2. CASE StartBind(s)
    <2> USE <1>2 DEF StartBind, LockFree, PortFree, wireVars, downVars
    <2>1. Slot'
      BY DEF Slot, NoOrphan
    <2>2. Downs' /\ Sockets'
      BY DEF Downs, Sockets
    <2>3. PortPassedOn'
      BY DEF PortPassedOn, Slot, NoOrphan
    <2>4. StopSparesSuccessor'
      BY DEF StopSparesSuccessor, Sockets
    <2> QED
      BY <1>0, <2>1, <2>2, <2>3, <2>4
  <1>3. CASE StartAck(s)
    <2> USE <1>3 DEF StartAck, threadVars, downVars
    <2>1. Slot'
      BY DEF Slot, NoOrphan
    <2>2. Downs' /\ Sockets'
      BY DEF Downs, Sockets
    <2>3. PortPassedOn' /\ StopSparesSuccessor'
      BY DEF PortPassedOn, StopSparesSuccessor, Sockets
    <2> QED
      BY <1>0, <2>1, <2>2, <2>3
  <1>4. CASE StartPreviewFails(s) \/ StartRollback(s)
    <2> USE <1>4 DEF StartPreviewFails, StartRollback, threadVars, downVars
    <2>1. Slot'
      BY DEF Slot, NoOrphan
    <2>2. Downs' /\ Sockets'
      BY DEF Downs, Sockets
    <2>3. PortPassedOn' /\ StopSparesSuccessor'
      BY DEF PortPassedOn, StopSparesSuccessor, Sockets
    <2> QED
      BY <1>0, <2>1, <2>2, <2>3
  <1>5. CASE StartDone(s)
    <2> USE <1>5 DEF StartDone, wireVars, downVars
    <2>1. Slot'
      BY DEF Slot, NoOrphan, Downs
    <2>2. Downs' /\ Sockets'
      BY DEF Downs, Sockets
    <2>3. PortPassedOn' /\ StopSparesSuccessor'
      BY DEF PortPassedOn, StopSparesSuccessor, Slot
    <2> QED
      BY <1>0, <2>1, <2>2, <2>3
  <1> QED
    BY <1>1, <1>2, <1>3, <1>4, <1>5 DEF HandleVideoStart, Start

\* teardown: the stop frame comes before the stop flag, so a successor that it
\* could hit means that the receiver lost its socket.
LEMMA TeardownIInv ==
    ASSUME IInv, TypeOK', NEW s \in Sessions, Teardown(s)
    PROVE  IInv'
  <1> USE VideoAssumption DEF IInv, TypeOK, slotVars, viewVars
  <1>0. Watched'
    BY DEF Teardown, SendStop, SetStop, CloseBuffer, Watched
  <1>1. CASE SendStop(s)
    <2> USE <1>1 DEF SendStop, threadVars
    <2>1. Slot' /\ Downs'
      BY DEF Slot, NoOrphan, Downs
    <2>2. Sockets' /\ PortPassedOn'
      BY DEF Sockets, PortPassedOn
    <2>3. StopsSuccessor(s) => socket[s] = "lost"
      <3> SUFFICES ASSUME StopsSuccessor(s) PROVE socket[s] = "lost"
        OBVIOUS
      <3>1. PICK r \in Sessions : r \in {current, starting} /\ r # s
        BY DEF StopsSuccessor
      <3>2. socket[s] # "open"
        BY <3>1 DEF PortPassedOn
      <3>3. phase[s] = "open" /\ ~stop[s]
        BY DEF Downs
      <3> QED
        BY <3>2, <3>3 DEF Sockets
    <2>4. StopSparesSuccessor'
      BY <2>3 DEF StopSparesSuccessor
    <2> QED
      BY <1>0, <2>1, <2>2, <2>4
  <1>2. CASE SetStop(s)
    <2> USE <1>2 DEF SetStop, wireVars
    <2>1. Slot' /\ Downs'
      BY DEF Slot, NoOrphan, Downs
    <2>2. Sockets' /\ PortPassedOn'
      BY DEF Sockets, PortPassedOn
    <2>3. StopSparesSuccessor'
      BY DEF StopSparesSuccessor
    <2> QED
      BY <1>0, <2>1, <2>2, <2>3
  <1>3. CASE CloseBuffer(s)
    <2> USE <1>3 DEF CloseBuffer, threadVars, wireVars
    <2>1. Slot' /\ Downs'
      BY DEF Slot, NoOrphan, Downs
    <2>2. Sockets' /\ PortPassedOn'
      BY DEF Sockets, PortPassedOn
    <2>3. StopSparesSuccessor'
      BY DEF StopSparesSuccessor
    <2> QED
      BY <1>0, <2>1, <2>2, <2>3
  <1> QED
    BY <1>1, <1>2, <1>3 DEF Teardown

\* The receiver and the monitor.
LEMMA ThreadIInv ==
    ASSUME IInv, TypeOK', NEW s \in Sessions,
           \/ ReceiveIdr(s) \/ RtpFails(s) \/ RtpStops(s) \/ Expire(s)
           \/ Monitor(s) \/ Reinvite(s)
    PROVE  IInv'
  <1> USE DEF slotVars, threadVars, viewVars, wireVars, downVars
  <1>1. CASE ReceiveIdr(s) \/ Expire(s) \/ ReinviteReset(s)
    <2>1. UNCHANGED Core /\ Watched'
      BY <1>1 DEF ReceiveIdr, Expire, ReinviteReset, Core, IInv, Watched
    <2> QED
      BY <2>1, QuietIInv
  <1>2. CASE RtpFails(s) \/ RtpStops(s)
    <2> USE <1>2 DEF RtpFails, RtpStops, IInv, TypeOK
    <2>1. Slot' /\ Downs' /\ Watched'
      BY DEF Slot, NoOrphan, Downs, Watched
    <2>2. phase[s] = "open"
      BY DEF Sockets, Downs
    <2>3. Sockets'
      BY <2>2 DEF Sockets
    <2>4. PortPassedOn'
      BY DEF PortPassedOn
    <2>5. StopSparesSuccessor'
      BY DEF StopSparesSuccessor
    <2> QED
      BY <2>1, <2>3, <2>4, <2>5
  <1>3. CASE MonitorStops(s)
    BY <1>3, MonitorIInv DEF MonitorStops
  <1>4. CASE MonitorExpires(s) \/ ReinviteGivesUp(s)
    BY <1>4, MonitorIInv DEF MonitorExpires, ReinviteGivesUp, Ticking, SpawnCleanup
  <1>5. CASE RegisterCleanup(s)
    BY <1>5, MonitorIInv DEF RegisterCleanup
  <1>6. CASE ReinviteCheck(s)
    BY <1>6, MonitorIInv DEF ReinviteCheck, Ticking
  <1>7. CASE ReinviteSend(s)
    BY <1>7, MonitorIInv DEF ReinviteSend
  <1> QED
    BY <1>1, <1>2, <1>3, <1>4, <1>5, <1>6, <1>7 DEF Monitor, Reinvite

\* The stream handlers.
LEMMA ViewerIInv ==
    ASSUME IInv, TypeOK', NEW v \in Viewers, ViewerStep(v)
    PROVE  IInv'
  <1> USE VideoAssumption DEF slotVars, threadVars, viewVars, wireVars, downVars
  <1>0. Watched'
    BY DEF IInv, TypeOK, Watched, ViewerStep, Open, GiveUp, Ready, Refresh, Stall,
           Resume, Fin, Running, WriteFails, Disconnected, StopById
  <1>1. CASE ~StopById(v)
    <2>1. UNCHANGED Core
      BY <1>1 DEF ViewerStep, Open, GiveUp, Ready, Refresh, Stall, Resume, Fin,
                  WriteFails, Disconnected, Core
    <2> QED
      BY <1>0, <2>1, QuietIInv
  <1>2. CASE StopById(v)
    <2>1. watching[v] \in Sessions
      BY <1>2 DEF StopById, IInv, Watched
    <2>2. CASE current = watching[v]
      BY <1>0, <1>2, <2>1, <2>2, TakeIInv DEF StopById
    <2>3. CASE current # watching[v]
      BY <1>0, <1>2, <2>3, QuietIInv DEF StopById, Core
    <2> QED
      BY <2>2, <2>3
  <1> QED
    BY <1>1, <1>2

\* A cleanup thread: it takes its own session or nothing.
LEMMA CleanupIInv ==
    ASSUME IInv, TypeOK', NEW t \in Threads, Cleanup(t)
    PROVE  IInv'
  <1> USE DEF slotVars, threadVars, viewVars, wireVars, downVars
  <1>0. Watched' /\ t[1] \in Sessions
    BY DEF Cleanup, StopInternal, CleanupReturns, IInv, Watched, Threads
  <1>1. CASE StopInternal(t) /\ current = t[1]
    BY <1>0, <1>1, TakeIInv DEF StopInternal
  <1>2. CASE StopInternal(t) /\ current # t[1]
    BY <1>0, <1>2, QuietIInv DEF StopInternal, Core
  <1>3. CASE CleanupReturns(t)
    BY <1>0, <1>3, QuietIInv DEF CleanupReturns, Core
  <1> QED
    BY <1>1, <1>2, <1>3 DEF Cleanup

\* shutdown.
LEMMA ShutdownIInv ==
    ASSUME IInv, TypeOK', ShutdownTake \/ Shutdown
    PROVE  IInv'
  <1> USE DEF slotVars, threadVars, viewVars, wireVars, downVars
  <1>0. Watched'
    BY DEF ShutdownTake, Shutdown, ShutdownCollect, ShutdownJoined, ShutdownTimeout,
           IInv, Watched
  <1>1. CASE ShutdownTake /\ current # NoSession
    <2>1. current \in Sessions
      BY <1>1 DEF IInv, TypeOK
    <2> QED
      BY <1>0, <1>1, <2>1, TakeIInv DEF ShutdownTake
  <1>2. CASE ShutdownTake /\ current = NoSession
    BY <1>0, <1>2, QuietIInv DEF ShutdownTake, Core
  <1>3. CASE Shutdown
    BY <1>0, <1>3, QuietIInv DEF Shutdown, ShutdownCollect, ShutdownJoined,
                                 ShutdownTimeout, Core
  <1> QED
    BY <1>1, <1>2, <1>3

LEMMA StepIInv == IInv /\ [Next]_vars => IInv'
  <1> SUFFICES ASSUME IInv, [Next]_vars PROVE IInv'
    OBVIOUS
  <1>0. TypeOK'
    BY Types DEF IInv
  <1>1. CASE UNCHANGED vars
    BY <1>0, <1>1, QuietIInv DEF vars, Core, IInv, Watched
  <1>2. CASE \E s \in Sessions : SessionStep(s)
    <2>1. PICK s \in Sessions : SessionStep(s)
      BY <1>2
    <2>2. CASE StopByUri(s)
      <3>1. Watched'
        BY <2>2 DEF StopByUri, viewVars, IInv, Watched
      <3> QED
        BY <1>0, <2>2, <3>1, TakeIInv DEF StopByUri, threadVars, wireVars
    <2> QED
      BY <1>0, <2>1, <2>2, StartIInv, TeardownIInv, ThreadIInv DEF SessionStep
  <1>3. CASE Ended \/ Over
    BY <1>1, <1>3 DEF Ended, Over
  <1> QED
    BY <1>0, <1>1, <1>2, <1>3, ViewerIInv, CleanupIInv, ShutdownIInv DEF Next

-----------------------------------------------------------------------------
(* The theorems.                                                           *)

LEMMA Invariance == Spec => []IInv
  BY InitIInv, StepIInv, PTL DEF Spec

\* The variables of the manager, its sessions and its handlers keep their types.
THEOREM TypeCorrect == Spec => []TypeOK
  <1>1. IInv => TypeOK
    BY DEF IInv
  <1> QED
    BY Invariance, <1>1, PTL

\* A session that was started (start) and whose teardown has not begun is in the
\* slot, and nothing else is, however many drivers want to end it and however
\* late they come.
THEOREM NoSessionOrphaned == Spec => []NoOrphan
  <1>1. IInv => NoOrphan
    BY DEF IInv, Slot
  <1> QED
    BY Invariance, <1>1, PTL

\* stop, stop_by_id, stop_internal and shutdown between them tear a session down
\* at most once.
THEOREM OneTeardown == Spec => []TeardownOnce
  <1>1. IInv => TeardownOnce
    BY DEF IInv, Downs, TeardownOnce
  <1> QED
    BY Invariance, <1>1, PTL

\* The stop frame of teardown never cuts off the stream of the session that
\* followed on the same station, unless the old receiver lost its socket.
THEOREM SuccessorSpared == Spec => []StopSparesSuccessor
  <1>1. IInv => StopSparesSuccessor
    BY DEF IInv
  <1> QED
    BY Invariance, <1>1, PTL

\* A viewer or a cleanup thread only ever takes its own session out of the slot.
THEOREM BystandersSpared == Spec => NoBystander
  <1> DEFINE A == \A s \in Sessions : current = s /\ current' # s =>
                    /\ viewer' # viewer =>
                          \E v \in Viewers : watching[v] = s /\ viewer[v] = "leaving"
                    /\ cleanup' # cleanup =>
                          \E t \in Threads : t[1] = s /\ cleanup'[t] # cleanup[t]
  <1>1. IInv /\ [Next]_vars => A
    <2> SUFFICES ASSUME IInv, Next, NEW s \in Sessions, current = s, current' # s
                 PROVE  /\ viewer' # viewer =>
                              \E v \in Viewers : watching[v] = s /\ viewer[v] = "leaving"
                        /\ cleanup' # cleanup =>
                              \E t \in Threads : t[1] = s /\ cleanup'[t] # cleanup[t]
      BY DEF vars
    <2> USE DEF slotVars, cleanVars, viewVars
    <2>1. CASE \E r \in Sessions : SessionStep(r)
      <3>1. PICK r \in Sessions : SessionStep(r)
        BY <2>1
      <3>2. starting = NoSession
        BY VideoAssumption DEF IInv, Slot
      <3>3. ~StartDone(r)
        BY <3>2, VideoAssumption DEF StartDone, IInv, Slot
      <3>4. StopByUri(r)
        BY <3>1, <3>3 DEF SessionStep, HandleVideoStart, Start, StartReuse, StartBind,
             StartAck, StartPreviewFails, StartRollback, Teardown, SendStop, SetStop,
             CloseBuffer, ReceiveIdr, RtpFails, RtpStops, Expire, Monitor, MonitorStops,
             MonitorExpires, RegisterCleanup, ReinviteSend, Reinvite, ReinviteReset,
             ReinviteGivesUp, ReinviteCheck
      <3> QED
        BY <3>4 DEF StopByUri
    <2>2. CASE \E t \in Threads : Cleanup(t)
      <3>1. PICK t \in Threads : StopInternal(t) /\ current = t[1]
        BY <2>2 DEF Cleanup, StopInternal, CleanupReturns
      <3>2. viewer' = viewer /\ cleanup'[t] = "tearing" /\ cleanup[t] = "spawned"
        BY <3>1 DEF StopInternal, IInv, TypeOK
      <3> QED
        BY <3>1, <3>2
    <2>3. CASE \E v \in Viewers : ViewerStep(v)
      <3>1. PICK v \in Viewers : StopById(v)
        BY <2>3 DEF ViewerStep, Open, GiveUp, Ready, Refresh, Stall, Resume, Fin,
                    WriteFails, Disconnected
      <3> QED
        BY <3>1 DEF StopById
    <2>4. CASE ShutdownTake \/ Shutdown \/ Ended \/ Over
      BY <2>4 DEF ShutdownTake, Shutdown, ShutdownCollect, ShutdownJoined,
                  ShutdownTimeout, Ended, Over, vars
    <2> QED
      BY <2>1, <2>2, <2>3, <2>4 DEF Next
  <1> QED
    BY Invariance, <1>1, PTL DEF NoBystander, Spec
=============================================================================
