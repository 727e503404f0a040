---------------------------- MODULE VideoManager ----------------------------
(***************************************************************************)
(* The lifecycle of video sessions (video/session.rs): one slot, `current`,*)
(* filled by start and emptied by whoever ends the session first: an       *)
(* explicit stop, a viewer that leaves, the TTL, failed re-invites, or the *)
(* daemon's shutdown.  Whoever empties the slot runs the teardown, outside *)
(* the lock.  The viewers are the handlers of /video/<id>/stream.flv.      *)
(*                                                                         *)
(* Time is left out: deadlines are flags that time may raise, and a wait   *)
(* with a timeout may end whenever it is on.                               *)
(***************************************************************************)
EXTENDS Naturals, FiniteSets

CONSTANTS
    Sessions,      \* session identities, each used for at most one start
    Outdoors,      \* outdoor stations
    Viewers,       \* stream handlers
    FailThreshold, \* reinvite_fail_threshold
    Cleanups,      \* bound: cleanup threads per session
    MaxCleanups,   \* bound: cleanup threads in a behaviour
    Exits,         \* bound: whether the daemon is shut down
    NoSession      \* the empty slot

ASSUME VideoAssumption ==
    /\ FailThreshold \in Nat \ {0}
    /\ MaxCleanups \in Nat
    /\ Exits \in BOOLEAN
    /\ NoSession \notin Sessions
    /\ Outdoors # {}

VARIABLES
    current,   \* Manager.current
    starting,  \* the session whose start holds the lock of `current`
    phase,     \* per session: unused, dialing, acked, open, failed
    outdoor,   \* per session: Session.outdoor
    expired,   \* per session: ttl_deadline has passed
    idr,       \* per session: FrameBuffer has SPS, PPS and IDR
    closed,    \* per session: FrameBuffer.closed
    stop,      \* per session: Session.stop
    socket,    \* per session: the RTP receiver's socket: none, open, lost, closed
    monitor,   \* per session: the TTL monitor thread
    fired,     \* per session: the monitor's `fired`
    fails,     \* per session: consecutive_failures
    invited,   \* per session: last_reinvite_at is set
    down,      \* per session: where its teardown is
    closing,   \* the session that shutdown tears down itself
    cleanup,   \* per cleanup thread: its state
    registered,\* cleanup threads in Manager.cleanups
    taken,     \* cleanup threads shutdown waits for
    exit,      \* where Manager::shutdown is
    viewer,    \* per viewer: its state
    watching,  \* per viewer: its session
    pushing,   \* history: per outdoor, the session whose 704 it follows
    ended,     \* history: per session, how many teardowns began
    hits       \* history: sessions whose 708 stopped a successor's stream

vars == <<current, starting, phase, outdoor, expired, idr, closed, stop, socket,
          monitor, fired, fails, invited, down, closing, cleanup, registered,
          taken, exit, viewer, watching, pushing, ended, hits>>

slotVars == <<current, starting, phase, outdoor>>
bufVars == <<expired, idr, closed>>
threadVars == <<stop, socket, monitor, fired, fails, invited>>
cleanVars == <<cleanup, registered>>
exitVars == <<closing, taken, exit>>
viewVars == <<viewer, watching>>
wireVars == <<pushing, hits>>
downVars == <<down, ended>>

Threads == Sessions \X Cleanups

Init ==
    /\ current = NoSession
    /\ starting = NoSession
    /\ phase = [s \in Sessions |-> "unused"]
    /\ outdoor \in [Sessions -> Outdoors]
    /\ expired = [s \in Sessions |-> FALSE]
    /\ idr = [s \in Sessions |-> FALSE]
    /\ closed = [s \in Sessions |-> FALSE]
    /\ stop = [s \in Sessions |-> FALSE]
    /\ socket = [s \in Sessions |-> "none"]
    /\ monitor = [s \in Sessions |-> "none"]
    /\ fired = [s \in Sessions |-> FALSE]
    /\ fails = [s \in Sessions |-> 0]
    /\ invited = [s \in Sessions |-> FALSE]
    /\ down = [s \in Sessions |-> "none"]
    /\ closing = NoSession
    /\ cleanup = [t \in Threads |-> "none"]
    /\ registered = {}
    /\ taken = {}
    /\ exit = "no"
    /\ viewer = [v \in Viewers |-> "idle"]
    /\ watching = [v \in Viewers |-> NoSession]
    /\ pushing = [o \in Outdoors |-> NoSession]
    /\ ended = [s \in Sessions |-> 0]
    /\ hits = {}

LockFree == starting = NoSession

\* StreamWriter::run is under way, at its channel or inside a write.
Running(v) == viewer[v] \in {"streaming", "blocked"}

\* consumer_count: close() clears the list.
ConsumerCount(s) ==
    IF closed[s] THEN 0
    ELSE Cardinality({v \in Viewers : Running(v) /\ watching[v] = s})

-----------------------------------------------------------------------------
(* start                                                                   *)

\* Slip: every reuse refreshes the TTL.
StartReuseAlways(s) ==
    /\ LockFree
    /\ current = s
    /\ expired' = [expired EXCEPT ![s] = FALSE]
    /\ UNCHANGED <<slotVars, idr, closed, threadVars, cleanVars, exitVars,
                   viewVars, wireVars, downVars>>

\* The same outdoor again: only a session with a key frame is refreshed.
StartReuse(s) ==
    /\ LockFree
    /\ current = s
    /\ idr[s]
    /\ expired' = [expired EXCEPT ![s] = FALSE]
    /\ UNCHANGED <<slotVars, idr, closed, threadVars, cleanVars, exitVars,
                   viewVars, wireVars, downVars>>

\* bind_udp: the port is free only if no receiver still holds its socket.
PortFree == \A s \in Sessions : socket[s] # "open"

\* The slot is empty and the port could be bound; the lock stays held.
StartBind(s) ==
    /\ LockFree
    /\ current = NoSession
    /\ phase[s] = "unused"
    /\ PortFree
    /\ starting' = s
    /\ phase' = [phase EXCEPT ![s] = "dialing"]
    /\ socket' = [socket EXCEPT ![s] = "open"]
    /\ UNCHANGED <<current, outdoor, bufVars, stop, monitor, fired, fails,
                   invited, cleanVars, exitVars, viewVars, wireVars, downVars>>

\* The station got the req=704 and its ack came back.
StartAck(s) ==
    /\ phase[s] = "dialing"
    /\ phase' = [phase EXCEPT ![s] = "acked"]
    /\ pushing' = [pushing EXCEPT ![outdoor[s]] = s]
    /\ UNCHANGED <<current, starting, outdoor, bufVars, threadVars, cleanVars,
                   exitVars, viewVars, hits, downVars>>

\* start_preview fails, before or after the station got the frame: close the
\* socket, release the lock.
StartPreviewFails(s) ==
    /\ phase[s] = "dialing"
    /\ phase' = [phase EXCEPT ![s] = "failed"]
    /\ socket' = [socket EXCEPT ![s] = "closed"]
    /\ starting' = NoSession
    /\ \/ pushing' = [pushing EXCEPT ![outdoor[s]] = s]
       \/ UNCHANGED pushing
    /\ UNCHANGED <<current, outdoor, bufVars, stop, monitor, fired, fails,
                   invited, cleanVars, exitVars, viewVars, hits, downVars>>

\* No random bytes for the UUID or the SSRC: close the socket, stop the preview.
StartRollback(s) ==
    /\ phase[s] = "acked"
    /\ phase' = [phase EXCEPT ![s] = "failed"]
    /\ socket' = [socket EXCEPT ![s] = "closed"]
    /\ starting' = NoSession
    /\ \/ pushing' = [pushing EXCEPT ![outdoor[s]] = NoSession]
       \/ UNCHANGED pushing
    /\ UNCHANGED <<current, outdoor, bufVars, stop, monitor, fired, fails,
                   invited, cleanVars, exitVars, viewVars, hits, downVars>>

\* The three threads run, the slot is filled, the lock is released.
StartDone(s) ==
    /\ phase[s] = "acked"
    /\ phase' = [phase EXCEPT ![s] = "open"]
    /\ monitor' = [monitor EXCEPT ![s] = "run"]
    /\ current' = s
    /\ starting' = NoSession
    /\ UNCHANGED <<outdoor, bufVars, stop, socket, fired, fails, invited,
                   cleanVars, exitVars, viewVars, wireVars, downVars>>

Start(s) == StartAck(s) \/ StartPreviewFails(s) \/ StartRollback(s) \/ StartDone(s)

\* POST /video/start; a request that is refused or finds the slot taken changes
\* nothing.
HandleVideoStart(s) == StartReuse(s) \/ StartBind(s) \/ Start(s)

-----------------------------------------------------------------------------
(* teardown                                                                *)

\* Empty the slot and begin the teardown of s.
TakeCurrent(s) ==
    /\ current' = NoSession
    /\ down' = [down EXCEPT ![s] = "stopPreview"]
    /\ ended' = [ended EXCEPT ![s] = @ + 1]

\* POST /video/stop for the outdoor of the current session.
StopByUri(s) ==
    /\ LockFree
    /\ current = s
    /\ TakeCurrent(s)
    /\ UNCHANGED <<starting, phase, outdoor, bufVars, threadVars, cleanVars,
                   exitVars, viewVars, wireVars>>

\* The station of s pushes for a later session that is in the slot or starting.
StopsSuccessor(s) ==
    /\ pushing[outdoor[s]] # NoSession
    /\ pushing[outdoor[s]] \in {current, starting} \ {s}

\* Slip: the stop flag is raised before the stop frame is sent.
SendStopAfterFlag(s) ==
    /\ down[s] = "stopPreview"
    /\ \/ /\ ~stop[s]
          /\ stop' = [stop EXCEPT ![s] = TRUE]
          /\ UNCHANGED <<down, pushing, hits>>
       \/ /\ stop[s]
          /\ down' = [down EXCEPT ![s] = "setStop"]
          /\ pushing' = [pushing EXCEPT ![outdoor[s]] = NoSession]
          /\ hits' = IF StopsSuccessor(s) THEN hits \cup {s} ELSE hits
          /\ UNCHANGED stop
    /\ UNCHANGED <<slotVars, bufVars, socket, monitor, fired, fails, invited,
                   cleanVars, exitVars, viewVars, ended>>

\* Step 1: req=708, best effort.  It stops whatever the station is pushing.
SendStop(s) ==
    /\ down[s] = "stopPreview"
    /\ down' = [down EXCEPT ![s] = "setStop"]
    /\ \/ /\ pushing' = [pushing EXCEPT ![outdoor[s]] = NoSession]
          /\ hits' = IF StopsSuccessor(s) THEN hits \cup {s} ELSE hits
       \/ UNCHANGED <<pushing, hits>>
    /\ UNCHANGED <<slotVars, bufVars, threadVars, cleanVars, exitVars,
                   viewVars, ended>>

\* Steps 2 to 4: RTCP BYE, the tail, then the stop flag.
SetStop(s) ==
    /\ down[s] = "setStop"
    /\ down' = [down EXCEPT ![s] = "awaitDone"]
    /\ stop' = [stop EXCEPT ![s] = TRUE]
    /\ UNCHANGED <<slotVars, bufVars, socket, monitor, fired, fails, invited,
                   cleanVars, exitVars, viewVars, wireVars, ended>>

\* Slip: giving up on the threads also gives up on the frame buffer.
CloseBufferUnlessAbandoned(s) ==
    /\ down[s] = "awaitDone"
    /\ down' = [down EXCEPT ![s] = "done"]
    /\ closed' = [closed EXCEPT ![s] = monitor[s] = "gone"]
    /\ UNCHANGED <<slotVars, expired, idr, threadVars, cleanVars, exitVars,
                   viewVars, wireVars, ended>>

\* Step 5, when `done` was received or its wait timed out.
CloseBuffer(s) ==
    /\ down[s] = "awaitDone"
    /\ down' = [down EXCEPT ![s] = "done"]
    /\ closed' = [closed EXCEPT ![s] = TRUE]
    /\ UNCHANGED <<slotVars, expired, idr, threadVars, cleanVars, exitVars,
                   viewVars, wireVars, ended>>

Teardown(s) == SendStop(s) \/ SetStop(s) \/ CloseBuffer(s)

-----------------------------------------------------------------------------
(* The session's threads                                                   *)

\* A complete set of parameter sets and key frame is in the buffer.
ReceiveIdr(s) ==
    /\ socket[s] = "open"
    /\ monitor[s] # "none"
    /\ ~idr[s]
    /\ ~closed[s]
    /\ idr' = [idr EXCEPT ![s] = TRUE]
    /\ UNCHANGED <<slotVars, expired, closed, threadVars, cleanVars, exitVars,
                   viewVars, wireVars, downVars>>

\* recv_from fails for good: the receiver returns and its socket closes.
RtpFails(s) ==
    /\ socket[s] = "open"
    /\ monitor[s] # "none"
    /\ ~stop[s]
    /\ socket' = [socket EXCEPT ![s] = "lost"]
    /\ UNCHANGED <<slotVars, bufVars, stop, monitor, fired, fails, invited,
                   cleanVars, exitVars, viewVars, wireVars, downVars>>

\* The receiver sees the stop flag.
RtpStops(s) ==
    /\ socket[s] = "open"
    /\ stop[s]
    /\ socket' = [socket EXCEPT ![s] = "closed"]
    /\ UNCHANGED <<slotVars, bufVars, stop, monitor, fired, fails, invited,
                   cleanVars, exitVars, viewVars, wireVars, downVars>>

\* The TTL runs out, while the monitor still looks at it.
Expire(s) ==
    /\ phase[s] = "open"
    /\ ~expired[s]
    /\ ~fired[s]
    /\ ~stop[s]
    /\ expired' = [expired EXCEPT ![s] = TRUE]
    /\ UNCHANGED <<slotVars, idr, closed, threadVars, cleanVars, exitVars,
                   viewVars, wireVars, downVars>>

\* The monitor sees the stop flag: join the receiver, send `done`.  Its locals
\* end with it.
MonitorStops(s) ==
    /\ monitor[s] = "run"
    /\ stop[s]
    /\ socket[s] # "open"
    /\ monitor' = [monitor EXCEPT ![s] = "gone"]
    /\ fired' = [fired EXCEPT ![s] = FALSE]
    /\ fails' = [fails EXCEPT ![s] = 0]
    /\ invited' = [invited EXCEPT ![s] = FALSE]
    /\ UNCHANGED <<slotVars, bufVars, stop, socket, cleanVars, exitVars,
                   viewVars, wireVars, downVars>>

\* Spawn a thread that will run stop_internal(s); it is registered afterwards.  The
\* threads of a session are alike: any unused one will do.
SpawnCleanup(s) ==
    /\ Cardinality({t \in Threads : cleanup[t] # "none"}) < MaxCleanups
    /\ \E k \in Cleanups :
          /\ k = CHOOSE j \in Cleanups : cleanup[<<s, j>>] = "none"
          /\ cleanup[<<s, k>>] = "none"
          /\ cleanup' = [cleanup EXCEPT ![<<s, k>>] = "spawned"]
    /\ monitor' = [monitor EXCEPT ![s] = "register"]

\* The TTL has passed at a tick: fire once.
MonitorExpires(s) ==
    /\ monitor[s] = "run"
    /\ ~stop[s]
    /\ ~fired[s]
    /\ expired[s]
    /\ fired' = [fired EXCEPT ![s] = TRUE]
    /\ SpawnCleanup(s)
    /\ UNCHANGED <<slotVars, bufVars, stop, socket, fails, invited, registered,
                   exitVars, viewVars, wireVars, downVars>>

\* register_cleanup: drop the finished ones, add the new one.
RegisterCleanup(s) ==
    /\ monitor[s] = "register"
    /\ monitor' = [monitor EXCEPT ![s] = "run"]
    /\ registered' = {t \in registered \cup ({s} \X Cleanups) :
                         cleanup[t] \notin {"none", "finished"}}
    /\ UNCHANGED <<slotVars, bufVars, stop, socket, fired, fails, invited,
                   cleanup, exitVars, viewVars, wireVars, downVars>>

Ticking(s) == monitor[s] = "run" /\ ~stop[s] /\ ~fired[s] /\ ~expired[s]

\* Nobody watches: forget the re-invite history.
ReinviteReset(s) ==
    /\ Ticking(s)
    /\ ConsumerCount(s) = 0
    /\ invited[s]
    /\ invited' = [invited EXCEPT ![s] = FALSE]
    /\ fails' = [fails EXCEPT ![s] = 0]
    /\ UNCHANGED <<slotVars, bufVars, stop, socket, monitor, fired, cleanVars,
                   exitVars, viewVars, wireVars, downVars>>

\* The last re-invite brought no packet, once too often.
ReinviteGivesUp(s) ==
    /\ Ticking(s)
    /\ ConsumerCount(s) > 0
    /\ invited[s]
    /\ fails[s] + 1 >= FailThreshold
    /\ fails' = [fails EXCEPT ![s] = FailThreshold]
    /\ SpawnCleanup(s)
    /\ UNCHANGED <<slotVars, bufVars, stop, socket, fired, invited, registered,
                   exitVars, viewVars, wireVars, downVars>>

\* RTP is idle and somebody watches: settle the last re-invite, look whether
\* the session is still current, and let go of the lock before dialing.
ReinviteCheck(s) ==
    /\ Ticking(s)
    /\ ConsumerCount(s) > 0
    /\ LockFree
    /\ monitor' = [monitor EXCEPT ![s] = IF current = s THEN "invite" ELSE "run"]
    /\ \/ fails' = [fails EXCEPT ![s] = 0]
       \/ /\ invited[s]
          /\ fails[s] + 1 < FailThreshold
          /\ fails' = [fails EXCEPT ![s] = @ + 1]
    /\ UNCHANGED <<slotVars, bufVars, stop, socket, fired, invited, cleanVars,
                   exitVars, viewVars, wireVars, downVars>>

\* The re-invite: a req=704 that may or may not reach the station.
ReinviteSend(s) ==
    /\ monitor[s] = "invite"
    /\ monitor' = [monitor EXCEPT ![s] = "run"]
    /\ invited' = [invited EXCEPT ![s] = TRUE]
    /\ \/ pushing' = [pushing EXCEPT ![outdoor[s]] = s]
       \/ UNCHANGED pushing
    /\ UNCHANGED <<slotVars, bufVars, stop, socket, fired, fails, cleanVars,
                   exitVars, viewVars, hits, downVars>>

Monitor(s) == \/ MonitorStops(s) \/ MonitorExpires(s) \/ RegisterCleanup(s)
              \/ ReinviteSend(s)

Reinvite(s) == ReinviteReset(s) \/ ReinviteGivesUp(s) \/ ReinviteCheck(s)

\* Slip: stop_internal empties the slot without looking who is in it.
StopInternalUnguarded(t) ==
    /\ cleanup[t] = "spawned"
    /\ LockFree
    /\ cleanup' = [cleanup EXCEPT ![t] = "tearing"]
    /\ TakeCurrent(t[1])
    /\ UNCHANGED <<starting, phase, outdoor, bufVars, threadVars, registered,
                   exitVars, viewVars, wireVars>>

\* stop_internal: whoever does not find its session in the slot is too late.
StopInternal(t) ==
    /\ cleanup[t] = "spawned"
    /\ LockFree
    /\ \/ /\ current = t[1]
          /\ cleanup' = [cleanup EXCEPT ![t] = "tearing"]
          /\ TakeCurrent(t[1])
       \/ /\ current # t[1]
          /\ cleanup' = [cleanup EXCEPT ![t] = "finished"]
          /\ UNCHANGED <<current, downVars>>
    /\ UNCHANGED <<starting, phase, outdoor, bufVars, threadVars, registered,
                   exitVars, viewVars, wireVars>>

CleanupReturns(t) ==
    /\ cleanup[t] = "tearing"
    /\ down[t[1]] = "done"
    /\ cleanup' = [cleanup EXCEPT ![t] = "finished"]
    /\ UNCHANGED <<slotVars, bufVars, threadVars, registered, exitVars,
                   viewVars, wireVars, downVars>>

Cleanup(t) == StopInternal(t) \/ CleanupReturns(t)

-----------------------------------------------------------------------------
(* The stream handlers                                                     *)

\* current_by_id, then wait_idr.
Open(v) ==
    /\ LockFree
    /\ viewer[v] = "idle"
    /\ current # NoSession
    /\ viewer' = [viewer EXCEPT ![v] = "waiting"]
    /\ watching' = [watching EXCEPT ![v] = current]
    /\ UNCHANGED <<slotVars, bufVars, threadVars, cleanVars, exitVars,
                   wireVars, downVars>>

\* wait_idr ran out of time or the buffer is closed: 504 or 503, no refresh.
GiveUp(v) ==
    /\ viewer[v] = "waiting"
    /\ viewer' = [viewer EXCEPT ![v] = "idle"]
    /\ watching' = [watching EXCEPT ![v] = NoSession]
    /\ UNCHANGED <<slotVars, bufVars, threadVars, cleanVars, exitVars,
                   wireVars, downVars>>

RefreshTtl(s) ==
    expired' = IF current = s THEN [expired EXCEPT ![s] = FALSE] ELSE expired

\* All checks passed: refresh the TTL, write the header, subscribe.
Ready(v) ==
    /\ LockFree
    /\ viewer[v] = "waiting"
    /\ idr[watching[v]]
    /\ ~closed[watching[v]]
    /\ viewer' = [viewer EXCEPT ![v] = "streaming"]
    /\ RefreshTtl(watching[v])
    /\ UNCHANGED <<slotVars, idr, closed, threadVars, cleanVars, exitVars,
                   watching, wireVars, downVars>>

\* refresh_ttl_loop, a thread of its own.
Refresh(v) ==
    /\ LockFree
    /\ Running(v)
    /\ RefreshTtl(watching[v])
    /\ UNCHANGED <<slotVars, idr, closed, threadVars, cleanVars, exitVars,
                   viewVars, wireVars, downVars>>

\* The client does not read and the socket's buffer is full: write_all blocks, and
\* the socket has no write timeout.
Stall(v) ==
    /\ viewer[v] = "streaming"
    /\ viewer' = [viewer EXCEPT ![v] = "blocked"]
    /\ UNCHANGED <<slotVars, bufVars, threadVars, cleanVars, exitVars,
                   watching, wireVars, downVars>>

\* It reads again.
Resume(v) ==
    /\ viewer[v] = "blocked"
    /\ viewer' = [viewer EXCEPT ![v] = "streaming"]
    /\ UNCHANGED <<slotVars, bufVars, threadVars, cleanVars, exitVars,
                   watching, wireVars, downVars>>

\* fin_peek_loop sees the FIN and closes the buffer of the whole session, which
\* wakes a handler at its channel but not one inside a write.
Fin(v) ==
    /\ Running(v)
    /\ viewer' = [viewer EXCEPT ![v] = IF @ = "blocked" THEN @ ELSE "leaving"]
    /\ closed' = [closed EXCEPT ![watching[v]] = TRUE]
    /\ UNCHANGED <<slotVars, expired, idr, threadVars, cleanVars, exitVars,
                   watching, wireVars, downVars>>

\* A write fails.
WriteFails(v) ==
    /\ Running(v)
    /\ viewer' = [viewer EXCEPT ![v] = "leaving"]
    /\ UNCHANGED <<slotVars, bufVars, threadVars, cleanVars, exitVars,
                   watching, wireVars, downVars>>

\* The buffer was closed: the channel is disconnected.
Disconnected(v) ==
    /\ viewer[v] \in {"waiting", "streaming"}
    /\ closed[watching[v]]
    /\ viewer' = [viewer EXCEPT ![v] = IF @ = "waiting" THEN "idle" ELSE "leaving"]
    /\ watching' = [watching EXCEPT ![v] = IF viewer[v] = "waiting" THEN NoSession ELSE @]
    /\ UNCHANGED <<slotVars, bufVars, threadVars, cleanVars, exitVars,
                   wireVars, downVars>>

\* Slip: the viewer stops by the outdoor's URI instead of the session's id.
StopByOutdoor(v) ==
    /\ LockFree
    /\ viewer[v] = "leaving"
    /\ viewer' = [viewer EXCEPT ![v] = "idle"]
    /\ watching' = [watching EXCEPT ![v] = NoSession]
    /\ IF current # NoSession /\ outdoor[current] = outdoor[watching[v]]
       THEN TakeCurrent(current)
       ELSE UNCHANGED <<current, downVars>>
    /\ UNCHANGED <<starting, phase, outdoor, bufVars, threadVars, cleanVars,
                   exitVars, wireVars>>

\* The end of serve_video_stream: stop_by_id.
StopById(v) ==
    /\ LockFree
    /\ viewer[v] = "leaving"
    /\ viewer' = [viewer EXCEPT ![v] = "idle"]
    /\ watching' = [watching EXCEPT ![v] = NoSession]
    /\ \/ current = watching[v] /\ TakeCurrent(current)
       \/ current # watching[v] /\ UNCHANGED <<current, downVars>>
    /\ UNCHANGED <<starting, phase, outdoor, bufVars, threadVars, cleanVars,
                   exitVars, wireVars>>

-----------------------------------------------------------------------------
(* shutdown                                                                *)

\* Take the current session, if any, and tear it down first.
ShutdownTake ==
    /\ Exits
    /\ exit = "no"
    /\ LockFree
    /\ exit' = "teardown"
    /\ closing' = current
    /\ \/ current # NoSession /\ TakeCurrent(current)
       \/ current = NoSession /\ UNCHANGED <<current, downVars>>
    /\ UNCHANGED <<starting, phase, outdoor, bufVars, threadVars, cleanVars,
                   taken, viewVars, wireVars>>

\* Then take the registered cleanup threads.
ShutdownCollect ==
    /\ exit = "teardown"
    /\ closing # NoSession => down[closing] = "done"
    /\ exit' = "joining"
    /\ taken' = registered
    /\ registered' = {}
    /\ UNCHANGED <<slotVars, bufVars, threadVars, cleanup, closing,
                   viewVars, wireVars, downVars>>

ShutdownJoined ==
    /\ exit = "joining"
    /\ \A t \in taken : cleanup[t] = "finished"
    /\ exit' = "done"
    /\ UNCHANGED <<slotVars, bufVars, threadVars, cleanVars, closing, taken,
                   viewVars, wireVars, downVars>>

ShutdownTimeout ==
    /\ exit = "joining"
    /\ \E t \in taken : cleanup[t] # "finished"
    /\ exit' = "done"
    /\ UNCHANGED <<slotVars, bufVars, threadVars, cleanVars, closing, taken,
                   viewVars, wireVars, downVars>>

Shutdown == ShutdownCollect \/ ShutdownJoined \/ ShutdownTimeout

\* After shutdown the daemon may end at any time.
Ended == exit = "done" /\ UNCHANGED vars

\* Every session identity has been used up.
Over ==
    /\ \A s \in Sessions : phase[s] = "failed" \/ down[s] = "done"
    /\ UNCHANGED vars

-----------------------------------------------------------------------------
SessionStep(s) ==
    \/ HandleVideoStart(s) \/ StopByUri(s) \/ Teardown(s)
    \/ ReceiveIdr(s) \/ RtpFails(s) \/ RtpStops(s) \/ Expire(s)
    \/ Monitor(s) \/ Reinvite(s)

ViewerStep(v) ==
    \/ Open(v) \/ GiveUp(v) \/ Ready(v) \/ Refresh(v) \/ Stall(v) \/ Resume(v) \/ Fin(v)
    \/ WriteFails(v) \/ Disconnected(v) \/ StopById(v)

Next ==
    \/ \E s \in Sessions : SessionStep(s)
    \/ \E t \in Threads : Cleanup(t)
    \/ \E v \in Viewers : ViewerStep(v)
    \/ ShutdownTake
    \/ Shutdown
    \/ Ended
    \/ Over

Spec == Init /\ [][Next]_vars

\* Threads are scheduled, dials end by their timeouts and time passes.  Nothing is
\* assumed of the clients: a write may block for ever.  A handler whose writes
\* return again and again gets to the end of its channel, which holds a bounded
\* number of units once the buffer is closed (hence SF).
FairSpec ==
    /\ Spec
    /\ \A s \in Sessions :
          /\ WF_vars(Start(s))
          /\ WF_vars(Teardown(s))
          /\ WF_vars(RtpStops(s))
          /\ WF_vars(Expire(s))
          /\ WF_vars(Monitor(s))
    /\ \A t \in Threads : WF_vars(StopInternal(t)) /\ WF_vars(CleanupReturns(t))
    /\ \A v \in Viewers : SF_vars(Disconnected(v)) /\ WF_vars(StopById(v))
    /\ WF_vars(Shutdown)

-----------------------------------------------------------------------------
(* Properties.                                                             *)

\* Type invariant.
TypeOK ==
    /\ current \in Sessions \cup {NoSession}
    /\ starting \in Sessions \cup {NoSession}
    /\ phase \in [Sessions -> {"unused", "dialing", "acked", "open", "failed"}]
    /\ outdoor \in [Sessions -> Outdoors]
    /\ expired \in [Sessions -> BOOLEAN]
    /\ idr \in [Sessions -> BOOLEAN]
    /\ closed \in [Sessions -> BOOLEAN]
    /\ stop \in [Sessions -> BOOLEAN]
    /\ socket \in [Sessions -> {"none", "open", "lost", "closed"}]
    /\ monitor \in [Sessions -> {"none", "run", "register", "invite", "gone"}]
    /\ fired \in [Sessions -> BOOLEAN]
    /\ fails \in [Sessions -> 0..FailThreshold]
    /\ invited \in [Sessions -> BOOLEAN]
    /\ down \in [Sessions -> {"none", "stopPreview", "setStop", "awaitDone", "done"}]
    /\ closing \in Sessions \cup {NoSession}
    /\ cleanup \in [Threads -> {"none", "spawned", "tearing", "finished"}]
    /\ registered \subseteq Threads
    /\ taken \subseteq Threads
    /\ exit \in {"no", "teardown", "joining", "done"}
    /\ viewer \in [Viewers -> {"idle", "waiting", "streaming", "blocked", "leaving"}]
    /\ watching \in [Viewers -> Sessions \cup {NoSession}]
    /\ pushing \in [Outdoors -> Sessions \cup {NoSession}]
    /\ ended \in [Sessions -> Nat]
    /\ hits \subseteq Sessions

\* No driver, however late, empties the slot of a session it does not end: a
\* session that was started and whose teardown has not begun is in the slot,
\* where stop, the TTL and shutdown can find it, and only such a one is.
NoOrphan ==
    \A s \in Sessions : current = s <=> phase[s] = "open" /\ down[s] = "none"

\* stop, stop_by_id, the TTL, failed re-invites and shutdown may all want to
\* end the same session; exactly one of them runs its teardown.
TeardownOnce == \A s \in Sessions : ended[s] <= 1

\* A viewer that leaves, or a TTL or re-invite cleanup, that is delayed past the
\* end of its session never ends the one that followed on the same station.
NoBystander ==
    [][\A s \in Sessions : current = s /\ current' # s =>
          /\ viewer' # viewer =>
                \E v \in Viewers : watching[v] = s /\ viewer[v] = "leaving"
          /\ cleanup' # cleanup =>
                \E t \in Threads : t[1] = s /\ cleanup'[t] # cleanup[t]]_vars

\* The stop frame of an old session never cuts off the stream of its successor
\* on the same station: the successor cannot bind the RTP port before the old
\* receiver has seen the stop flag, which is raised after the stop frame.  (A
\* receiver that died of a socket error has freed the port early: excepted.)
StopSparesSuccessor == \A s \in hits : socket[s] = "lost"

\* A session that never gets a key frame does not pin the only slot, however
\* often clients retry /video/start or open its stream.
DeadSessionLeaves ==
    \A s \in Sessions : (current = s /\ ~idr[s]) ~> (current # s \/ idr[s])

\* The client of v goes on reading: no write to it lasts for ever.
Reads(v) == []<>(viewer[v] # "blocked")

\* Once a teardown begins every handler on that session's stream ends whose client
\* goes on reading, even when the session's threads are given up on: otherwise the
\* HTTP drain of the daemon's shutdown would always run into its timeout.  (A
\* client that stops reading without closing keeps its handler for good.)
ViewersReleased ==
    \A s \in Sessions, v \in Viewers :
        Reads(v) => ((down[s] # "none" /\ watching[v] = s) ~> watching[v] # s)

=============================================================================
