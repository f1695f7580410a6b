--------------------------- MODULE LinkConnection ---------------------------
(***************************************************************************)
(* One Bluetooth connection and the threads that share it (android         *)
(* mesh/LinkConnection.kt and FrameWriter.kt, with the calls of            *)
(* NodeRuntime, ConnectionRegistry and MeshService that reach it).         *)
(*                                                                         *)
(* The coroutine that starts the connection, its read loop, its write loop *)
(* and drain deadline, the calls into the core (one at a time, under the   *)
(* runtime's mutex) and the main thread that stops the service interleave  *)
(* at every access to what they share.  Whoever wins the compare-and-set   *)
(* on tornDown runs the body of shutdown, step by step.                    *)
(*                                                                         *)
(* The frames of one call are a unit of the write queue.  The core's link  *)
(* is kept as whether it is half open, up or closed.                       *)
(***************************************************************************)
EXTENDS Naturals

CONSTANT MaxQueue   \* maxQueuedBytes, in units of the queue

\* The queue of a new connection has room for the HELLO.
ASSUME QueueAssumption == MaxQueue \in Nat \ {0}

VARIABLES
    svc,          \* the service: "up", "stopping", "stopped", "restarted"
    start,        \* where start() is
    named,        \* whether linkId has been assigned
    core,         \* the link in the core: "none", "half", "up", "closed"
    reports,      \* onTransportClosedAsync calls waiting for the mutex
    registered,   \* the connection is in byLinkId
    listed,       \* the link is in establishedFingerprints
    tornDown, coreClosed,
    sd,           \* the shutdown in progress: where, by whom, reportToCore,
                  \* and whether its thread holds the runtime's mutex
    scopeDead,    \* the connection's own scope is cancelled
    socket,       \* "open" or "closed"
    peerGone,     \* the other side or the radio has dropped the socket
    reader,       \* where readLoop is
    w             \* the FrameWriter

registryVars == <<registered, listed>>
shutdownVars == <<tornDown, sd, scopeDead, socket>>
vars == <<svc, start, named, core, reports, registryVars, coreClosed,
          shutdownVars, peerGone, reader, w>>

Init ==
    /\ svc = "up"
    /\ start = "begin"
    /\ named = FALSE
    /\ core = "none"
    /\ reports = 0
    /\ registered = FALSE
    /\ listed = FALSE
    /\ tornDown = FALSE
    /\ coreClosed = FALSE
    /\ sd = [at |-> "none", by |-> "", report |-> FALSE, locked |-> FALSE]
    /\ scopeDead = FALSE
    /\ socket = "open"
    /\ peerGone = FALSE
    /\ reader = "none"
    /\ w = [at |-> "none", queue |-> 0, finishing |-> FALSE, closed |-> FALSE,
            deadline |-> "none"]

Stopped == svc \in {"stopped", "restarted"}
Cancelled == Stopped \/ scopeDead

ShuttingDown == sd.at \notin {"none", "done"}
Free(thread) == ~(ShuttingDown /\ sd.by = thread)
MutexFree == ~(ShuttingDown /\ sd.locked)

-----------------------------------------------------------------------------
(* shutdown *)

Shutdown(thread, report, locked) ==
    IF tornDown
    THEN UNCHANGED <<tornDown, sd>>
    ELSE /\ tornDown' = TRUE
         /\ sd' = [at |-> "close", by |-> thread, report |-> report, locked |-> locked]

\* writer.cancel() and socket.close().
ShutdownClose ==
    /\ sd.at = "close"
    /\ w' = [w EXCEPT !.queue = 0, !.finishing = TRUE,
                      !.deadline = IF @ = "armed" THEN "off" ELSE @]
    /\ socket' = "closed"
    /\ sd' = [sd EXCEPT !.at = "remove"]
    /\ UNCHANGED <<svc, start, named, core, reports, registryVars, coreClosed,
                   tornDown, scopeDead, peerGone, reader>>

\* registry.remove(this): by the link id, which may not be there yet.
ShutdownRemove ==
    /\ sd.at = "remove"
    /\ registered' = (registered /\ ~named)
    /\ listed' = (listed /\ ~named)
    /\ sd' = [sd EXCEPT !.at = "report"]
    /\ UNCHANGED <<svc, start, named, core, reports, coreClosed, tornDown,
                   scopeDead, socket, peerGone, reader, w>>

\* A report under the initial link id is ignored by the core.
ShutdownReport ==
    /\ sd.at = "report"
    /\ reports' = IF sd.report /\ named THEN reports + 1 ELSE reports
    /\ sd' = [sd EXCEPT !.at = "done"]
    /\ scopeDead' = TRUE
    /\ UNCHANGED <<svc, start, named, core, registryVars, coreClosed, tornDown,
                   socket, peerGone, reader, w>>

ShutdownStep == ShutdownClose \/ ShutdownRemove \/ ShutdownReport

-----------------------------------------------------------------------------
(* start and startActive *)

\* ensureActive throws, at the beginning or where the result is awaited.
StartCancelled ==
    /\ start \in {"begin", "open"}
    /\ Stopped
    /\ start' = "over"
    /\ Shutdown("start", TRUE, FALSE)
    /\ UNCHANGED <<svc, named, core, reports, registryVars, coreClosed,
                   scopeDead, socket, peerGone, reader, w>>

StartBegin ==
    /\ start = "begin"
    /\ ~Stopped
    /\ start' = "open"
    /\ UNCHANGED <<svc, named, core, reports, registryVars, coreClosed,
                   shutdownVars, peerGone, reader, w>>

\* runtime.connect, which also writes the HELLO, or runtime.accept.
StartOpen ==
    /\ start = "open"
    /\ MutexFree
    /\ core' = "half"
    /\ w' \in {w, [w EXCEPT !.queue = @ + 1]}
    /\ start' = "name"
    /\ UNCHANGED <<svc, named, reports, registryVars, coreClosed, shutdownVars,
                   peerGone, reader>>

\* The limiter refuses, or the address is unusable.
StartRefused ==
    /\ start = "open"
    /\ MutexFree
    /\ start' = "over"
    /\ Shutdown("start", FALSE, FALSE)
    /\ UNCHANGED <<svc, named, core, reports, registryVars, coreClosed,
                   scopeDead, socket, peerGone, reader, w>>

StartName ==
    /\ start = "name"
    /\ named' = TRUE
    /\ start' = "register"
    /\ UNCHANGED <<svc, core, reports, registryVars, coreClosed, shutdownVars,
                   peerGone, reader, w>>

\* Mutant of StartRegister: the connection is never registered.
StartRegisterForgets ==
    /\ start = "register"
    /\ start' = "check"
    /\ UNCHANGED <<svc, named, core, reports, registryVars, coreClosed, shutdownVars,
                   peerGone, reader, w>>

StartRegister ==
    /\ start = "register"
    /\ registered' = TRUE
    /\ start' = "check"
    /\ UNCHANGED <<svc, named, core, reports, listed, coreClosed, shutdownVars,
                   peerGone, reader, w>>

\* Mutant of StartCheck: tornDown is not looked at again.
StartCheckBlind ==
    /\ start = "check"
    /\ start' = "launch"
    /\ UNCHANGED <<reports, registryVars>>
    /\ UNCHANGED <<svc, named, core, coreClosed, shutdownVars, peerGone, reader, w>>

\* A shutdown that came first did not know the link id: clean up after it.
StartCheck ==
    /\ start = "check"
    /\ IF tornDown
       THEN /\ registered' = FALSE
            /\ listed' = FALSE
            /\ reports' = reports + 1
            /\ start' = "over"
       ELSE /\ start' = "launch"
            /\ UNCHANGED <<reports, registryVars>>
    /\ UNCHANGED <<svc, named, core, coreClosed, shutdownVars, peerGone, reader, w>>

\* ensureActive again, and the two loops are launched.
StartLaunch ==
    /\ start = "launch"
    /\ start' = "over"
    /\ IF Stopped
       THEN Shutdown("start", TRUE, FALSE) /\ UNCHANGED <<reader, w>>
       ELSE /\ reader' = "launched"
            /\ w' = [w EXCEPT !.at = "launched"]
            /\ UNCHANGED <<tornDown, sd>>
    /\ UNCHANGED <<svc, named, core, reports, registryVars, coreClosed,
                   scopeDead, socket, peerGone>>

Start ==
    \/ StartCancelled \/ StartBegin \/ StartOpen \/ StartRefused
    \/ StartName \/ StartRegister \/ StartCheck \/ StartLaunch

-----------------------------------------------------------------------------
(* FrameWriter *)

\* enqueue succeeds.
Accepts == ~w.finishing /\ ~w.closed /\ w.queue < MaxQueue

\* Mutant of Finished: no deadline.
FinishedNoDeadline(wr) ==
    IF wr.finishing \/ wr.closed
    THEN wr
    ELSE [wr EXCEPT !.finishing = TRUE]

\* finish: no more frames, and a deadline for those that are queued.
Finished(wr) ==
    IF wr.finishing \/ wr.closed
    THEN wr
    ELSE [wr EXCEPT !.finishing = TRUE, !.deadline = "armed"]

\* writeFrames, by a thread that holds the runtime's mutex.
WriteFrame(thread) ==
    \/ /\ tornDown \/ coreClosed
       /\ UNCHANGED <<tornDown, sd, w>>
    \/ /\ ~tornDown /\ ~coreClosed /\ Accepts
       /\ w' = [w EXCEPT !.queue = @ + 1]
       /\ UNCHANGED <<tornDown, sd>>
    \/ /\ ~tornDown /\ ~coreClosed /\ ~Accepts
       /\ Shutdown(thread, TRUE, TRUE)
       /\ UNCHANGED w

\* A launched loop starts, unless its scope was cancelled first.
WriterStart ==
    /\ w.at = "launched"
    /\ w' = [w EXCEPT !.at = IF Cancelled THEN "never" ELSE "wait"]
    /\ UNCHANGED <<svc, start, named, core, reports, registryVars, coreClosed,
                   shutdownVars, peerGone, reader>>

\* The loop takes a frame, or leaves: the queue is closed and empty, or the
\* wait for a frame is cancelled.
WriterTake ==
    /\ w.at = "wait"
    /\ \/ w.queue > 0 /\ w' = [w EXCEPT !.at = "write", !.queue = @ - 1]
       \/ w.queue = 0 /\ (w.finishing \/ Cancelled) /\ w' = [w EXCEPT !.at = "leave"]
    /\ UNCHANGED <<svc, start, named, core, reports, registryVars, coreClosed,
                   shutdownVars, peerGone, reader>>

\* The blocking write returns, when the peer takes the bytes ...
WriterWrites ==
    /\ w.at = "write"
    /\ socket = "open"
    /\ ~peerGone
    /\ w' = [w EXCEPT !.at = "wait"]
    /\ UNCHANGED <<svc, start, named, core, reports, registryVars, coreClosed,
                   shutdownVars, peerGone, reader>>

\* ... or it fails, when the socket is closed on either side.
WriterFails ==
    /\ w.at = "write"
    /\ socket = "closed" \/ peerGone
    /\ w' = [w EXCEPT !.at = "leave"]
    /\ UNCHANGED <<svc, start, named, core, reports, registryVars, coreClosed,
                   shutdownVars, peerGone, reader>>

\* closeTransport at the end of run.
WriterLeaves ==
    /\ w.at = "leave"
    /\ w' = [w EXCEPT !.at = "ended", !.closed = TRUE]
    /\ IF w.closed THEN UNCHANGED <<tornDown, sd>> ELSE Shutdown("writer", ~coreClosed, FALSE)
    /\ UNCHANGED <<svc, start, named, core, reports, registryVars, coreClosed,
                   scopeDead, socket, peerGone, reader>>

\* closeTransport after drainTimeoutMs; the deadline lives in the same scope.
DrainDeadline ==
    /\ w.deadline = "armed"
    /\ ~Cancelled
    /\ w' = [w EXCEPT !.deadline = "off", !.closed = TRUE]
    /\ IF w.closed THEN UNCHANGED <<tornDown, sd>> ELSE Shutdown("deadline", ~coreClosed, FALSE)
    /\ UNCHANGED <<svc, start, named, core, reports, registryVars, coreClosed,
                   scopeDead, socket, peerGone, reader>>

WriterReady == WriterStart \/ WriterTake \/ WriterFails \/ WriterLeaves

-----------------------------------------------------------------------------
(* closeFromCore: the link is closed in the core, under its mutex. *)

\* Mutant of CloseFromCore: the loops are left to notice coreClosed.
CloseFromCoreLazily(thread) ==
    /\ core' = "closed"
    /\ coreClosed' = TRUE
    /\ UNCHANGED <<tornDown, sd, w>>

CloseFromCore(thread) ==
    /\ core' = "closed"
    /\ coreClosed' = TRUE
    /\ Shutdown(thread, FALSE, TRUE)
    /\ UNCHANGED w

\* The same call wrote a final frame first, if there was room for it.
CloseFromCoreDraining(thread) ==
    /\ core' = "closed"
    /\ coreClosed' = TRUE
    /\ IF Accepts \/ tornDown
       THEN /\ w' = Finished(IF tornDown THEN w ELSE [w EXCEPT !.queue = @ + 1])
            /\ UNCHANGED <<tornDown, sd>>
       ELSE Shutdown(thread, TRUE, TRUE) /\ UNCHANGED w

-----------------------------------------------------------------------------
(* readLoop *)

ReaderStart ==
    /\ reader = "launched"
    /\ reader' = IF Cancelled THEN "never" ELSE "loop"
    /\ UNCHANGED <<svc, start, named, core, reports, registryVars, coreClosed,
                   shutdownVars, peerGone, w>>

\* The blocking read returns bytes.
ReaderReads ==
    /\ reader = "loop"
    /\ Free("reader")
    /\ ~coreClosed
    /\ socket = "open"
    /\ reader' = "bytes"
    /\ UNCHANGED <<svc, start, named, core, reports, registryVars, coreClosed,
                   shutdownVars, peerGone, w>>

\* It meets the end of the stream or a closed socket.
ReaderEnds ==
    /\ reader = "loop"
    /\ Free("reader")
    /\ ~coreClosed
    /\ socket = "closed" \/ peerGone
    /\ Shutdown("reader", TRUE, FALSE)
    /\ reader' = "finally"
    /\ UNCHANGED <<svc, start, named, core, reports, registryVars, coreClosed,
                   scopeDead, socket, peerGone, w>>

\* The read was under way when the core closed the link.
ReaderEndsLate ==
    /\ reader = "loop"
    /\ Free("reader")
    /\ coreClosed
    /\ socket = "closed" \/ peerGone
    /\ Shutdown("reader", FALSE, FALSE)
    /\ reader' = "finally"
    /\ UNCHANGED <<svc, start, named, core, reports, registryVars, coreClosed,
                   scopeDead, socket, peerGone, w>>

\* The loop's condition; or the wait for the mutex is cancelled.
ReaderStops ==
    /\ Free("reader")
    /\ \/ reader = "loop" /\ coreClosed
       \/ reader = "bytes" /\ Cancelled
    /\ reader' = "finally"
    /\ UNCHANGED <<svc, start, named, core, reports, registryVars, coreClosed,
                   shutdownVars, peerGone, w>>

\* Mutant of ReaderFinally: the connection is torn down in any case.
ReaderFinallyAlways ==
    /\ reader = "finally"
    /\ Free("reader")
    /\ Shutdown("reader", TRUE, FALSE)
    /\ reader' = "ended"
    /\ UNCHANGED <<svc, start, named, core, reports, registryVars, coreClosed,
                   scopeDead, socket, peerGone, w>>

\* After a close by the core the writer or its deadline finishes the teardown.
ReaderFinally ==
    /\ reader = "finally"
    /\ Free("reader")
    /\ IF coreClosed THEN UNCHANGED <<tornDown, sd>> ELSE Shutdown("reader", TRUE, FALSE)
    /\ reader' = "ended"
    /\ UNCHANGED <<svc, start, named, core, reports, registryVars, coreClosed,
                   scopeDead, socket, peerGone, w>>

\* runtime.onBytes for a link that is closed already does nothing.
OnBytesClosed ==
    /\ reader = "bytes"
    /\ MutexFree
    /\ coreClosed \/ core = "closed"
    /\ reader' = "loop"
    /\ UNCHANGED <<svc, start, named, core, reports, registryVars, coreClosed,
                   shutdownVars, peerGone, w>>

\* runtime.onBytes: the core has frames to write; or it establishes the link,
\* which the registry lists and may close as a duplicate, and on which a sync is
\* started otherwise; or it closes the link, silently or with a final frame.
OnBytes ==
    /\ reader = "bytes"
    /\ MutexFree
    /\ ~coreClosed
    /\ core \in {"half", "up"}
    /\ \/ WriteFrame("reader") /\ UNCHANGED <<core, coreClosed, listed>>
       \/ /\ core = "half"
          /\ core' = "up"
          /\ listed' = registered
          /\ \/ registered /\ Shutdown("reader", TRUE, TRUE) /\ UNCHANGED w
             \/ WriteFrame("reader")
          /\ UNCHANGED coreClosed
       \/ CloseFromCore("reader") /\ UNCHANGED listed
       \/ CloseFromCoreDraining("reader") /\ UNCHANGED listed
    /\ reader' = "loop"
    /\ UNCHANGED <<svc, start, named, reports, registered, scopeDead, socket, peerGone>>

ReaderReady ==
    \/ ReaderStart \/ ReaderEnds \/ ReaderEndsLate \/ ReaderStops \/ ReaderFinally
    \/ OnBytesClosed \/ OnBytes

-----------------------------------------------------------------------------
(* Other calls into the core, by other threads. *)

\* A sync session is started on this link.
SyncFrame ==
    /\ core = "up"
    /\ MutexFree
    /\ WriteFrame("other")
    /\ UNCHANGED <<svc, start, named, core, reports, registryVars, coreClosed,
                   scopeDead, socket, peerGone, reader>>

\* Another link to the same peer establishes and the registry closes this one.
Duplicate ==
    /\ listed
    /\ MutexFree
    /\ Shutdown("other", TRUE, TRUE)
    /\ UNCHANGED <<svc, start, named, core, reports, registryVars, coreClosed,
                   scopeDead, socket, peerGone, reader, w>>

\* tick: the handshake or the lifetime of the link is over.
TickExpires ==
    /\ core \in {"half", "up"}
    /\ MutexFree
    /\ svc # "stopped"
    /\ CloseFromCore("tick")
    /\ UNCHANGED <<svc, start, named, reports, registryVars, scopeDead, socket,
                   peerGone, reader>>

\* onTransportClosed: the core closes its link, and closeFromCore finds the
\* connection torn down.
OnTransportClosed ==
    /\ reports > 0
    /\ MutexFree
    /\ reports' = reports - 1
    /\ core' = "closed"
    /\ coreClosed' = TRUE
    /\ UNCHANGED <<svc, start, named, registryVars, shutdownVars, peerGone, reader, w>>

-----------------------------------------------------------------------------
(* The service and the peer. *)

\* onDestroy: shutdownAll over the registered connections ...
ShutdownAll ==
    /\ svc = "up"
    /\ svc' = "stopping"
    /\ IF registered THEN Shutdown("main", TRUE, FALSE) ELSE UNCHANGED <<tornDown, sd>>
    /\ UNCHANGED <<start, named, core, reports, registryVars, coreClosed,
                   scopeDead, socket, peerGone, reader, w>>

\* ... and then super.onDestroy, which cancels the service's scope.
ScopeCancelled ==
    /\ svc = "stopping"
    /\ Free("main")
    /\ svc' = "stopped"
    /\ UNCHANGED <<start, named, core, reports, registryVars, coreClosed,
                   shutdownVars, peerGone, reader, w>>

\* A new service; the connection keeps its old, cancelled, scope.
Restart ==
    /\ svc = "stopped"
    /\ svc' = "restarted"
    /\ UNCHANGED <<start, named, core, reports, registryVars, coreClosed,
                   shutdownVars, peerGone, reader, w>>

PeerCloses ==
    /\ ~peerGone
    /\ peerGone' = TRUE
    /\ UNCHANGED <<svc, start, named, core, reports, registryVars, coreClosed,
                   shutdownVars, reader, w>>

Next ==
    \/ Start \/ ShutdownStep
    \/ WriterReady \/ WriterWrites \/ DrainDeadline
    \/ ReaderReady \/ ReaderReads
    \/ SyncFrame \/ Duplicate \/ TickExpires \/ OnTransportClosed
    \/ ShutdownAll \/ ScopeCancelled \/ Restart \/ PeerCloses

Spec == Init /\ [][Next]_vars

(***************************************************************************)
(* Fairness: threads that can run do, timers fire, and a tick comes once a *)
(* second while a service runs.  Nothing is asked of the peer: a read or a *)
(* write may block for good.  Nor need the service ever stop or restart.   *)
(***************************************************************************)
FairSpec ==
    /\ Spec
    /\ WF_vars(Start) /\ WF_vars(ShutdownStep)
    /\ WF_vars(WriterReady) /\ WF_vars(ReaderReady)
    /\ WF_vars(DrainDeadline) /\ WF_vars(TickExpires)
    /\ WF_vars(OnTransportClosed) /\ WF_vars(ScopeCancelled)

-----------------------------------------------------------------------------
Teardown ==
    [at : {"none", "close", "remove", "report", "done"},
     by : {"", "start", "main", "reader", "writer", "deadline", "tick", "other"},
     report : BOOLEAN, locked : BOOLEAN]

Writer ==
    [at : {"none", "launched", "never", "wait", "write", "leave", "ended"},
     queue : 0..MaxQueue, finishing : BOOLEAN, closed : BOOLEAN,
     deadline : {"none", "armed", "off"}]

\* The variables have their types, and the write queue its limit.
TypeOK ==
    /\ svc \in {"up", "stopping", "stopped", "restarted"}
    /\ start \in {"begin", "open", "name", "register", "check", "launch", "over"}
    /\ core \in {"none", "half", "up", "closed"}
    /\ reports \in 0..2
    /\ named \in BOOLEAN /\ registered \in BOOLEAN /\ listed \in BOOLEAN
    /\ tornDown \in BOOLEAN /\ coreClosed \in BOOLEAN
    /\ scopeDead \in BOOLEAN /\ peerGone \in BOOLEAN
    /\ sd \in Teardown
    /\ socket \in {"open", "closed"}
    /\ reader \in {"none", "launched", "never", "loop", "bytes", "finally", "ended"}
    /\ w \in Writer

AtRest == start = "over" /\ ~ShuttingDown /\ reports = 0

(***************************************************************************)
(* Once a torn-down connection has come to rest, nothing of it is left: no *)
(* open socket, no entry in the registry, no link in the core, whichever   *)
(* threads raced to tear it down and however far start() had come.         *)
(***************************************************************************)
NothingLeft ==
    /\ TypeOK
    /\ AtRest /\ tornDown =>
          /\ socket = "closed"
          /\ ~registered /\ ~listed
          /\ core \in {"none", "closed"}

(***************************************************************************)
(* A link that is up in the core and not torn down is known to the         *)
(* registry as established: the loops start after the registration, so the *)
(* callback onEstablished never misses the connection.                     *)
(***************************************************************************)
EstablishedIsListed == core = "up" /\ ~tornDown => registered /\ listed

(***************************************************************************)
(* The socket of a link that the core closed with a final frame is not     *)
(* closed under the frame: only a deadline, the peer, the service or a     *)
(* duplicate cut the draining short.                                       *)
(***************************************************************************)
FinalFrameFirst ==
    [][socket = "open" /\ socket' = "closed" /\ w.deadline = "armed" =>
        \/ w.queue = 0 /\ w.at # "write"
        \/ peerGone \/ svc # "up"
        \/ sd.by \in {"deadline", "other"}]_vars

(***************************************************************************)
(* A stalled write does not keep the radio: a link the core has closed     *)
(* while the service is up loses its socket, whatever the peer does.       *)
(***************************************************************************)
StalledDrainEnds == (coreClosed /\ svc = "up") ~> (socket = "closed")

\* A connection whose loops were cancelled before they ran.
Orphan == registered /\ reader = "never" /\ w.at = "never"

(***************************************************************************)
(* When the service is stopped and everything has come to rest, no         *)
(* connection of it is left without a thread that would close it ("Tears   *)
(* every connection down (service stop).", shutdownAll).  Not checked: it  *)
(* fails when the loops are cancelled before they have begun.              *)
(***************************************************************************)
StopTearsDown == svc = "stopped" /\ AtRest => ~Orphan

(***************************************************************************)
(* A connection whose loops never ran is removed once a service ticks      *)
(* again: the core's handshake timeout reaches it through closeFromCore.   *)
(***************************************************************************)
OrphansEnd == (Orphan /\ svc = "restarted") ~> (~registered /\ socket = "closed")
=============================================================================
