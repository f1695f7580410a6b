-------------------------- MODULE ConnectionProofs --------------------------
(***************************************************************************)
(* The teardown of a connection, for any limit of the write queue: however *)
(* its threads interleave, a connection that is torn down leaves nothing   *)
(* behind, and one that is not is known to the registry.  At the end, the  *)
(* rule by which two nodes close their duplicate connections.              *)
(***************************************************************************)
EXTENDS LinkConnection, DuplicateLinks, FiniteSetTheorems, TLAPS

\* How far start() has come, and what can only be after that.
StartInv ==
    /\ start \in {"begin", "open"} =>
          core = "none" /\ sd.at = "none" /\ w.queue = 0
    /\ start \in {"begin", "open", "name"} => ~named
    /\ start \in {"register", "check", "launch"} => named
    /\ start # "over" => reader = "none" /\ w.at = "none"
    /\ core = "none" <=> ~named /\ start # "name"
    /\ core = "up" => start = "over"
    /\ reports > 0 => named
    /\ start # "over" /\ sd.at # "done" => reports = 0
    /\ start # "over" \/ sd.at # "done" => reports <= 1

\* The shutdown in progress, and who may have begun it.
ShutdownInv ==
    /\ tornDown <=> sd.at # "none"
    /\ tornDown => sd.by # ""
    /\ scopeDead => sd.at = "done"
    /\ socket = "closed" <=> sd.at \in {"remove", "report", "done"}
    /\ tornDown /\ ~sd.report => core \in {"none", "closed"}
    /\ coreClosed => core = "closed"

\* What the registry knows.
RegistryInv ==
    /\ listed => registered
    /\ registered => named /\ start # "register"
    /\ start \in {"check", "launch", "over"} /\ ~tornDown => registered
    /\ registered /\ tornDown /\ start # "check" => sd.at \in {"close", "remove"}
    /\ core = "up" /\ ~tornDown => listed

\* The link of a connection torn down is about to be closed in the core.
CoreInv ==
    tornDown /\ core \in {"half", "up"} /\ start \in {"launch", "over"} =>
        reports > 0 \/ (sd.at # "done" /\ sd.report)

\* What cuts the draining of a final frame short.
Excused ==
    \/ w.queue = 0 /\ w.at # "write"
    \/ peerGone \/ svc # "up"
    \/ sd.by \in {"deadline", "other"}

\* The drain of the final frame.
DrainInv ==
    /\ w.deadline = "armed" => w.finishing /\ coreClosed
    /\ w.at \in {"leave", "ended"} =>
          (w.finishing /\ w.queue = 0) \/ peerGone \/ svc # "up" \/ socket = "closed"
    /\ reader = "bytes" => Free("reader")
    /\ sd.at = "close" =>
          /\ sd.by = "main" => svc # "up"
          /\ sd.by = "start" => svc # "up" \/ core = "none"
          /\ sd.by = "tick" => coreClosed
          /\ sd.by = "writer" => w.closed
    /\ sd.at = "close" /\ w.deadline = "armed" => Excused

\* What the states have in common, their types apart, and with them.
Coherent == StartInv /\ ShutdownInv /\ RegistryInv /\ CoreInv /\ DrainInv

ConnectionInv == TypeOK /\ Coherent

-----------------------------------------------------------------------------

Threads == {"start", "main", "reader", "writer", "deadline", "tick", "other"}

\* The types of what the provers have to compare, without the records.
LEMMA Kinds ==
    ASSUME ConnectionInv
    PROVE  /\ reports \in Nat /\ w.queue \in Nat
           /\ named \in BOOLEAN /\ registered \in BOOLEAN /\ listed \in BOOLEAN
           /\ tornDown \in BOOLEAN /\ coreClosed \in BOOLEAN
           /\ scopeDead \in BOOLEAN /\ peerGone \in BOOLEAN
           /\ sd.report \in BOOLEAN /\ sd.locked \in BOOLEAN
           /\ w.finishing \in BOOLEAN /\ w.closed \in BOOLEAN
<1>1. /\ w.queue \in 0..MaxQueue /\ reports \in 0..2
      /\ sd.report \in BOOLEAN /\ sd.locked \in BOOLEAN
      /\ w.finishing \in BOOLEAN /\ w.closed \in BOOLEAN
  BY ZenonT(40) DEF ConnectionInv, TypeOK, Teardown, Writer
<1>2. w.queue \in Nat /\ reports \in Nat
  BY <1>1, QueueAssumption
<1> QED
  BY <1>1, <1>2 DEF ConnectionInv, TypeOK

\* A call of shutdown: whoever comes first begins it.
Begins(thread, report, locked) ==
    /\ tornDown' = TRUE /\ sd' \in Teardown
    /\ \/ tornDown /\ sd' = sd
       \/ /\ ~tornDown
          /\ sd'.at = "close" /\ sd'.by = thread
          /\ sd'.report = report /\ sd'.locked = locked

LEMMA ShutdownBegins ==
    ASSUME ConnectionInv, NEW thread \in Threads,
           NEW report \in BOOLEAN, NEW locked \in BOOLEAN, Shutdown(thread, report, locked)
    PROVE  Begins(thread, report, locked)
<1>1. CASE tornDown
  BY <1>1 DEF Shutdown, Begins, ConnectionInv, TypeOK
<1>2. CASE ~tornDown
  <2>1. /\ tornDown' = TRUE
        /\ sd' = [at |-> "close", by |-> thread, report |-> report, locked |-> locked]
    BY <1>2 DEF Shutdown
  <2>2. sd' \in Teardown
    BY <2>1, ZenonT(40) DEF Teardown, Threads
  <2> QED
    BY <1>2, <2>1, <2>2 DEF Begins
<1> QED
  BY <1>1, <1>2

-----------------------------------------------------------------------------
(* The steps of shutdown.                                                  *)

LEMMA ShutdownCloseStep == ConnectionInv /\ ShutdownClose => ConnectionInv'
<1> SUFFICES ASSUME ConnectionInv, ShutdownClose PROVE ConnectionInv'
  OBVIOUS
<1>1. /\ sd.at = "close" /\ sd'.at = "remove"
      /\ sd'.by = sd.by /\ sd'.report = sd.report /\ sd'.locked = sd.locked
      /\ w'.at = w.at /\ w'.queue = 0 /\ w'.finishing = TRUE /\ w'.closed = w.closed
      /\ w'.deadline # "armed" /\ socket' = "closed"
      /\ UNCHANGED <<svc, start, named, core, reports, registered, listed,
                    coreClosed, tornDown, scopeDead, peerGone, reader>>
  BY ZenonT(40) DEF ConnectionInv, TypeOK, Teardown, Writer, ShutdownClose, registryVars,
    shutdownVars
<1>2. TypeOK'
  <2>1. sd' \in Teardown
    BY ZenonT(40) DEF ConnectionInv, TypeOK, Teardown, ShutdownClose
  <2>2. w' \in Writer
    <3>1. /\ w \in Writer /\ 0 \in 0..MaxQueue
          /\ (IF w.deadline = "armed" THEN "off" ELSE w.deadline) \in {"none", "armed", "off"}
      BY QueueAssumption DEF ConnectionInv, TypeOK, Writer
    <3> QED
      BY <3>1, ZenonT(40) DEF ShutdownClose, Writer
  <2> QED
    BY <1>1, <2>1, <2>2 DEF ConnectionInv, TypeOK
<1>3. Coherent'
  BY <1>1, Kinds, ZenonT(40) DEF ConnectionInv, Coherent, StartInv, ShutdownInv,
    RegistryInv, CoreInv, DrainInv, Excused, Free, ShuttingDown
<1> QED
  BY <1>2, <1>3 DEF ConnectionInv

LEMMA ShutdownRemoveStep == ConnectionInv /\ ShutdownRemove => ConnectionInv'
<1> SUFFICES ASSUME ConnectionInv, ShutdownRemove PROVE ConnectionInv'
  OBVIOUS
<1>1. /\ sd.at = "remove" /\ sd'.at = "report"
      /\ sd'.by = sd.by /\ sd'.report = sd.report /\ sd'.locked = sd.locked
      /\ registered' = (registered /\ ~named) /\ listed' = (listed /\ ~named)
      /\ UNCHANGED <<svc, start, named, core, reports, coreClosed, tornDown,
                    scopeDead, socket, peerGone, reader, w>>
  BY ZenonT(40) DEF ConnectionInv, TypeOK, Teardown, ShutdownRemove, registryVars,
    shutdownVars
<1>2. TypeOK'
  <2>1. sd' \in Teardown
    BY ZenonT(40) DEF ConnectionInv, TypeOK, Teardown, ShutdownRemove
  <2> QED
    BY <1>1, <2>1 DEF ConnectionInv, TypeOK
<1>3. Coherent'
  BY <1>1, Kinds, ZenonT(40) DEF ConnectionInv, Coherent, StartInv, ShutdownInv,
    RegistryInv, CoreInv, DrainInv, Excused, Free, ShuttingDown
<1> QED
  BY <1>2, <1>3 DEF ConnectionInv

LEMMA ShutdownReportStep == ConnectionInv /\ ShutdownReport => ConnectionInv'
<1> SUFFICES ASSUME ConnectionInv, ShutdownReport PROVE ConnectionInv'
  OBVIOUS
<1>1. /\ sd.at = "report" /\ sd'.at = "done"
      /\ sd'.by = sd.by /\ sd'.report = sd.report /\ sd'.locked = sd.locked
      /\ reports' = IF sd.report /\ named THEN reports + 1 ELSE reports
      /\ scopeDead' = TRUE
      /\ UNCHANGED <<svc, start, named, core, registered, listed, coreClosed,
                    tornDown, socket, peerGone, reader, w>>
  BY ZenonT(40) DEF ConnectionInv, TypeOK, Teardown, ShutdownReport, registryVars,
    shutdownVars
<1>2. TypeOK'
  <2>1. sd' \in Teardown
    BY ZenonT(40) DEF ConnectionInv, TypeOK, Teardown, ShutdownReport
  <2>2. reports' \in 0..2
    BY <1>1, Kinds DEF ConnectionInv, Coherent, StartInv
  <2> QED
    BY <1>1, <2>1, <2>2 DEF ConnectionInv, TypeOK
<1>3. Coherent'
  <2>1. StartInv'
    BY <1>1, Kinds DEF ConnectionInv, Coherent, StartInv
  <2>2. ShutdownInv' /\ RegistryInv'
    BY <1>1, Kinds, ZenonT(40) DEF ConnectionInv, Coherent, ShutdownInv, RegistryInv
  <2>3. CoreInv'
    <3>1. core \in {"half", "up"} /\ start \in {"launch", "over"} => named
      BY DEF ConnectionInv, Coherent, StartInv
    <3>2. reports > 0 \/ (sd.report /\ named) => reports' > 0
      BY <1>1, Kinds
    <3> QED
      BY <1>1, <3>1, <3>2 DEF ConnectionInv, Coherent, CoreInv
  <2>4. DrainInv'
    BY <1>1, Kinds DEF ConnectionInv, Coherent, DrainInv, Excused, Free, ShuttingDown
  <2> QED
    BY <2>1, <2>2, <2>3, <2>4 DEF Coherent
<1> QED
  BY <1>2, <1>3 DEF ConnectionInv

-----------------------------------------------------------------------------
(* The steps of start.                                                     *)

LEMMA StartCancelledStep == ConnectionInv /\ StartCancelled => ConnectionInv'
<1> SUFFICES ASSUME ConnectionInv, StartCancelled PROVE ConnectionInv'
  OBVIOUS
<1>0. Begins("start", TRUE, FALSE)
  BY ShutdownBegins, Kinds, ZenonT(40) DEF StartCancelled, Threads
<1>1. /\ start \in {"begin", "open"} /\ svc # "up" /\ start' = "over"
      /\ UNCHANGED <<svc, named, core, reports, registered, listed,
                    coreClosed, scopeDead, socket, peerGone, reader, w>>
  BY DEF ConnectionInv, TypeOK, StartCancelled, registryVars, shutdownVars,
    Stopped
<1>2. TypeOK'
  BY <1>0, <1>1 DEF Begins, ConnectionInv, TypeOK
<1>3. Coherent'
  BY <1>0, <1>1, Kinds, ZenonT(40) DEF Begins, ConnectionInv, Coherent, StartInv, ShutdownInv,
    RegistryInv, CoreInv, DrainInv, Excused, Free, ShuttingDown
<1> QED
  BY <1>2, <1>3 DEF ConnectionInv

LEMMA StartBeginStep == ConnectionInv /\ StartBegin => ConnectionInv'
<1> SUFFICES ASSUME ConnectionInv, StartBegin PROVE ConnectionInv'
  OBVIOUS
<1>1. /\ start = "begin" /\ start' = "open"
      /\ UNCHANGED <<svc, named, core, reports, registered, listed,
                    coreClosed, tornDown, sd, scopeDead, socket, peerGone, reader, w>>
  BY DEF ConnectionInv, TypeOK, StartBegin, registryVars, shutdownVars
<1>2. TypeOK'
  BY <1>1 DEF ConnectionInv, TypeOK
<1>3. Coherent'
  BY <1>1, Kinds, ZenonT(40) DEF ConnectionInv, Coherent, StartInv, ShutdownInv,
    RegistryInv, CoreInv, DrainInv, Excused, Free, ShuttingDown
<1> QED
  BY <1>2, <1>3 DEF ConnectionInv

LEMMA StartOpenStep == ConnectionInv /\ StartOpen => ConnectionInv'
<1> SUFFICES ASSUME ConnectionInv, StartOpen PROVE ConnectionInv'
  OBVIOUS
<1>1. /\ start = "open" /\ start' = "name" /\ core' = "half"
      /\ w'.at = w.at /\ w'.finishing = w.finishing /\ w'.closed = w.closed
      /\ w'.deadline = w.deadline /\ w'.queue \in {0, 1} /\ w.queue = 0
      /\ UNCHANGED <<svc, named, reports, registered, listed, coreClosed,
                    tornDown, sd, scopeDead, socket, peerGone, reader>>
  BY DEF ConnectionInv, TypeOK, Writer, StartOpen, registryVars, shutdownVars,
    Coherent, StartInv
<1>2. TypeOK'
  <2>1. w' \in Writer
    BY QueueAssumption DEF ConnectionInv, TypeOK, Writer, StartOpen, Coherent,
      StartInv
  <2> QED
    BY <1>1, <2>1 DEF ConnectionInv, TypeOK
<1>3. Coherent'
  BY <1>1, Kinds, ZenonT(40) DEF ConnectionInv, Coherent, StartInv, ShutdownInv,
    RegistryInv, CoreInv, DrainInv, Excused, Free, ShuttingDown
<1> QED
  BY <1>2, <1>3 DEF ConnectionInv

LEMMA StartRefusedStep == ConnectionInv /\ StartRefused => ConnectionInv'
<1> SUFFICES ASSUME ConnectionInv, StartRefused PROVE ConnectionInv'
  OBVIOUS
<1>0. Begins("start", FALSE, FALSE)
  BY ShutdownBegins, Kinds, ZenonT(40) DEF StartRefused, Threads
<1>1. /\ start = "open" /\ start' = "over"
      /\ UNCHANGED <<svc, named, core, reports, registered, listed,
                    coreClosed, scopeDead, socket, peerGone, reader, w>>
  BY DEF ConnectionInv, TypeOK, StartRefused, registryVars, shutdownVars
<1>2. TypeOK'
  BY <1>0, <1>1 DEF Begins, ConnectionInv, TypeOK
<1>3. Coherent'
  BY <1>0, <1>1, Kinds, ZenonT(40) DEF Begins, ConnectionInv, Coherent, StartInv, ShutdownInv,
    RegistryInv, CoreInv, DrainInv, Excused, Free, ShuttingDown
<1> QED
  BY <1>2, <1>3 DEF ConnectionInv

LEMMA StartNameStep == ConnectionInv /\ StartName => ConnectionInv'
<1> SUFFICES ASSUME ConnectionInv, StartName PROVE ConnectionInv'
  OBVIOUS
<1>1. /\ start = "name" /\ start' = "register" /\ named' = TRUE
      /\ UNCHANGED <<svc, core, reports, registered, listed, coreClosed,
                    tornDown, sd, scopeDead, socket, peerGone, reader, w>>
  BY DEF ConnectionInv, TypeOK, StartName, registryVars, shutdownVars
<1>2. TypeOK'
  BY <1>1 DEF ConnectionInv, TypeOK
<1>3. Coherent'
  BY <1>1, Kinds, ZenonT(40) DEF ConnectionInv, Coherent, StartInv, ShutdownInv,
    RegistryInv, CoreInv, DrainInv, Excused, Free, ShuttingDown
<1> QED
  BY <1>2, <1>3 DEF ConnectionInv

LEMMA StartRegisterStep == ConnectionInv /\ StartRegister => ConnectionInv'
<1> SUFFICES ASSUME ConnectionInv, StartRegister PROVE ConnectionInv'
  OBVIOUS
<1>1. /\ start = "register" /\ start' = "check" /\ registered' = TRUE
      /\ UNCHANGED <<svc, named, core, reports, listed, coreClosed, tornDown,
                    sd, scopeDead, socket, peerGone, reader, w>>
  BY DEF ConnectionInv, TypeOK, StartRegister, registryVars, shutdownVars
<1>2. TypeOK'
  BY <1>1 DEF ConnectionInv, TypeOK
<1>3. Coherent'
  BY <1>1, Kinds, ZenonT(40) DEF ConnectionInv, Coherent, StartInv, ShutdownInv,
    RegistryInv, CoreInv, DrainInv, Excused, Free, ShuttingDown
<1> QED
  BY <1>2, <1>3 DEF ConnectionInv

LEMMA StartCheckStep == ConnectionInv /\ StartCheck => ConnectionInv'
<1> SUFFICES ASSUME ConnectionInv, StartCheck PROVE ConnectionInv'
  OBVIOUS
<1>1. /\ start = "check"
      /\ UNCHANGED <<svc, named, core, coreClosed, tornDown, sd, scopeDead, socket,
                     peerGone, reader, w>>
  BY DEF StartCheck, shutdownVars
<1>2. CASE tornDown
  <2>1. /\ registered' = FALSE /\ listed' = FALSE
        /\ reports' = reports + 1 /\ start' = "over"
    BY <1>2 DEF StartCheck
  <2>2. reports' \in 0..2 /\ reports' > 0
    BY <1>1, <2>1, Kinds DEF ConnectionInv, Coherent, StartInv
  <2>3. TypeOK'
    <3>1. start' = "over" /\ registered' \in BOOLEAN /\ listed' \in BOOLEAN
      BY <2>1, ZenonT(40)
    <3> QED
      BY <1>1, <2>2, <3>1 DEF ConnectionInv, TypeOK
  <2>4. StartInv'
    BY <1>1, <2>1, Kinds DEF ConnectionInv, Coherent, StartInv
  <2>5. ShutdownInv' /\ RegistryInv' /\ CoreInv' /\ DrainInv'
    BY <1>1, <1>2, <2>1, <2>2, Kinds, ZenonT(40) DEF ConnectionInv, Coherent, StartInv, ShutdownInv,
      RegistryInv, CoreInv, DrainInv, Excused, Free, ShuttingDown
  <2> QED
    BY <2>3, <2>4, <2>5 DEF ConnectionInv, Coherent
<1>3. CASE ~tornDown
  <2>1. start' = "launch" /\ UNCHANGED <<reports, registered, listed>>
    BY <1>3 DEF StartCheck, registryVars
  <2>2. TypeOK'
    BY <1>1, <2>1 DEF ConnectionInv, TypeOK
  <2>3. Coherent'
    BY <1>1, <1>3, <2>1, Kinds, ZenonT(40) DEF ConnectionInv, Coherent, StartInv, ShutdownInv,
      RegistryInv, CoreInv, DrainInv, Excused, Free, ShuttingDown
  <2> QED
    BY <2>2, <2>3 DEF ConnectionInv
<1> QED
  BY <1>2, <1>3

LEMMA StartLaunchStep == ConnectionInv /\ StartLaunch => ConnectionInv'
<1> SUFFICES ASSUME ConnectionInv, StartLaunch PROVE ConnectionInv'
  OBVIOUS
<1>1. /\ start = "launch" /\ start' = "over"
      /\ UNCHANGED <<svc, named, core, reports, registered, listed, coreClosed,
                     scopeDead, socket, peerGone>>
  BY DEF StartLaunch, registryVars
<1>2. CASE Stopped
  <2>1. Begins("start", TRUE, FALSE) /\ svc # "up" /\ UNCHANGED <<reader, w>>
    BY <1>2, ShutdownBegins, ZenonT(40) DEF StartLaunch, Threads, Stopped
  <2>2. TypeOK'
    BY <1>1, <2>1 DEF Begins, ConnectionInv, TypeOK
  <2>3. Coherent'
    BY <1>1, <2>1, Kinds, ZenonT(40) DEF Begins, ConnectionInv, Coherent, StartInv, ShutdownInv,
      RegistryInv, CoreInv, DrainInv, Excused, Free, ShuttingDown
  <2> QED
    BY <2>2, <2>3 DEF ConnectionInv
<1>3. CASE ~Stopped
  <2>1. /\ reader' = "launched" /\ UNCHANGED <<tornDown, sd>>
        /\ w' = [w EXCEPT !.at = "launched"]
    BY <1>3 DEF StartLaunch
  <2>2. /\ w'.at = "launched" /\ w'.queue = w.queue /\ w'.finishing = w.finishing
        /\ w'.closed = w.closed /\ w'.deadline = w.deadline /\ w' \in Writer
    BY <2>1 DEF ConnectionInv, TypeOK, Writer
  <2>3. TypeOK'
    BY <1>1, <2>1, <2>2 DEF ConnectionInv, TypeOK
  <2>4. reader' = "launched" /\ UNCHANGED <<tornDown, sd>>
    BY <2>1, Zenon
  <2>5. Coherent'
    BY <1>1, <2>2, <2>4, Kinds, ZenonT(40) DEF ConnectionInv, Coherent, StartInv, ShutdownInv,
      RegistryInv, CoreInv, DrainInv, Excused, Free, ShuttingDown
  <2> QED
    BY <2>3, <2>5 DEF ConnectionInv
<1> QED
  BY <1>2, <1>3

-----------------------------------------------------------------------------
(* The writer.                                                             *)

LEMMA WriterStartStep == ConnectionInv /\ WriterStart => ConnectionInv'
<1> SUFFICES ASSUME ConnectionInv, WriterStart PROVE ConnectionInv'
  OBVIOUS
<1>1. /\ w.at = "launched" /\ w'.at \in {"never", "wait"} /\ w'.queue = w.queue
      /\ w'.finishing = w.finishing /\ w'.closed = w.closed /\ w'.deadline = w.deadline
      /\ UNCHANGED <<svc, start, named, core, reports, registered, listed,
                    coreClosed, tornDown, sd, scopeDead, socket, peerGone, reader>>
  BY DEF ConnectionInv, TypeOK, Writer, WriterStart, registryVars, shutdownVars
<1>2. TypeOK'
  <2>1. w' \in Writer
    BY QueueAssumption DEF ConnectionInv, TypeOK, Writer, WriterStart
  <2> QED
    BY <1>1, <2>1 DEF ConnectionInv, TypeOK
<1>3. Coherent'
  <2>1. StartInv' /\ ShutdownInv'
    BY <1>1, Kinds, ZenonT(40) DEF ConnectionInv, Coherent, StartInv, ShutdownInv
  <2>2. RegistryInv' /\ CoreInv'
    BY <1>1, Kinds, ZenonT(40) DEF ConnectionInv, Coherent, StartInv, ShutdownInv,
      RegistryInv, CoreInv
  <2>3. DrainInv'
    BY <1>1, Kinds, ZenonT(40) DEF ConnectionInv, Coherent, ShutdownInv, DrainInv,
      Excused, Free, ShuttingDown
  <2> QED
    BY <2>1, <2>2, <2>3 DEF Coherent
<1> QED
  BY <1>2, <1>3 DEF ConnectionInv

LEMMA WriterTakeStep == ConnectionInv /\ WriterTake => ConnectionInv'
<1> SUFFICES ASSUME ConnectionInv, WriterTake PROVE ConnectionInv'
  OBVIOUS
<1>1. /\ w.at = "wait" /\ w \in Writer /\ w.queue \in 0..MaxQueue
      /\ UNCHANGED <<svc, start, named, core, reports, registered, listed, coreClosed,
                     tornDown, sd, scopeDead, socket, peerGone, reader>>
  BY DEF WriterTake, ConnectionInv, TypeOK, Writer, registryVars, shutdownVars
<1>2. CASE w.queue > 0 /\ w' = [w EXCEPT !.at = "write", !.queue = @ - 1]
  <2>0. w.queue # 0
    BY <1>1, <1>2
  <2>1. w.queue - 1 \in 0..MaxQueue
    BY <1>1, <1>2, QueueAssumption
  <2>2. /\ w' \in Writer /\ w'.at = "write"
        /\ w'.finishing = w.finishing /\ w'.closed = w.closed /\ w'.deadline = w.deadline
    BY <1>1, <1>2, <2>1, ZenonT(40) DEF Writer
  <2>3. TypeOK'
    BY <1>1, <2>2 DEF ConnectionInv, TypeOK
  <2>4. start = "over"
    BY <1>1 DEF ConnectionInv, Coherent, StartInv
  <2>5. Coherent'
    <3>1. StartInv' /\ ShutdownInv'
      BY <1>1, <2>0, <2>2, <2>4, Kinds, ZenonT(40) DEF ConnectionInv, Coherent, StartInv, ShutdownInv
    <3>2. RegistryInv' /\ CoreInv'
      BY <1>1, <2>0, <2>2, <2>4, Kinds, ZenonT(40) DEF ConnectionInv, Coherent, StartInv, ShutdownInv,
        RegistryInv, CoreInv
    <3>3. DrainInv'
      BY <1>1, <2>0, <2>2, <2>4, Kinds, ZenonT(40) DEF ConnectionInv, Coherent, ShutdownInv, DrainInv,
        Excused, Free, ShuttingDown
    <3> QED
      BY <3>1, <3>2, <3>3 DEF Coherent
  <2> QED
    BY <2>3, <2>5 DEF ConnectionInv
<1>3. CASE w.queue = 0 /\ (w.finishing \/ Cancelled) /\ w' = [w EXCEPT !.at = "leave"]
  <2>1. w.finishing \/ svc # "up" \/ scopeDead
    BY <1>3 DEF Cancelled, Stopped
  <2>2. /\ w' \in Writer /\ w'.at = "leave" /\ w'.queue = 0
        /\ w'.finishing = w.finishing /\ w'.closed = w.closed /\ w'.deadline = w.deadline
    BY <1>1, <1>3 DEF Writer
  <2>3. TypeOK'
    BY <1>1, <2>2 DEF ConnectionInv, TypeOK
  <2>4. start = "over"
    BY <1>1 DEF ConnectionInv, Coherent, StartInv
  <2>5. Coherent'
    <3>1. StartInv' /\ ShutdownInv'
      BY <1>1, <2>1, <2>2, <2>4, Kinds, ZenonT(40) DEF ConnectionInv, Coherent, StartInv, ShutdownInv
    <3>2. RegistryInv' /\ CoreInv'
      BY <1>1, <2>1, <2>2, <2>4, Kinds, ZenonT(40) DEF ConnectionInv, Coherent, StartInv, ShutdownInv,
        RegistryInv, CoreInv
    <3>3. DrainInv'
      BY <1>1, <2>1, <2>2, <2>4, Kinds, ZenonT(40) DEF ConnectionInv, Coherent, ShutdownInv, DrainInv,
        Excused, Free, ShuttingDown
    <3> QED
      BY <3>1, <3>2, <3>3 DEF Coherent
  <2> QED
    BY <2>3, <2>5 DEF ConnectionInv
<1> QED
  BY <1>2, <1>3 DEF WriterTake

LEMMA WriterWritesStep == ConnectionInv /\ WriterWrites => ConnectionInv'
<1> SUFFICES ASSUME ConnectionInv, WriterWrites PROVE ConnectionInv'
  OBVIOUS
<1>1. /\ w.at = "write" /\ w'.at = "wait" /\ w'.queue = w.queue
      /\ w'.finishing = w.finishing /\ w'.closed = w.closed /\ w'.deadline = w.deadline
      /\ UNCHANGED <<svc, start, named, core, reports, registered, listed,
                    coreClosed, tornDown, sd, scopeDead, socket, peerGone, reader>>
  BY DEF ConnectionInv, TypeOK, Writer, WriterWrites, registryVars,
    shutdownVars
<1>2. TypeOK'
  <2>1. w' \in Writer
    BY QueueAssumption, Zenon DEF ConnectionInv, TypeOK, Writer, WriterWrites
  <2> QED
    BY <1>1, <2>1 DEF ConnectionInv, TypeOK
<1>3. Coherent'
  <2>1. StartInv' /\ ShutdownInv'
    BY <1>1, Kinds, ZenonT(40) DEF ConnectionInv, Coherent, StartInv, ShutdownInv
  <2>2. RegistryInv' /\ CoreInv'
    BY <1>1, Kinds, ZenonT(40) DEF ConnectionInv, Coherent, StartInv, ShutdownInv,
      RegistryInv, CoreInv
  <2>3. DrainInv'
    BY <1>1, Kinds, ZenonT(40) DEF ConnectionInv, Coherent, ShutdownInv, DrainInv,
      Excused, Free, ShuttingDown
  <2> QED
    BY <2>1, <2>2, <2>3 DEF Coherent
<1> QED
  BY <1>2, <1>3 DEF ConnectionInv

LEMMA WriterFailsStep == ConnectionInv /\ WriterFails => ConnectionInv'
<1> SUFFICES ASSUME ConnectionInv, WriterFails PROVE ConnectionInv'
  OBVIOUS
<1>1. /\ w.at = "write" /\ w'.at = "leave" /\ w'.queue = w.queue
      /\ socket = "closed" \/ peerGone
      /\ w'.finishing = w.finishing /\ w'.closed = w.closed /\ w'.deadline = w.deadline
      /\ UNCHANGED <<svc, start, named, core, reports, registered, listed,
                    coreClosed, tornDown, sd, scopeDead, socket, peerGone, reader>>
  BY DEF ConnectionInv, TypeOK, Writer, WriterFails, registryVars, shutdownVars
<1>2. TypeOK'
  <2>1. w' \in Writer
    BY QueueAssumption DEF ConnectionInv, TypeOK, Writer, WriterFails
  <2> QED
    BY <1>1, <2>1 DEF ConnectionInv, TypeOK
<1>3. Coherent'
  <2>1. StartInv' /\ ShutdownInv'
    BY <1>1, Kinds, ZenonT(40) DEF ConnectionInv, Coherent, StartInv, ShutdownInv
  <2>2. RegistryInv' /\ CoreInv'
    BY <1>1, Kinds, ZenonT(40) DEF ConnectionInv, Coherent, StartInv, ShutdownInv,
      RegistryInv, CoreInv
  <2>3. DrainInv'
    BY <1>1, Kinds, ZenonT(40) DEF ConnectionInv, Coherent, ShutdownInv, DrainInv,
      Excused, Free, ShuttingDown
  <2> QED
    BY <2>1, <2>2, <2>3 DEF Coherent
<1> QED
  BY <1>2, <1>3 DEF ConnectionInv

LEMMA WriterLeavesStep == ConnectionInv /\ WriterLeaves => ConnectionInv'
<1> SUFFICES ASSUME ConnectionInv, WriterLeaves PROVE ConnectionInv'
  OBVIOUS
<1>1. /\ w.at = "leave" /\ w'.at = "ended" /\ w'.closed = TRUE
      /\ w'.queue = w.queue /\ w'.finishing = w.finishing /\ w'.deadline = w.deadline
      /\ w' \in Writer
  BY ZenonT(40) DEF WriterLeaves, ConnectionInv, TypeOK, Writer
<1>2. UNCHANGED <<svc, start, named, core, reports, registered, listed, coreClosed,
                  scopeDead, socket, peerGone, reader>>
  BY DEF WriterLeaves, registryVars
<1>3. UNCHANGED <<tornDown, sd>> \/ Begins("writer", ~coreClosed, FALSE)
  <2>1. (~coreClosed) \in BOOLEAN
    OBVIOUS
  <2>2. UNCHANGED <<tornDown, sd>> \/ Shutdown("writer", ~coreClosed, FALSE)
    BY ZenonT(40) DEF WriterLeaves
  <2> QED
    BY <2>1, <2>2, ShutdownBegins, ZenonT(40) DEF Threads
<1>4. TypeOK'
  <2>1. sd' \in Teardown /\ tornDown' \in BOOLEAN
    BY <1>3, ZenonT(40) DEF Begins, ConnectionInv, TypeOK
  <2> QED
    BY <1>1, <1>2, <2>1 DEF ConnectionInv, TypeOK
<1>5. w.at = "leave" => start = "over"
  BY DEF ConnectionInv, Coherent, StartInv
<1>6. CASE sd' = sd /\ tornDown' = tornDown
  <2>1. Coherent'
    <3>1. StartInv' /\ ShutdownInv'
      BY <1>1, <1>2, <1>5, <1>6, Kinds, ZenonT(40) DEF ConnectionInv, Coherent, StartInv, ShutdownInv
    <3>2. RegistryInv' /\ CoreInv'
      BY <1>1, <1>2, <1>5, <1>6, Kinds, ZenonT(40) DEF ConnectionInv, Coherent, StartInv, ShutdownInv,
        RegistryInv, CoreInv
    <3>3. DrainInv'
      BY <1>1, <1>2, <1>5, <1>6, Kinds, ZenonT(40) DEF ConnectionInv, Coherent, ShutdownInv, DrainInv,
        Excused, Free, ShuttingDown
    <3> QED
      BY <3>1, <3>2, <3>3 DEF Coherent
  <2> QED
    BY <1>4, <2>1 DEF ConnectionInv
<1>7. CASE /\ ~tornDown /\ tornDown' = TRUE
           /\ sd'.at = "close" /\ sd'.by = "writer" /\ sd'.report = ~coreClosed
  <2>1. Coherent'
    BY <1>1, <1>2, <1>5, <1>7, Kinds, ZenonT(40) DEF ConnectionInv, Coherent, StartInv, ShutdownInv,
      RegistryInv, CoreInv, DrainInv, Excused, Free, ShuttingDown
  <2> QED
    BY <1>4, <2>1 DEF ConnectionInv
<1> QED
  BY <1>3, <1>6, <1>7, Kinds, ZenonT(40) DEF Begins

LEMMA DrainDeadlineStep == ConnectionInv /\ DrainDeadline => ConnectionInv'
<1> SUFFICES ASSUME ConnectionInv, DrainDeadline PROVE ConnectionInv'
  OBVIOUS
<1>1. /\ w.deadline = "armed" /\ w'.deadline = "off" /\ w'.closed = TRUE
      /\ w'.queue = w.queue /\ w'.finishing = w.finishing /\ w'.at = w.at
      /\ w' \in Writer
  BY ZenonT(40) DEF DrainDeadline, ConnectionInv, TypeOK, Writer
<1>2. UNCHANGED <<svc, start, named, core, reports, registered, listed, coreClosed,
                  scopeDead, socket, peerGone, reader>>
  BY DEF DrainDeadline, registryVars
<1>3. UNCHANGED <<tornDown, sd>> \/ Begins("deadline", ~coreClosed, FALSE)
  <2>1. (~coreClosed) \in BOOLEAN
    OBVIOUS
  <2>2. UNCHANGED <<tornDown, sd>> \/ Shutdown("deadline", ~coreClosed, FALSE)
    BY ZenonT(40) DEF DrainDeadline
  <2> QED
    BY <2>1, <2>2, ShutdownBegins, ZenonT(40) DEF Threads
<1>4. TypeOK'
  <2>1. sd' \in Teardown /\ tornDown' \in BOOLEAN
    BY <1>3, ZenonT(40) DEF Begins, ConnectionInv, TypeOK
  <2> QED
    BY <1>1, <1>2, <2>1 DEF ConnectionInv, TypeOK
<1>5. w.at = "leave" => start = "over"
  BY DEF ConnectionInv, Coherent, StartInv
<1>6. CASE sd' = sd /\ tornDown' = tornDown
  <2>1. Coherent'
    BY <1>1, <1>2, <1>5, <1>6, Kinds, ZenonT(40) DEF ConnectionInv, Coherent, StartInv, ShutdownInv,
      RegistryInv, CoreInv, DrainInv, Excused, Free, ShuttingDown
  <2> QED
    BY <1>4, <2>1 DEF ConnectionInv
<1>7. CASE /\ ~tornDown /\ tornDown' = TRUE
           /\ sd'.at = "close" /\ sd'.by = "deadline" /\ sd'.report = ~coreClosed
  <2>1. Coherent'
    BY <1>1, <1>2, <1>5, <1>7, Kinds, ZenonT(40) DEF ConnectionInv, Coherent, StartInv, ShutdownInv,
      RegistryInv, CoreInv, DrainInv, Excused, Free, ShuttingDown
  <2> QED
    BY <1>4, <2>1 DEF ConnectionInv
<1> QED
  BY <1>3, <1>6, <1>7, Kinds, ZenonT(40) DEF Begins

\* writeFrames: nothing, a frame more in the queue, or a shutdown.
Writes(thread) ==
    /\ w' \in Writer
    /\ \/ (tornDown \/ coreClosed) /\ UNCHANGED <<tornDown, sd, w>>
       \/ /\ ~tornDown /\ ~coreClosed /\ ~w.finishing /\ UNCHANGED <<tornDown, sd>>
          /\ w'.at = w.at /\ w'.finishing = w.finishing /\ w'.closed = w.closed
          /\ w'.deadline = w.deadline
       \/ ~tornDown /\ ~coreClosed /\ Begins(thread, TRUE, TRUE) /\ UNCHANGED w

LEMMA WriteFrameWrites ==
    ASSUME ConnectionInv, NEW thread \in Threads, WriteFrame(thread)
    PROVE  Writes(thread)
<1>0. w \in Writer /\ w.queue \in 0..MaxQueue
  BY DEF ConnectionInv, TypeOK, Writer
<1>1. CASE (tornDown \/ coreClosed) /\ UNCHANGED <<tornDown, sd, w>>
  BY <1>0, <1>1, ZenonT(40) DEF Writes
<1>2. CASE /\ ~tornDown /\ ~coreClosed /\ Accepts /\ UNCHANGED <<tornDown, sd>>
           /\ w' = [w EXCEPT !.queue = @ + 1]
  <2>1. w.queue + 1 \in 0..MaxQueue /\ ~w.finishing
    BY <1>0, <1>2, QueueAssumption DEF Accepts
  <2>2. /\ w' \in Writer
        /\ w'.at = w.at /\ w'.finishing = w.finishing /\ w'.closed = w.closed
        /\ w'.deadline = w.deadline
    BY <1>0, <1>2, <2>1 DEF Writer
  <2> QED
    BY <1>2, <2>1, <2>2, ZenonT(40) DEF Writes
<1>3. CASE ~tornDown /\ ~coreClosed /\ Shutdown(thread, TRUE, TRUE) /\ UNCHANGED w
  BY <1>0, <1>3, ShutdownBegins, ZenonT(40) DEF Writes
<1> QED
  BY <1>1, <1>2, <1>3, ZenonT(40) DEF WriteFrame

-----------------------------------------------------------------------------
(* The reader, where it does not call the core.                            *)

LEMMA ReaderStartStep == ConnectionInv /\ ReaderStart => ConnectionInv'
<1> SUFFICES ASSUME ConnectionInv, ReaderStart PROVE ConnectionInv'
  OBVIOUS
<1>1. /\ reader = "launched" /\ reader' \in {"never", "loop"}
      /\ UNCHANGED <<svc, start, named, core, reports, registered, listed,
                    coreClosed, tornDown, sd, scopeDead, socket, peerGone, w>>
  BY DEF ConnectionInv, TypeOK, ReaderStart, registryVars, shutdownVars
<1>2. TypeOK'
  BY <1>1 DEF ConnectionInv, TypeOK
<1>3. Coherent'
  <2>1. StartInv' /\ ShutdownInv'
    BY <1>1, Kinds, ZenonT(40) DEF ConnectionInv, Coherent, StartInv, ShutdownInv
  <2>2. RegistryInv' /\ CoreInv'
    BY <1>1, Kinds, ZenonT(40) DEF ConnectionInv, Coherent, StartInv, ShutdownInv,
      RegistryInv, CoreInv
  <2>3. DrainInv'
    BY <1>1, Kinds, ZenonT(40) DEF ConnectionInv, Coherent, ShutdownInv, DrainInv,
      Excused, Free, ShuttingDown
  <2> QED
    BY <2>1, <2>2, <2>3 DEF Coherent
<1> QED
  BY <1>2, <1>3 DEF ConnectionInv

LEMMA ReaderReadsStep == ConnectionInv /\ ReaderReads => ConnectionInv'
<1> SUFFICES ASSUME ConnectionInv, ReaderReads PROVE ConnectionInv'
  OBVIOUS
<1>1. /\ reader = "loop" /\ reader' = "bytes" /\ Free("reader")
      /\ UNCHANGED <<svc, start, named, core, reports, registered, listed,
                    coreClosed, tornDown, sd, scopeDead, socket, peerGone, w>>
  BY DEF ConnectionInv, TypeOK, ReaderReads, registryVars, shutdownVars
<1>2. TypeOK'
  BY <1>1 DEF ConnectionInv, TypeOK
<1>3. Coherent'
  <2>1. StartInv' /\ ShutdownInv'
    BY <1>1, Kinds, ZenonT(40) DEF ConnectionInv, Coherent, StartInv, ShutdownInv
  <2>2. RegistryInv' /\ CoreInv'
    BY <1>1, Kinds, ZenonT(40) DEF ConnectionInv, Coherent, StartInv, ShutdownInv,
      RegistryInv, CoreInv
  <2>3. DrainInv'
    BY <1>1, Kinds, ZenonT(40) DEF ConnectionInv, Coherent, ShutdownInv, DrainInv,
      Excused, Free, ShuttingDown
  <2> QED
    BY <2>1, <2>2, <2>3 DEF Coherent
<1> QED
  BY <1>2, <1>3 DEF ConnectionInv

LEMMA ReaderEndsStep == ConnectionInv /\ ReaderEnds => ConnectionInv'
<1> SUFFICES ASSUME ConnectionInv, ReaderEnds PROVE ConnectionInv'
  OBVIOUS
<1>0. Begins("reader", TRUE, FALSE)
  BY ShutdownBegins, Kinds, ZenonT(40) DEF ReaderEnds, Threads
<1>1. /\ reader = "loop" /\ reader' = "finally" /\ ~coreClosed
      /\ UNCHANGED <<svc, start, named, core, reports, registered, listed,
                    coreClosed, scopeDead, socket, peerGone, w>>
  BY DEF ConnectionInv, TypeOK, ReaderEnds, registryVars, shutdownVars
<1>2. TypeOK'
  BY <1>0, <1>1 DEF Begins, ConnectionInv, TypeOK
<1>3. Coherent'
  BY <1>0, <1>1, Kinds, ZenonT(40) DEF Begins, ConnectionInv, Coherent, StartInv, ShutdownInv,
    RegistryInv, CoreInv, DrainInv, Excused, Free, ShuttingDown
<1> QED
  BY <1>2, <1>3 DEF ConnectionInv

LEMMA ReaderEndsLateStep == ConnectionInv /\ ReaderEndsLate => ConnectionInv'
<1> SUFFICES ASSUME ConnectionInv, ReaderEndsLate PROVE ConnectionInv'
  OBVIOUS
<1>0. Begins("reader", FALSE, FALSE)
  BY ShutdownBegins, Kinds, ZenonT(40) DEF ReaderEndsLate, Threads
<1>1. /\ reader = "loop" /\ reader' = "finally"
      /\ coreClosed /\ (socket = "closed" \/ peerGone)
      /\ UNCHANGED <<svc, start, named, core, reports, registered, listed,
                    coreClosed, scopeDead, socket, peerGone, w>>
  BY DEF ConnectionInv, TypeOK, ReaderEndsLate, registryVars, shutdownVars
<1>2. TypeOK'
  BY <1>0, <1>1 DEF Begins, ConnectionInv, TypeOK
<1>3. Coherent'
  BY <1>0, <1>1, Kinds, ZenonT(40) DEF Begins, ConnectionInv, Coherent, StartInv, ShutdownInv,
    RegistryInv, CoreInv, DrainInv, Excused, Free, ShuttingDown
<1> QED
  BY <1>2, <1>3 DEF ConnectionInv

LEMMA ReaderStopsStep == ConnectionInv /\ ReaderStops => ConnectionInv'
<1> SUFFICES ASSUME ConnectionInv, ReaderStops PROVE ConnectionInv'
  OBVIOUS
<1>1. /\ reader \in {"loop", "bytes"} /\ reader' = "finally"
      /\ UNCHANGED <<svc, start, named, core, reports, registered, listed,
                    coreClosed, tornDown, sd, scopeDead, socket, peerGone, w>>
  BY DEF ConnectionInv, TypeOK, ReaderStops, registryVars, shutdownVars
<1>2. TypeOK'
  BY <1>1 DEF ConnectionInv, TypeOK
<1>3. Coherent'
  <2>1. StartInv' /\ ShutdownInv'
    BY <1>1, Kinds, ZenonT(40) DEF ConnectionInv, Coherent, StartInv, ShutdownInv
  <2>2. RegistryInv' /\ CoreInv'
    BY <1>1, Kinds, ZenonT(40) DEF ConnectionInv, Coherent, StartInv, ShutdownInv,
      RegistryInv, CoreInv
  <2>3. DrainInv'
    BY <1>1, Kinds, ZenonT(40) DEF ConnectionInv, Coherent, ShutdownInv, DrainInv,
      Excused, Free, ShuttingDown
  <2> QED
    BY <2>1, <2>2, <2>3 DEF Coherent
<1> QED
  BY <1>2, <1>3 DEF ConnectionInv

LEMMA OnBytesClosedStep == ConnectionInv /\ OnBytesClosed => ConnectionInv'
<1> SUFFICES ASSUME ConnectionInv, OnBytesClosed PROVE ConnectionInv'
  OBVIOUS
<1>1. /\ reader = "bytes" /\ reader' = "loop"
      /\ UNCHANGED <<svc, start, named, core, reports, registered, listed,
                    coreClosed, tornDown, sd, scopeDead, socket, peerGone, w>>
  BY DEF ConnectionInv, TypeOK, OnBytesClosed, registryVars, shutdownVars
<1>2. TypeOK'
  BY <1>1 DEF ConnectionInv, TypeOK
<1>3. Coherent'
  <2>1. StartInv' /\ ShutdownInv'
    BY <1>1, Kinds, ZenonT(40) DEF ConnectionInv, Coherent, StartInv, ShutdownInv
  <2>2. RegistryInv' /\ CoreInv'
    BY <1>1, Kinds, ZenonT(40) DEF ConnectionInv, Coherent, StartInv, ShutdownInv,
      RegistryInv, CoreInv
  <2>3. DrainInv'
    BY <1>1, Kinds, ZenonT(40) DEF ConnectionInv, Coherent, ShutdownInv, DrainInv,
      Excused, Free, ShuttingDown
  <2> QED
    BY <2>1, <2>2, <2>3 DEF Coherent
<1> QED
  BY <1>2, <1>3 DEF ConnectionInv

LEMMA ReaderFinallyStep == ConnectionInv /\ ReaderFinally => ConnectionInv'
<1> SUFFICES ASSUME ConnectionInv, ReaderFinally PROVE ConnectionInv'
  OBVIOUS
<1>1. /\ reader = "finally" /\ reader' = "ended"
      /\ UNCHANGED <<svc, start, named, core, reports, registered, listed, coreClosed,
                     scopeDead, socket, peerGone, w>>
  BY DEF ReaderFinally, registryVars
<1>2. \/ coreClosed /\ UNCHANGED <<tornDown, sd>>
      \/ ~coreClosed /\ Begins("reader", TRUE, FALSE)
  BY ShutdownBegins, ZenonT(40) DEF ReaderFinally, Threads
<1>3. sd' \in Teardown /\ tornDown' \in BOOLEAN
  BY <1>2, ZenonT(40) DEF Begins, ConnectionInv, TypeOK
<1>4. TypeOK'
  BY <1>1, <1>3 DEF ConnectionInv, TypeOK
<1>5. CASE sd' = sd /\ tornDown' = tornDown
  <2>1. Coherent'
    <3>1. StartInv' /\ ShutdownInv'
      BY <1>1, <1>5, Kinds, ZenonT(40) DEF ConnectionInv, Coherent, StartInv, ShutdownInv
    <3>2. RegistryInv' /\ CoreInv'
      BY <1>1, <1>5, Kinds, ZenonT(40) DEF ConnectionInv, Coherent, StartInv, ShutdownInv,
        RegistryInv, CoreInv
    <3>3. DrainInv'
      BY <1>1, <1>5, Kinds, ZenonT(40) DEF ConnectionInv, Coherent, ShutdownInv, DrainInv,
        Excused, Free, ShuttingDown
    <3> QED
      BY <3>1, <3>2, <3>3 DEF Coherent
  <2> QED
    BY <1>4, <2>1 DEF ConnectionInv
<1>6. CASE /\ ~tornDown /\ tornDown' = TRUE /\ ~coreClosed
           /\ sd'.at = "close" /\ sd'.by = "reader" /\ sd'.report = TRUE
  <2>1. Coherent'
    BY <1>1, <1>6, Kinds, ZenonT(40) DEF ConnectionInv, Coherent, StartInv, ShutdownInv,
      RegistryInv, CoreInv, DrainInv, Excused, Free, ShuttingDown
  <2> QED
    BY <1>4, <2>1 DEF ConnectionInv
<1> QED
  BY <1>2, <1>5, <1>6, Kinds, ZenonT(40) DEF Begins

-----------------------------------------------------------------------------
(* The calls into the core.                                                *)

\* What a call leaves of the link, and of what the registry has of it: nothing
\* changes, or the link is established.
Establishes ==
    \/ UNCHANGED <<core, listed>>
    \/ core = "half" /\ core' = "up" /\ listed' = registered

\* A call that writes to a link.
LEMMA WritesStep ==
    ASSUME ConnectionInv, NEW thread \in {"reader", "other"}, Writes(thread),
           start = "over", Establishes, core \in {"half", "up"},
           reader' = reader \/ (reader = "bytes" /\ reader' = "loop"),
           thread = "reader" => reader' = "loop",
           UNCHANGED <<svc, start, named, reports, registered, coreClosed,
                       scopeDead, socket, peerGone>>
    PROVE  ConnectionInv'
<1>1. /\ w' \in Writer /\ sd' \in Teardown /\ tornDown' \in BOOLEAN
  BY ZenonT(40) DEF Writes, Begins, ConnectionInv, TypeOK
<1>2. core' \in {"half", "up"} /\ listed' \in BOOLEAN /\ reader' \in {reader, "loop"}
  BY DEF Establishes, ConnectionInv, TypeOK
<1>3. TypeOK'
  BY <1>1, <1>2 DEF ConnectionInv, TypeOK
<1>4. CASE UNCHANGED <<tornDown, sd, w>>
  <2>1. Coherent'
    <3>0. core # "none" /\ core' # "none" /\ core' # "closed" /\ core # "closed"
      BY <1>2
    <3>1. StartInv'
      BY <1>4, <3>0, Kinds DEF ConnectionInv, Coherent, StartInv
    <3>4. ShutdownInv'
      BY <1>4, <3>0, Kinds, ZenonT(40) DEF ConnectionInv, Coherent, ShutdownInv
    <3>5. RegistryInv'
      BY <1>4, Kinds DEF Establishes, ConnectionInv, Coherent, RegistryInv
    <3>2. CoreInv'
      BY <1>4 DEF Establishes, ConnectionInv, Coherent, CoreInv
    <3>3. DrainInv'
      BY <1>4, Kinds, ZenonT(40) DEF Establishes, ConnectionInv, Coherent, DrainInv, Excused, Free,
        ShuttingDown
    <3> QED
      BY <3>1, <3>2, <3>3, <3>4, <3>5 DEF Coherent
  <2> QED
    BY <1>3, <2>1 DEF ConnectionInv
<1>5. CASE /\ ~tornDown /\ ~coreClosed /\ ~w.finishing /\ UNCHANGED <<tornDown, sd>>
           /\ w'.at = w.at /\ w'.finishing = w.finishing /\ w'.closed = w.closed
           /\ w'.deadline = w.deadline
  <2>1. Coherent'
    BY <1>5, Kinds, ZenonT(40) DEF Establishes, ConnectionInv, Coherent, StartInv, ShutdownInv,
      RegistryInv, CoreInv, DrainInv, Excused, Free, ShuttingDown
  <2> QED
    BY <1>3, <2>1 DEF ConnectionInv
<1>6. CASE /\ ~tornDown /\ ~coreClosed /\ tornDown' = TRUE /\ UNCHANGED w
           /\ sd'.at = "close" /\ sd'.by = thread /\ sd'.report = TRUE
  <2>1. Coherent'
    BY <1>6, Kinds, ZenonT(40) DEF Establishes, ConnectionInv, Coherent, StartInv, ShutdownInv,
      RegistryInv, CoreInv, DrainInv, Excused, Free, ShuttingDown
  <2> QED
    BY <1>3, <2>1 DEF ConnectionInv
<1> QED
  BY <1>4, <1>5, <1>6, Kinds, ZenonT(40) DEF Writes, Begins

\* The link is closed in the core, and the connection with it.
LEMMA CloseFromCoreStep ==
    ASSUME ConnectionInv, NEW thread \in {"reader", "tick"}, CloseFromCore(thread),
           core \in {"half", "up"}, ~coreClosed,
           reader' = reader \/ (reader = "bytes" /\ reader' = "loop"),
           thread = "reader" => reader' = "loop",
           UNCHANGED <<svc, start, named, reports, registered, listed,
                       scopeDead, socket, peerGone>>
    PROVE  ConnectionInv'
<1>1. core' = "closed" /\ coreClosed' = TRUE /\ UNCHANGED w /\ Begins(thread, FALSE, TRUE)
  BY ShutdownBegins, ZenonT(40) DEF CloseFromCore, Threads
<1>2. sd' \in Teardown /\ tornDown' = TRUE
  BY <1>1 DEF Begins
<1>3. TypeOK'
  BY <1>1, <1>2 DEF ConnectionInv, TypeOK
<1>4. CASE tornDown /\ sd' = sd
  <2>1. Coherent'
    BY <1>1, <1>2, <1>4, Kinds, ZenonT(40) DEF ConnectionInv, Coherent, StartInv, ShutdownInv,
      RegistryInv, CoreInv, DrainInv, Excused, Free, ShuttingDown
  <2> QED
    BY <1>3, <2>1, ZenonT(40) DEF ConnectionInv
<1>5. CASE ~tornDown /\ sd'.at = "close" /\ sd'.by = thread /\ sd'.report = FALSE
  <2>1. Coherent'
    BY <1>1, <1>2, <1>5, Kinds, ZenonT(40) DEF ConnectionInv, Coherent, StartInv, ShutdownInv,
      RegistryInv, CoreInv, DrainInv, Excused, Free, ShuttingDown
  <2> QED
    BY <1>3, <2>1 DEF ConnectionInv
<1> QED
  BY <1>1, <1>4, <1>5, ZenonT(40) DEF Begins

\* The link is closed in the core after a final frame.
LEMMA CloseFromCoreDrainingStep ==
    ASSUME ConnectionInv, CloseFromCoreDraining("reader"),
           core \in {"half", "up"}, ~coreClosed, reader = "bytes", reader' = "loop",
           UNCHANGED <<svc, start, named, reports, registered, listed,
                       scopeDead, socket, peerGone>>
    PROVE  ConnectionInv'
<1>1. core' = "closed" /\ coreClosed' = TRUE
  BY DEF CloseFromCoreDraining
<1>2. w \in Writer /\ w.queue \in 0..MaxQueue
  BY DEF ConnectionInv, TypeOK, Writer
<1>3. CASE (w.finishing \/ w.closed) /\ UNCHANGED <<tornDown, sd, w>>
  <2>1. TypeOK'
    BY <1>1, <1>3 DEF ConnectionInv, TypeOK
  <2>2. Coherent'
    BY <1>1, <1>3, Kinds, ZenonT(40) DEF ConnectionInv, Coherent, StartInv, ShutdownInv,
      RegistryInv, CoreInv, DrainInv, Excused, Free, ShuttingDown
  <2> QED
    BY <2>1, <2>2 DEF ConnectionInv
<1>4. CASE /\ ~w.finishing /\ ~w.closed /\ UNCHANGED <<tornDown, sd>>
           /\ w' \in Writer /\ w'.at = w.at /\ w'.closed = w.closed
           /\ w'.finishing = TRUE /\ w'.deadline = "armed"
  <2>1. TypeOK'
    BY <1>1, <1>4 DEF ConnectionInv, TypeOK
  <2>2. StartInv' /\ ShutdownInv' /\ RegistryInv' /\ CoreInv'
    BY <1>1, <1>4, Kinds, ZenonT(40) DEF ConnectionInv, Coherent, StartInv, ShutdownInv,
      RegistryInv, CoreInv
  <2>3. sd.at = "close" => peerGone \/ svc # "up" \/ sd.by \in {"deadline", "other"}
    <3>1. sd.by \in Threads \cup {""}
      BY ZenonT(40) DEF ConnectionInv, TypeOK, Teardown, Threads
    <3>2. sd.at = "close" =>
            /\ sd.by # "" /\ sd.by # "reader" /\ sd.by # "writer" /\ sd.by # "tick"
            /\ sd.by \in {"main", "start"} => svc # "up"
      BY <1>4, Kinds, ZenonT(40) DEF ConnectionInv, Coherent, ShutdownInv, DrainInv, Free, ShuttingDown
    <3> QED
      BY <3>1, <3>2, ZenonT(40) DEF Threads
  <2>4. DrainInv'
    BY <1>1, <1>4, <2>3, Kinds DEF ConnectionInv, Coherent, DrainInv, Excused, Free,
      ShuttingDown
  <2> QED
    BY <2>1, <2>2, <2>4 DEF ConnectionInv, Coherent
<1>5. CASE ~tornDown /\ Begins("reader", TRUE, TRUE) /\ UNCHANGED w
  <2>1. /\ sd' \in Teardown /\ tornDown' = TRUE
        /\ sd'.at = "close" /\ sd'.by = "reader" /\ sd'.report = TRUE
    BY <1>5 DEF Begins
  <2>2. TypeOK'
    BY <1>1, <1>5, <2>1, ZenonT(40) DEF ConnectionInv, TypeOK
  <2>3. Coherent'
    BY <1>1, <1>5, <2>1, Kinds, ZenonT(40) DEF ConnectionInv, Coherent, StartInv, ShutdownInv,
      RegistryInv, CoreInv, DrainInv, Excused, Free, ShuttingDown
  <2> QED
    BY <2>2, <2>3 DEF ConnectionInv
<1>6. CASE tornDown
  <2>1. w' = Finished(w) /\ UNCHANGED <<tornDown, sd>>
    BY <1>6 DEF CloseFromCoreDraining
  <2>2. CASE w.finishing \/ w.closed
    BY <1>3, <2>1, <2>2 DEF Finished
  <2>3. CASE ~w.finishing /\ ~w.closed
    <3>1. w' = [w EXCEPT !.finishing = TRUE, !.deadline = "armed"]
      BY <2>1, <2>3 DEF Finished
    <3>2. /\ w' \in Writer /\ w'.at = w.at /\ w'.closed = w.closed
          /\ w'.finishing = TRUE /\ w'.deadline = "armed"
      BY <1>2, <3>1, ZenonT(40) DEF Writer
    <3> QED
      BY <1>4, <2>1, <2>3, <3>2, ZenonT(40)
  <2> QED
    BY <2>2, <2>3
<1>7. CASE ~tornDown /\ Accepts
  <2> DEFINE v == [w EXCEPT !.queue = @ + 1]
  <2>1. w' = Finished(v) /\ UNCHANGED <<tornDown, sd>>
    BY <1>7 DEF CloseFromCoreDraining
  <2>2. ~w.finishing /\ ~w.closed /\ w.queue + 1 \in 0..MaxQueue
    BY <1>2, <1>7, QueueAssumption DEF Accepts
  <2>3. /\ v \in Writer /\ v.at = w.at /\ v.closed = w.closed /\ v.finishing = w.finishing
    BY <1>2, <2>2 DEF Writer
  <2> HIDE DEF v
  <2>4. w' = [v EXCEPT !.finishing = TRUE, !.deadline = "armed"]
    BY <2>1, <2>2, <2>3 DEF Finished
  <2>5. /\ w' \in Writer /\ w'.at = w.at /\ w'.closed = w.closed
        /\ w'.finishing = TRUE /\ w'.deadline = "armed"
    BY <2>3, <2>4, ZenonT(40) DEF Writer
  <2> QED
    BY <1>4, <2>1, <2>2, <2>5, ZenonT(40)
<1>8. CASE ~tornDown /\ ~Accepts
  <2>1. Shutdown("reader", TRUE, TRUE) /\ UNCHANGED w
    BY <1>8, ZenonT(40) DEF CloseFromCoreDraining
  <2> QED
    BY <1>5, <1>8, <2>1, ShutdownBegins, ZenonT(40) DEF Threads
<1> QED
  BY <1>6, <1>7, <1>8

LEMMA OnBytesStep == ConnectionInv /\ OnBytes => ConnectionInv'
<1> SUFFICES ASSUME ConnectionInv, OnBytes PROVE ConnectionInv'
  OBVIOUS
<1>1. /\ reader = "bytes" /\ reader' = "loop" /\ ~coreClosed /\ core \in {"half", "up"}
      /\ UNCHANGED <<svc, start, named, reports, registered, scopeDead, socket, peerGone>>
  BY DEF OnBytes
<1>2. start = "over"
  BY <1>1 DEF ConnectionInv, Coherent, StartInv
<1>3. CASE WriteFrame("reader") /\ UNCHANGED <<core, coreClosed, listed>>
  BY <1>1, <1>2, <1>3, WriteFrameWrites, WritesStep DEF Threads, Establishes
<1>4. CASE /\ core = "half" /\ core' = "up" /\ listed' = registered /\ UNCHANGED coreClosed
           /\ WriteFrame("reader")
  BY <1>1, <1>2, <1>4, WriteFrameWrites, WritesStep DEF Threads, Establishes
<1>5. CASE /\ core = "half" /\ core' = "up" /\ listed' = registered /\ UNCHANGED coreClosed
           /\ Shutdown("reader", TRUE, TRUE) /\ UNCHANGED w
  <2>1. Begins("reader", TRUE, TRUE)
    BY <1>5, ShutdownBegins, ZenonT(40) DEF Threads
  <2>2. w \in Writer
    BY DEF ConnectionInv, TypeOK
  <2>3. Writes("reader")
    BY <1>1, <1>5, <2>1, <2>2, Kinds, ZenonT(40) DEF Writes, Begins
  <2> QED
    BY <1>1, <1>2, <1>5, <2>3, WritesStep DEF Establishes
<1>6. CASE CloseFromCore("reader") /\ UNCHANGED listed
  BY <1>1, <1>6, CloseFromCoreStep
<1>7. CASE CloseFromCoreDraining("reader") /\ UNCHANGED listed
  BY <1>1, <1>7, CloseFromCoreDrainingStep
<1> QED
  BY <1>3, <1>4, <1>5, <1>6, <1>7, ZenonT(40) DEF OnBytes

LEMMA SyncFrameStep == ConnectionInv /\ SyncFrame => ConnectionInv'
<1> SUFFICES ASSUME ConnectionInv, SyncFrame PROVE ConnectionInv'
  OBVIOUS
<1>1. /\ core = "up" /\ WriteFrame("other")
      /\ UNCHANGED <<svc, start, named, core, reports, registered, listed, coreClosed,
                    scopeDead, socket, peerGone, reader>>
  BY DEF SyncFrame, registryVars
<1>2. start = "over"
  BY <1>1 DEF ConnectionInv, Coherent, StartInv
<1> QED
  BY <1>1, <1>2, WriteFrameWrites, WritesStep DEF Threads, Establishes

LEMMA DuplicateStep == ConnectionInv /\ Duplicate => ConnectionInv'
<1> SUFFICES ASSUME ConnectionInv, Duplicate PROVE ConnectionInv'
  OBVIOUS
<1>1. /\ listed /\ Begins("other", TRUE, TRUE)
      /\ UNCHANGED <<svc, start, named, core, reports, registered, listed, coreClosed,
                    scopeDead, socket, peerGone, reader, w>>
  BY ShutdownBegins, ZenonT(40) DEF Duplicate, registryVars, Threads
<1>2. registered /\ start # "begin" /\ start # "open"
  BY <1>1, Kinds DEF ConnectionInv, Coherent, RegistryInv, StartInv
<1>3. TypeOK'
  BY <1>1 DEF ConnectionInv, TypeOK, Begins
<1>4. CASE tornDown /\ sd' = sd
  <2>1. Coherent'
    BY <1>1, <1>4, Kinds, ZenonT(40) DEF Begins, ConnectionInv, Coherent, StartInv, ShutdownInv,
      RegistryInv, CoreInv, DrainInv, Excused, Free, ShuttingDown
  <2> QED
    BY <1>3, <2>1 DEF ConnectionInv
<1>5. CASE /\ ~tornDown /\ tornDown'
           /\ sd'.at = "close" /\ sd'.by = "other" /\ sd'.report = TRUE
  <2>1. Coherent'
    BY <1>1, <1>2, <1>5, Kinds, ZenonT(40) DEF ConnectionInv, Coherent, StartInv, ShutdownInv,
      RegistryInv, CoreInv, DrainInv, Excused, Free, ShuttingDown
  <2> QED
    BY <1>3, <2>1 DEF ConnectionInv
<1> QED
  BY <1>1, <1>4, <1>5, ZenonT(40) DEF Begins

LEMMA TickExpiresStep == ConnectionInv /\ TickExpires => ConnectionInv'
<1> SUFFICES ASSUME ConnectionInv, TickExpires PROVE ConnectionInv'
  OBVIOUS
<1>1. /\ core \in {"half", "up"} /\ CloseFromCore("tick")
      /\ UNCHANGED <<svc, start, named, reports, registered, listed, scopeDead, socket,
                    peerGone, reader>>
  BY DEF TickExpires, registryVars
<1>2. ~coreClosed
  BY <1>1, ZenonT(40) DEF ConnectionInv, Coherent, ShutdownInv
<1> QED
  BY <1>1, <1>2, CloseFromCoreStep

LEMMA OnTransportClosedStep == ConnectionInv /\ OnTransportClosed => ConnectionInv'
<1> SUFFICES ASSUME ConnectionInv, OnTransportClosed PROVE ConnectionInv'
  OBVIOUS
<1>1. /\ reports > 0 /\ reports' = reports - 1 /\ core' = "closed" /\ coreClosed' = TRUE
      /\ UNCHANGED <<svc, start, named, registered, listed, tornDown, sd, scopeDead,
                    socket, peerGone, reader, w>>
  BY DEF OnTransportClosed, registryVars, shutdownVars
<1>2. TypeOK'
  BY <1>1 DEF ConnectionInv, TypeOK
<1>3. reports' \in Nat /\ reports \in Nat /\ reports' <= reports
  BY <1>1, Kinds
<1>4. named /\ (start = "over" \/ sd.at = "done")
  BY <1>1, <1>3, Kinds DEF ConnectionInv, Coherent, StartInv
<1>6. StartInv'
  BY <1>1, <1>3, <1>4, Kinds DEF ConnectionInv, Coherent, StartInv
<1>7. ShutdownInv' /\ RegistryInv' /\ CoreInv'
  BY <1>1, Kinds, ZenonT(40) DEF ConnectionInv, Coherent, ShutdownInv, RegistryInv, CoreInv
<1>5. DrainInv'
  BY <1>1, Kinds DEF ConnectionInv, Coherent, StartInv, DrainInv, Excused, Free,
    ShuttingDown
<1> QED
  BY <1>2, <1>5, <1>6, <1>7 DEF ConnectionInv, Coherent

-----------------------------------------------------------------------------
(* The service and the peer.                                               *)

\* A step of the service's, or the peer's, own.
LEMMA AloneStep ==
    ASSUME ConnectionInv,
           UNCHANGED <<start, named, core, reports, registered, listed, coreClosed,
                       tornDown, sd, scopeDead, socket, reader, w>>,
           svc' \in {"up", "stopping", "stopped", "restarted"}, svc # "up" => svc' # "up",
           peerGone' \in BOOLEAN, peerGone => peerGone'
    PROVE  ConnectionInv'
<1>1. TypeOK'
  BY DEF ConnectionInv, TypeOK
<1>2. StartInv' /\ ShutdownInv'
  BY ZenonT(40) DEF ConnectionInv, Coherent, StartInv, ShutdownInv
<1>3. RegistryInv' /\ CoreInv'
  BY DEF ConnectionInv, Coherent, RegistryInv, CoreInv
<1>4. DrainInv'
  BY Kinds DEF ConnectionInv, Coherent, DrainInv, Excused, Free, ShuttingDown
<1> QED
  BY <1>1, <1>2, <1>3, <1>4 DEF ConnectionInv, Coherent

LEMMA ShutdownAllStep == ConnectionInv /\ ShutdownAll => ConnectionInv'
<1> SUFFICES ASSUME ConnectionInv, ShutdownAll PROVE ConnectionInv'
  OBVIOUS
<1>1. /\ svc' = "stopping"
      /\ UNCHANGED <<start, named, core, reports, registered, listed, coreClosed,
                    scopeDead, socket, peerGone, reader, w>>
  BY DEF ShutdownAll, registryVars
<1>2. (registered /\ Begins("main", TRUE, FALSE)) \/ UNCHANGED <<tornDown, sd>>
  BY ShutdownBegins, ZenonT(40) DEF ShutdownAll, Threads
<1>4. CASE tornDown' = tornDown /\ sd' = sd
  <2>1. peerGone' \in BOOLEAN
    BY <1>1, Kinds
  <2> QED
    BY <1>1, <1>4, <2>1, AloneStep
<1>5. CASE /\ registered /\ ~tornDown /\ tornDown' = TRUE /\ sd' \in Teardown
           /\ sd'.at = "close" /\ sd'.by = "main" /\ sd'.report = TRUE
  <2>1. start # "begin" /\ start # "open"
    BY <1>5, Kinds, ZenonT(40) DEF ConnectionInv, Coherent, RegistryInv, StartInv
  <2>2. Coherent'
    BY <1>1, <1>5, <2>1, Kinds, ZenonT(40) DEF ConnectionInv, Coherent, StartInv, ShutdownInv,
      RegistryInv, CoreInv, DrainInv, Excused, Free, ShuttingDown
  <2>3. TypeOK'
    BY <1>1, <1>5 DEF ConnectionInv, TypeOK
  <2> QED
    BY <2>2, <2>3 DEF ConnectionInv
<1> QED
  BY <1>2, <1>4, <1>5, Kinds, ZenonT(40) DEF Begins

\* What the service and the peer do by themselves.
LEMMA OutsideStep ==
    ConnectionInv /\ (ScopeCancelled \/ Restart \/ PeerCloses \/ UNCHANGED vars)
        => ConnectionInv'
<1> SUFFICES ASSUME ConnectionInv, ScopeCancelled \/ Restart \/ PeerCloses \/ UNCHANGED vars
             PROVE  ConnectionInv'
  OBVIOUS
<1>1. /\ UNCHANGED <<start, named, core, reports, registered, listed, coreClosed,
                    tornDown, sd, scopeDead, socket, reader, w>>
      /\ svc' \in {"up", "stopping", "stopped", "restarted"} /\ (svc # "up" => svc' # "up")
      /\ peerGone' \in BOOLEAN /\ (peerGone => peerGone')
  BY ZenonT(40) DEF ScopeCancelled, Restart, PeerCloses, vars, registryVars, shutdownVars,
    ConnectionInv, TypeOK
<1> QED
  BY <1>1, AloneStep

-----------------------------------------------------------------------------

LEMMA InitHolds == Init => ConnectionInv
<1> SUFFICES ASSUME Init PROVE ConnectionInv
  OBVIOUS
<1>0. /\ start = "begin" /\ named = FALSE /\ core = "none" /\ reports = 0
      /\ reader = "none"
  BY Zenon DEF Init
<1>1. sd \in Teardown /\ sd.at = "none"
  BY ZenonT(40) DEF Init, Teardown
<1>2. 0 \in 0..MaxQueue
  BY QueueAssumption
<1>3. /\ w \in Writer /\ w.at = "none" /\ w.queue = 0 /\ w.finishing = FALSE
      /\ w.closed = FALSE /\ w.deadline = "none"
  BY <1>2, ZenonT(40) DEF Init, Writer
<1>4. reports \in 0..2
  BY <1>0
<1>5. TypeOK
  BY <1>1, <1>3, <1>4, Zenon DEF Init, TypeOK
<1>6. StartInv
  BY <1>0, <1>1, <1>3 DEF StartInv
<1>7. ShutdownInv /\ RegistryInv /\ CoreInv
  BY <1>1, <1>3, ZenonT(40) DEF Init, ShutdownInv, RegistryInv, CoreInv
<1>8. DrainInv
  BY <1>1, <1>3, ZenonT(40) DEF Init, DrainInv, Free, ShuttingDown
<1> QED
  BY <1>5, <1>6, <1>7, <1>8 DEF ConnectionInv, Coherent

LEMMA NextHolds == ConnectionInv /\ [Next]_vars => ConnectionInv'
<1> SUFFICES ASSUME ConnectionInv, [Next]_vars PROVE ConnectionInv'
  OBVIOUS
<1>1. CASE Start
  BY <1>1, StartCancelledStep, StartBeginStep, StartOpenStep, StartRefusedStep,
    StartNameStep, StartRegisterStep, StartCheckStep, StartLaunchStep DEF Start
<1>2. CASE ShutdownStep
  BY <1>2, ShutdownCloseStep, ShutdownRemoveStep, ShutdownReportStep DEF ShutdownStep
<1>3. CASE WriterReady \/ WriterWrites \/ DrainDeadline
  BY <1>3, WriterStartStep, WriterTakeStep, WriterWritesStep, WriterFailsStep,
    WriterLeavesStep, DrainDeadlineStep DEF WriterReady
<1>4. CASE ReaderReady \/ ReaderReads
  BY <1>4, ReaderStartStep, ReaderReadsStep, ReaderEndsStep, ReaderEndsLateStep,
    ReaderStopsStep, ReaderFinallyStep, OnBytesClosedStep, OnBytesStep DEF ReaderReady
<1>5. CASE SyncFrame \/ Duplicate \/ TickExpires \/ OnTransportClosed \/ ShutdownAll
  BY <1>5, SyncFrameStep, DuplicateStep, TickExpiresStep, OnTransportClosedStep,
    ShutdownAllStep
<1>6. CASE ScopeCancelled \/ Restart \/ PeerCloses \/ UNCHANGED vars
  BY <1>6, OutsideStep
<1> QED
  BY <1>1, <1>2, <1>3, <1>4, <1>5, <1>6 DEF Next

LEMMA Invariance == Spec => []ConnectionInv
BY InitHolds, NextHolds, PTL DEF Spec

(***************************************************************************)
(* However the threads of a connection race to tear it down, once it has   *)
(* come to rest its socket is closed, the registry has forgotten it and    *)
(* the core has no link for it (LinkConnection.kt, shutdown and start).    *)
(***************************************************************************)
THEOREM TeardownIsComplete == Spec => []NothingLeft
<1>1. ConnectionInv => NothingLeft
  <2> SUFFICES ASSUME ConnectionInv PROVE NothingLeft
    OBVIOUS
  <2>1. TypeOK
    BY DEF ConnectionInv
  <2>2. SUFFICES ASSUME AtRest, tornDown
                 PROVE  /\ socket = "closed" /\ ~registered /\ ~listed
                        /\ core \in {"none", "closed"}
    BY <2>1 DEF NothingLeft
  <2>3. start = "over" /\ sd.at = "done" /\ reports = 0
    BY <2>2, Kinds, ZenonT(40) DEF AtRest, ShuttingDown, ConnectionInv, Coherent, ShutdownInv
  <2>4. socket = "closed" /\ ~registered /\ ~listed
    BY <2>2, <2>3, Kinds, ZenonT(40) DEF ConnectionInv, Coherent, ShutdownInv, RegistryInv
  <2>5. core \in {"none", "closed"}
    BY <2>1, <2>2, <2>3 DEF ConnectionInv, Coherent, CoreInv, TypeOK
  <2> QED
    BY <2>4, <2>5
<1> QED
  BY <1>1, Invariance, PTL

(***************************************************************************)
(* A link that the core has up, and that is not being torn down, is in     *)
(* both maps of the registry (ConnectionRegistry.kt): start() registers it *)
(* before any thread can establish it.                                     *)
(***************************************************************************)
THEOREM EstablishedAreListed == Spec => []EstablishedIsListed
<1>1. ConnectionInv => EstablishedIsListed
  BY Kinds DEF ConnectionInv, Coherent, RegistryInv, EstablishedIsListed
<1> QED
  BY <1>1, Invariance, PTL

(***************************************************************************)
(* The socket is not closed under the final frame of a link the core has   *)
(* closed, except by the drain deadline, a duplicate, the peer or the end  *)
(* of the service (FrameWriter.kt, finish; LinkConnection.kt,              *)
(* closeFromCore).                                                         *)
(***************************************************************************)
THEOREM FinalFramesGoFirst == Spec => FinalFrameFirst
<1> DEFINE Cut == socket = "open" /\ socket' = "closed" /\ w.deadline = "armed" =>
                    \/ w.queue = 0 /\ w.at # "write"
                    \/ peerGone \/ svc # "up"
                    \/ sd.by \in {"deadline", "other"}
<1>1. ConnectionInv /\ [Next]_vars => [Cut]_vars
  <2> SUFFICES ASSUME ConnectionInv, [Next]_vars, socket = "open", socket' = "closed",
                      w.deadline = "armed"
               PROVE  Excused
    BY Zenon DEF Excused
  <2>1. ShutdownClose
    BY DEF Next, Start, StartCancelled, StartBegin, StartOpen, StartRefused, StartName,
      StartRegister, StartCheck, StartLaunch, ShutdownStep, ShutdownRemove, ShutdownReport,
      WriterReady, WriterStart, WriterTake, WriterFails, WriterLeaves, WriterWrites,
      DrainDeadline, ReaderReady, ReaderStart, ReaderEnds, ReaderEndsLate, ReaderStops,
      ReaderFinally, OnBytesClosed, OnBytes, ReaderReads, SyncFrame, Duplicate, TickExpires,
      OnTransportClosed, ShutdownAll, ScopeCancelled, Restart, PeerCloses, vars, shutdownVars
  <2> QED
    BY <2>1 DEF ShutdownClose, ConnectionInv, Coherent, DrainInv
<1> QED
  BY <1>1, Invariance, PTL DEF Spec, FinalFrameFirst

-----------------------------------------------------------------------------
(* Duplicate links.                                                        *)

\* The links that a core has opened.
Registered(n) == {l \in Links : id[n][l] # 0}

\* What the variables hold: a link has an id once it is open, and no id is
\* larger than the number of links that have one.
LinksTyped ==
    /\ id \in [Nodes -> [Links -> Nat]]
    /\ phase \in [Nodes -> [Links -> {"new", "open", "established", "draining", "closed"}]]
    /\ lost \subseteq Links
    /\ \A n \in Nodes, l \in Links : /\ phase[n][l] = "new" => id[n][l] = 0
                                     /\ id[n][l] <= Cardinality(Registered(n))
    /\ \A n \in Nodes, l, m \in Links : id[n][l] = id[n][m] /\ id[n][l] # 0 => l = m

\* A node lists one link as established, or none.
OneListed == \A n \in Nodes : \A l, m \in EstablishedAt(n) : l = m

\* The link p ends by the hand of a core alone.
EndsByCore(p) == \A n \in Nodes : phase[n][p] \in {"draining", "closed"} => p \in lost

DuplicatesInv(p) == LinksTyped /\ OneListed /\ EndsByCore(p)

LEMMA OtherNode ==
    ASSUME NEW n \in Nodes
    PROVE  Other(n) \in Nodes /\ Other(n) # n
<1>1. \E m \in Nodes : m # n
  BY DEF Nodes
<1> QED
  BY <1>1, Zenon DEF Other

\* A set with fewer than two elements has no two.
LEMMA FewerThanTwo ==
    ASSUME NEW S, IsFiniteSet(S), Cardinality(S) < 2, NEW x \in S, NEW y \in S
    PROVE  x = y
<1> SUFFICES ASSUME x # y PROVE FALSE
  OBVIOUS
<1>1. IsFiniteSet({x}) /\ Cardinality({x}) = 1
  BY FS_Singleton, Zenon
<1>2. IsFiniteSet({x} \cup {y}) /\ Cardinality({x} \cup {y}) = 2
  <2>1. y \notin {x}
    OBVIOUS
  <2>2. Cardinality({x} \cup {y}) = Cardinality({x}) + 1 /\ IsFiniteSet({x} \cup {y})
    BY <1>1, <2>1, FS_AddElement, Zenon
  <2> QED
    BY <1>1, <2>2
<1>3. ({x} \cup {y}) \subseteq S
  OBVIOUS
<1>4. Cardinality({x} \cup {y}) <= Cardinality(S) /\ Cardinality(S) \in Nat
  BY <1>3, FS_Subset, FS_CardinalityType
<1> QED
  BY <1>2, <1>4

LEMMA NoTwo ==
    ASSUME NEW S, \A x, y \in S : x = y
    PROVE  Cardinality(S) \in Nat /\ Cardinality(S) <= 1
<1>1. CASE S = {}
  BY <1>1, FS_EmptySet
<1>2. CASE S # {}
  <2>1. PICK x : x \in S
    BY <1>2
  <2>2. S = {x}
    BY <2>1
  <2> QED
    BY <2>2, FS_Singleton
<1> QED
  BY <1>1, <1>2

\* Whatever the rule keeps, it keeps one link.
LEMMA OneKept ==
    ASSUME NEW n \in Nodes, NEW ls \in SUBSET Links,
           NEW x \in ls \ Victims(n, ls), NEW y \in ls \ Victims(n, ls)
    PROVE  x = y
<1>1. IsFiniteSet(ls) /\ Cardinality(ls) \in Nat
  BY LinksAssumption, FS_Subset, FS_CardinalityType
<1>2. CASE Cardinality(ls) < 2
  BY <1>1, <1>2, FewerThanTwo
<1>3. CASE Cardinality(ls) >= 2
  <2>1. ~(Cardinality(ls) < 2)
    BY <1>1, <1>3
  <2>2. Victims(n, ls) = ls \/ Victims(n, ls) = ls \ {Keeper(n, ls)}
    BY <1>3, <2>1, Zenon DEF Victims
  <2> QED
    BY <2>2
<1> QED
  BY <1>1, <1>2, <1>3

\* The link that the rule prefers is what both ends keep, wherever they have
\* it: it is the one candidate at the end that initiated it and at the other.
LEMMA PreferredKept ==
    ASSUME LinksTyped,
           NEW p \in Links, Preferred = {p}, Fingerprint["a"] # Fingerprint["b"],
           NEW n \in Nodes, NEW ls \in SUBSET Links, p \in ls
    PROVE  p \notin Victims(n, ls)
<1>1. /\ Other(n) \in Nodes /\ Other(n) # n
      /\ \A l \in Links : Other(Initiator[l]) \in Nodes /\ Other(Initiator[l]) # Initiator[l]
  BY OtherNode, LinksAssumption
<1>2. Fingerprint[n] # Fingerprint[Other(n)]
  BY <1>1 DEF Nodes
<1>3. \A l \in Links : l \in Preferred <=> (WeInitiated(n, l) = (Fingerprint[n] < Fingerprint[Other(n)]))
  <2> SUFFICES ASSUME NEW l \in Links
               PROVE  l \in Preferred <=> (WeInitiated(n, l) = (Fingerprint[n] < Fingerprint[Other(n)]))
    OBVIOUS
  <2>1. Fingerprint[n] \in Nat /\ Fingerprint[Other(n)] \in Nat
    BY <1>1, LinksAssumption
  <2>2. CASE Initiator[l] = n
    BY <1>2, <2>1, <2>2 DEF Preferred, WeInitiated
  <2>3. CASE Initiator[l] # n
    <3>1. Initiator[l] = Other(n) /\ Other(Initiator[l]) = n
      BY <1>1, <2>3, LinksAssumption DEF Nodes
    <3> QED
      BY <1>2, <2>1, <2>3, <3>1 DEF Preferred, WeInitiated
  <2> QED
    BY <2>2, <2>3
<1>4. {l \in ls : WeInitiated(n, l) = (Fingerprint[n] < Fingerprint[Other(n)])} = {p}
  BY <1>3
<1>5. Lowest(n, {p}) \in {p}
  <2>1. \E l \in {p} : \A m \in {p} : id[n][l] <= id[n][m]
    BY DEF LinksTyped
  <2> QED
    BY <2>1 DEF Lowest
<1>6. Keeper(n, ls) = p
  BY <1>4, <1>5 DEF Keeper
<1> QED
  BY <1>2, <1>6 DEF Victims

-----------------------------------------------------------------------------
LEMMA LinksInitHolds ==
    ASSUME LinksInit, NEW p \in Links
    PROVE  DuplicatesInv(p)
<1>1. \A n \in Nodes : Registered(n) = {}
  BY DEF LinksInit, Registered
<1>2. \A n \in Nodes : Cardinality(Registered(n)) = 0
  BY <1>1, FS_EmptySet
<1>3. LinksTyped
  BY <1>2 DEF LinksInit, LinksTyped
<1> QED
  BY <1>3 DEF LinksInit, DuplicatesInv, OneListed, EndsByCore, EstablishedAt

\* A link that is registered takes an id above all others of the node.
LEMMA RegisterTyped ==
    ASSUME LinksTyped, NEW n \in Nodes, NEW l \in Links, Register(n, l)
    PROVE  LinksTyped'
<1>1. id[n][l] = 0 /\ l \notin Registered(n)
  BY ZenonT(40) DEF Register, LinksTyped, Registered
<1>2. /\ id' = [id EXCEPT ![n] = [id[n] EXCEPT ![l] = NextId(n)]]
      /\ phase' = [phase EXCEPT ![n] = [phase[n] EXCEPT ![l] = "open"]]
      /\ lost' = lost
  BY DEF Register, LinksTyped
<1>3. IsFiniteSet(Registered(n)) /\ Cardinality(Registered(n)) \in Nat
  BY LinksAssumption, FS_Subset, FS_CardinalityType DEF Registered
<1>4. NextId(n) = Cardinality(Registered(n)) + 1 /\ NextId(n) \in Nat /\ NextId(n) # 0
  BY <1>3 DEF NextId, Registered
<1>5. /\ id' \in [Nodes -> [Links -> Nat]]
      /\ phase' \in [Nodes -> [Links -> {"new", "open", "established", "draining", "closed"}]]
      /\ \A m \in Links : m # l => id'[n][m] = id[n][m] /\ phase'[n][m] = phase[n][m]
      /\ id'[n][l] = NextId(n) /\ phase'[n][l] = "open"
      /\ \A o \in Nodes : o # n => id'[o] = id[o] /\ phase'[o] = phase[o]
  BY <1>2, <1>4, Zenon DEF LinksTyped
<1>6. Registered(n)' = Registered(n) \cup {l}
  BY <1>4, <1>5, ZenonT(40) DEF Registered
<1>7. Cardinality(Registered(n)') = Cardinality(Registered(n)) + 1
  BY <1>1, <1>3, <1>6, FS_AddElement, ZenonT(40)
<1>8. \A o \in Nodes : o # n => Registered(o)' = Registered(o)
  BY <1>5 DEF Registered
<1>9. \A o \in Nodes, m \in Links : /\ phase'[o][m] = "new" => id'[o][m] = 0
                                    /\ id'[o][m] <= Cardinality(Registered(o)')
  <2> SUFFICES ASSUME NEW o \in Nodes, NEW m \in Links
               PROVE  /\ phase'[o][m] = "new" => id'[o][m] = 0
                      /\ id'[o][m] <= Cardinality(Registered(o)')
    BY Zenon
  <2>1. /\ phase[o][m] = "new" => id[o][m] = 0
        /\ id[o][m] <= Cardinality(Registered(o)) /\ id[o][m] \in Nat
    BY ZenonT(40) DEF LinksTyped
  <2>2. CASE o # n
    BY <1>5, <1>8, <2>1, <2>2, ZenonT(40)
  <2>3. CASE o = n
    BY <1>3, <1>4, <1>5, <1>7, <2>1, <2>3
  <2> QED
    BY <2>2, <2>3
<1>10. \A o \in Nodes, k, m \in Links : id'[o][k] = id'[o][m] /\ id'[o][k] # 0 => k = m
  <2> SUFFICES ASSUME NEW o \in Nodes, NEW k \in Links, NEW m \in Links,
                      id'[o][k] = id'[o][m], id'[o][k] # 0
               PROVE  k = m
    OBVIOUS
  <2>1. CASE o # n
    BY <1>5, <2>1 DEF LinksTyped
  <2>2. CASE o = n
    <3>1. id[n][k] < NextId(n) /\ id[n][m] < NextId(n)
      <4>1. /\ id[n][k] <= Cardinality(Registered(n)) /\ id[n][k] \in Nat
            /\ id[n][m] <= Cardinality(Registered(n)) /\ id[n][m] \in Nat
        BY ZenonT(40) DEF LinksTyped
      <4> QED
        BY <1>3, <1>4, <4>1
    <3>2. id[n][k] \in Nat /\ id[n][m] \in Nat
      BY ZenonT(40) DEF LinksTyped
    <3>3. CASE k = l
      BY <1>4, <1>5, <2>2, <3>1, <3>2, <3>3
    <3>4. CASE m = l
      BY <1>4, <1>5, <2>2, <3>1, <3>2, <3>4
    <3>5. CASE k # l /\ m # l
      BY <1>5, <2>2, <3>5 DEF LinksTyped
    <3> QED
      BY <3>3, <3>4, <3>5, ZenonT(40)
  <2> QED
    BY <2>1, <2>2, ZenonT(40)
<1> QED
  BY <1>2, <1>5, <1>9, <1>10 DEF LinksTyped

LEMMA RegisterKeeps ==
    ASSUME NEW p \in Links, DuplicatesInv(p), NEW n \in Nodes, NEW l \in Links, Register(n, l)
    PROVE  DuplicatesInv(p)'
<1>1. LinksTyped /\ LinksTyped'
  BY RegisterTyped, Zenon DEF DuplicatesInv
<1>2. /\ phase' = [phase EXCEPT ![n] = [phase[n] EXCEPT ![l] = "open"]]
      /\ lost' = lost
  BY <1>1, Zenon DEF Register, LinksTyped
<1>3. \A o \in Nodes, m \in Links : phase'[o][m] = phase[o][m] \/ phase'[o][m] = "open"
  BY <1>1, <1>2, Zenon DEF LinksTyped
<1>4. \A o \in Nodes : EstablishedAt(o)' \subseteq EstablishedAt(o)
  BY <1>3 DEF EstablishedAt
<1>5. OneListed'
  BY <1>4 DEF DuplicatesInv, OneListed
<1>6. EndsByCore(p)'
  BY <1>2, <1>3, Zenon DEF DuplicatesInv, EndsByCore
<1> QED
  BY <1>1, <1>5, <1>6 DEF DuplicatesInv

\* The steps after registration keep the ids and start no link.
LEMMA PhaseTyped ==
    ASSUME LinksTyped, id' = id, lost' \subseteq Links,
           phase' \in [Nodes -> [Links -> {"new", "open", "established", "draining", "closed"}]],
           \A n \in Nodes, l \in Links : phase'[n][l] = "new" => phase[n][l] = "new"
    PROVE  LinksTyped'
<1>1. \A n \in Nodes : Registered(n)' = Registered(n)
  BY DEF Registered
<1> QED
  BY <1>1 DEF LinksTyped

LEMMA OnEstablishedKeeps ==
    ASSUME NEW p \in Links, Preferred = {p}, Fingerprint["a"] # Fingerprint["b"],
           DuplicatesInv(p), NEW n \in Nodes, NEW l \in Links, OnEstablished(n, l)
    PROVE  DuplicatesInv(p)'
<1> DEFINE ls == EstablishedAt(n) \cup {l}
<1>1. ls \in SUBSET Links
  BY DEF EstablishedAt
<1>2. LinksTyped
  BY DEF DuplicatesInv
<1>3. /\ phase[n][l] = "open" /\ id' = id /\ lost' = lost
      /\ phase' = [phase EXCEPT ![n] =
                      [m \in Links |-> IF m \in Victims(n, ls) THEN "closed"
                                       ELSE IF m = l THEN "established" ELSE phase[n][m]]]
  BY <1>2, Zenon DEF OnEstablished, LinksTyped
<1>4. \A m \in Links : phase'[n][m] = IF m \in Victims(n, ls) THEN "closed"
                                      ELSE IF m = l THEN "established" ELSE phase[n][m]
  BY <1>2, <1>3 DEF LinksTyped
<1>5. \A o \in Nodes : o # n => phase'[o] = phase[o]
  BY <1>2, <1>3, Zenon DEF LinksTyped
<1>6. phase' \in [Nodes -> [Links -> {"new", "open", "established", "draining", "closed"}]]
  BY <1>2, <1>3, ZenonT(40) DEF LinksTyped
<1>7. LinksTyped'
  <2>1. \A o \in Nodes, m \in Links : phase'[o][m] = "new" => phase[o][m] = "new"
    BY <1>4, <1>5
  <2> QED
    BY <1>2, <1>3, <1>6, <2>1, PhaseTyped, ZenonT(40) DEF LinksTyped
<1>8. OneListed'
  <2> SUFFICES ASSUME NEW o \in Nodes, NEW x \in EstablishedAt(o)', NEW y \in EstablishedAt(o)'
               PROVE  x = y
    BY DEF OneListed
  <2>1. CASE o # n
    <3>1. EstablishedAt(o)' = EstablishedAt(o)
      BY <1>5, <2>1 DEF EstablishedAt
    <3> QED
      BY <3>1, Zenon DEF DuplicatesInv, OneListed
  <2>2. CASE o = n
    <3>1. \A m \in EstablishedAt(n)' : m \in ls \ Victims(n, ls)
      BY <1>4, Zenon DEF EstablishedAt
    <3> QED
      BY <1>1, <2>2, <3>1, OneKept, Zenon
  <2> QED
    BY <2>1, <2>2
<1>9. EndsByCore(p)'
  <2> SUFFICES ASSUME NEW o \in Nodes, phase'[o][p] \in {"draining", "closed"}
               PROVE  p \in lost
    BY <1>3, Zenon DEF EndsByCore
  <2>1. phase[o][p] \in {"draining", "closed"} \/ (o = n /\ p \in Victims(n, ls))
    BY <1>4, <1>5
  <2>2. p \in Victims(n, ls) => p \in ls
    BY Zenon DEF Victims
  <2>3. p \notin Victims(n, ls)
    BY <1>1, <1>2, <2>2, PreferredKept
  <2> QED
    BY <2>1, <2>3 DEF DuplicatesInv, EndsByCore
<1> QED
  BY <1>7, <1>8, <1>9, Zenon DEF DuplicatesInv

\* A link that ends, or drains, was listed if it still is.
LEMMA EndingKeeps ==
    ASSUME NEW p \in Links, DuplicatesInv(p), NEW n \in Nodes, NEW l \in Links,
           CoreCloses(n, l) \/ Drained(n, l) \/ RemoteClosed(n, l)
    PROVE  DuplicatesInv(p)'
<1>1. LinksTyped
  BY DEF DuplicatesInv
<1>2. PICK s \in {"draining", "closed"} :
        /\ phase' = [phase EXCEPT ![n] = [phase[n] EXCEPT ![l] = s]]
        /\ s = "draining" => phase[n][l] = "established"
  <2>1. phase[n] \in [Links -> {"new", "open", "established", "draining", "closed"}]
    BY <1>1 DEF LinksTyped
  <2>2. \A s : [phase EXCEPT ![n][l] = s] = [phase EXCEPT ![n] = [phase[n] EXCEPT ![l] = s]]
    BY <1>1, Zenon DEF LinksTyped
  <2> QED
    BY <2>2 DEF CoreCloses, Drained, RemoteClosed
<1>3. /\ id' = id /\ lost' \subseteq Links /\ lost \subseteq lost'
      /\ phase[n][l] \in {"draining"} \/ phase[Other(n)][l] \in {"draining", "closed"} \/ l \in lost'
  BY <1>1 DEF CoreCloses, Drained, RemoteClosed, LinksTyped
<1>4. /\ phase' \in [Nodes -> [Links -> {"new", "open", "established", "draining", "closed"}]]
      /\ phase'[n][l] = s
      /\ \A o \in Nodes, m \in Links : o # n \/ m # l => phase'[o][m] = phase[o][m]
  BY <1>1, <1>2, Zenon DEF LinksTyped
<1>5. LinksTyped'
  <2>1. \A o \in Nodes, m \in Links : phase'[o][m] = "new" => phase[o][m] = "new"
    BY <1>2, <1>4
  <2> QED
    BY <1>1, <1>3, <1>4, <2>1, PhaseTyped
<1>6. OneListed'
  <2>1. \A o \in Nodes : EstablishedAt(o)' \subseteq EstablishedAt(o)
    BY <1>2, <1>4, ZenonT(40) DEF EstablishedAt
  <2> QED
    BY <2>1 DEF DuplicatesInv, OneListed
<1>7. EndsByCore(p)'
  <2> SUFFICES ASSUME NEW o \in Nodes, phase'[o][p] \in {"draining", "closed"}
               PROVE  p \in lost'
    BY Zenon DEF EndsByCore
  <2>1. CASE o # n \/ p # l
    BY <1>3, <1>4, <2>1, Zenon DEF DuplicatesInv, EndsByCore
  <2>2. CASE o = n /\ p = l
    BY <1>3, <2>2, OtherNode DEF DuplicatesInv, EndsByCore
  <2> QED
    BY <2>1, <2>2, Zenon
<1> QED
  BY <1>5, <1>6, <1>7 DEF DuplicatesInv

LEMMA LinksNextKeeps ==
    ASSUME NEW p \in Links, Preferred = {p}, Fingerprint["a"] # Fingerprint["b"],
           DuplicatesInv(p), [LinksNext]_linksVars
    PROVE  DuplicatesInv(p)'
<1>1. CASE LinksNext
  BY <1>1, RegisterKeeps, OnEstablishedKeeps, EndingKeeps, ZenonT(40) DEF LinksNext
<1>2. CASE UNCHANGED linksVars
  <2>1. id' = id /\ phase' = phase /\ lost' = lost /\ LinksTyped
    BY <1>2, Zenon DEF linksVars, DuplicatesInv
  <2>2. LinksTyped'
    BY <2>1, PhaseTyped DEF LinksTyped
  <2> QED
    BY <2>1, <2>2 DEF DuplicatesInv, OneListed, EstablishedAt, EndsByCore
<1> QED
  BY <1>1, <1>2

LEMMA DuplicatesEnd ==
    ASSUME NEW p \in Links, Preferred = {p}, DuplicatesInv(p)
    PROVE  OneSurvives
<1>1. LinksTypeOK
  <2>1. \A n \in Nodes : Cardinality(Registered(n)) <= Cardinality(Links)
    BY LinksAssumption, FS_Subset, ZenonT(40) DEF Registered
  <2>2. /\ Cardinality(Links) \in Nat
        /\ \A n \in Nodes : Cardinality(Registered(n)) \in Nat
    BY LinksAssumption, FS_Subset, FS_CardinalityType DEF Registered
  <2>3. \A n \in Nodes, l \in Links : id[n][l] \in 0..Cardinality(Links)
    BY <2>1, <2>2 DEF DuplicatesInv, LinksTyped
  <2> QED
    BY <2>3, Zenon DEF DuplicatesInv, LinksTyped, LinksTypeOK
<1>2. Cardinality(Survivors) <= 1
  <2>1. \A x, y \in Survivors : x = y
    BY DEF Survivors, EstablishedAt, DuplicatesInv, OneListed, Nodes
  <2> QED
    BY <2>1, NoTwo, Zenon
<1>3. ASSUME Settled, Survivors = {} PROVE lost \cap Preferred # {}
  <2>1. PICK n \in Nodes : phase[n][p] # "established"
    BY <1>3, Zenon DEF Survivors
  <2>2. phase[n][p] = "closed"
    BY <1>3, <2>1 DEF Settled
  <2>3. p \in lost
    BY <2>2 DEF DuplicatesInv, EndsByCore
  <2> QED
    BY <2>3, Zenon
<1> QED
  BY <1>1, <1>2, <1>3, Zenon DEF OneSurvives

(***************************************************************************)
(* Of any number of links between two nodes, of which the node with the    *)
(* smaller fingerprint has initiated exactly one, both ends keep the same: *)
(* when all is settled at most one is left, and it is lost to a core       *)
(* alone.  (With more of them the ends may keep different ones: each       *)
(* compares its own ids.)                                                  *)
(***************************************************************************)
THEOREM BothKeepTheSame ==
    ASSUME NEW p \in Links, Preferred = {p}, Fingerprint["a"] # Fingerprint["b"]
    PROVE  LinksSpec => []OneSurvives
<1>1. LinksInit => DuplicatesInv(p)
  BY LinksInitHolds
<1>2. DuplicatesInv(p) /\ [LinksNext]_linksVars => DuplicatesInv(p)'
  BY LinksNextKeeps
<1>3. DuplicatesInv(p) => OneSurvives
  BY DuplicatesEnd
<1> QED
  BY <1>1, <1>2, <1>3, PTL DEF LinksSpec
=============================================================================
