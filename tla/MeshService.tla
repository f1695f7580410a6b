----------------------------- MODULE MeshService -----------------------------
(***************************************************************************)
(* The foreground service (android mesh/MeshService.kt) over the process's *)
(* lives: its instances, the toggle of the screen, and the two BLE roles   *)
(* that an instance starts and stops.                                      *)
(*                                                                         *)
(* The callbacks of a service and the parts of its start coroutine run on  *)
(* the main thread, in the order in which the system hands them over.  The *)
(* platform answers on other threads.  The system makes a new instance for *)
(* a start request unless there is one that has not been told to stop.     *)
(***************************************************************************)
EXTENDS BlePeripheral, BleCentral, Sequences, Functions

CONSTANTS
    Scenarios   \* the bounds to look at, each a record of
                \*   last:   the last instance made
                \*   offs:   how often Bluetooth goes off
                \*   peers:  whether the scan finds addresses
                \*   time:   how long the clock goes on

ASSUME MeshAssumption ==
    /\ Instances \subseteq Nat \ {0}
    /\ Scenarios \subseteq [last : Instances, offs : Nat, peers : BOOLEAN, time : Nat]

VARIABLES
    scenario,   \* the bounds, which never change
    app,        \* RacnetApplication: "opening", "ready" or "error"
    radio,      \* whether Bluetooth is on
    offs,       \* how often it went off
    service,    \* instance -> how far it is
    record,     \* the instance that is started and not told to stop, or 0
    todo,       \* what the system has handed to the main thread
    scanning,   \* instance -> whether the platform scans for it
    running     \* runningState, which all instances share

serviceVars == <<scenario, app, radio, offs, service, record, todo, scanning, running>>
vars == <<serviceVars, peripheralVars, centralVars>>

\* "waiting": the start coroutine waits for the app.  "starting": it has started
\* the peripheral.  "failed": it has given up.  "gone": after onDestroy.
Phases == {"none", "created", "waiting", "starting", "up", "failed", "gone"}

Init ==
    /\ PeripheralInit
    /\ CentralInit
    /\ scenario \in Scenarios
    /\ app = "opening"
    /\ radio \in BOOLEAN /\ offs = 0
    /\ service = [i \in Instances |-> "none"]
    /\ record = 0 /\ todo = <<>>
    /\ scanning = [i \in Instances |-> FALSE]
    /\ running = FALSE

Alive(i) == service[i] \notin {"none", "gone"}
Made == {i \in Instances : service[i] # "none"} \cup {m.instance : m \in Range(todo)}
CanMake == \E i \in Instances \ Made : i <= scenario.last
NewInstance == Min(Instances \ Made)

Messages == [what : {"create", "start", "radio off", "destroy"}, instance : Instances]
Message(what, i) == [what |-> what, instance |-> i]
Creation(i) == <<Message("create", i), Message("start", i)>>

\* The start coroutine does not let go of the main thread in between.
MainIdle == \A i \in Instances : service[i] # "starting"

-----------------------------------------------------------------------------
(* The process and the screen. *)

AppOpens ==
    /\ app = "opening"
    /\ app' \in {"ready", "error"}
    /\ UNCHANGED <<scenario, radio, offs, service, record, todo, scanning, running, peripheralVars, centralVars>>

\* MeshService.start, by the toggle, which shows running.
UserStarts ==
    /\ app = "ready" /\ ~running
    /\ IF record = 0
         THEN CanMake /\ record' = NewInstance /\ todo' = todo \o Creation(NewInstance)
         ELSE /\ Message("start", record) \notin Range(todo)
              /\ todo' = Append(todo, Message("start", record))
              /\ UNCHANGED record
    /\ UNCHANGED <<scenario, app, radio, offs, service, scanning, running, peripheralVars, centralVars>>

\* stopSelf of an instance and stopService end its record; onDestroy follows.
Stopped(i, q) ==
    IF record = i
      THEN record' = 0 /\ todo' = Append(q, Message("destroy", i))
      ELSE todo' = q /\ UNCHANGED record

\* MeshService.stop.
UserStops ==
    /\ app = "ready" /\ running
    /\ record # 0
    /\ Stopped(record, todo)
    /\ UNCHANGED <<scenario, app, radio, offs, service, scanning, running, peripheralVars, centralVars>>

\* The process ends.  The service is START_STICKY: if it was to run, the system
\* makes a new process and starts it there.
ProcessKilled ==
    /\ record # 0 => CanMake
    /\ app' = "opening"
    /\ service' = [i \in Instances |-> IF i \in Made THEN "gone" ELSE "none"]
    /\ record' = IF record = 0 THEN 0 ELSE NewInstance
    /\ todo' = IF record = 0 THEN <<>> ELSE Creation(NewInstance)
    /\ running' = FALSE
    /\ scanning' = [i \in Instances |-> FALSE]
    /\ listening' = [i \in Instances |-> FALSE]
    /\ gattServer' = [i \in Instances |-> FALSE]
    /\ advertiser' = [i \in Instances |-> FALSE]
    /\ advertising' = [i \in Instances |-> FALSE]
    /\ answer' = [i \in Instances |-> IF i \in Made THEN "done" ELSE "none"]
    /\ CentralGone
    /\ UNCHANGED <<scenario, radio, offs>>

Receivers == {i \in Instances : Alive(i)}

\* Bluetooth goes off; the registered receivers will be told.
RadioOff ==
    /\ radio /\ offs < scenario.offs
    /\ radio' = FALSE /\ offs' = offs + 1
    /\ AdvertisingEnds
    /\ scanning' = [i \in Instances |-> FALSE]
    /\ \E q \in [1..Cardinality(Receivers) -> {Message("radio off", i) : i \in Receivers}] :
          IsInjective(q) /\ todo' = todo \o q
    /\ UNCHANGED <<scenario, app, service, record, running, centralVars>>

RadioOn ==
    /\ ~radio
    /\ radio' = TRUE
    /\ UNCHANGED <<scenario, app, offs, service, record, todo, scanning, running, peripheralVars, centralVars>>

-----------------------------------------------------------------------------
(* The service, on the main thread. *)

\* Mutant of Fail: the service is left running.
FailStays(i, q) ==
    /\ running' = FALSE
    /\ todo' = q
    /\ UNCHANGED record

\* fail, with a message for the screen.
Fail(i, q) ==
    /\ running' = FALSE
    /\ Stopped(i, q)

Phase(i, p) == service' = [service EXCEPT ![i] = p]

NextMessage(what, i) == MainIdle /\ todo # <<>> /\ Head(todo) = Message(what, i)

OnCreate(i) ==
    /\ NextMessage("create", i)
    /\ todo' = Tail(todo)
    /\ Phase(i, "created")
    /\ UNCHANGED <<scenario, app, radio, offs, record, scanning, running, peripheralVars, centralVars>>

\* onStartCommand; only the first one launches the coroutine.
OnStartCommand(i) ==
    /\ NextMessage("start", i)
    /\ todo' = Tail(todo)
    /\ IF service[i] = "created"
         THEN Phase(i, "waiting")
         ELSE UNCHANGED service
    /\ UNCHANGED <<scenario, app, radio, offs, record, scanning, running, peripheralVars, centralVars>>

\* onStartCommand, when startForeground is not permitted.
OnStartRefused(i) ==
    /\ NextMessage("start", i)
    /\ Fail(i, Tail(todo))
    /\ UNCHANGED <<scenario, app, radio, offs, service, scanning, peripheralVars, centralVars>>

\* The coroutine goes on once the app is ready: the peripheral starts ...
Start(i) ==
    /\ service[i] = "waiting" /\ MainIdle
    /\ app = "ready" /\ radio
    /\ StartPeripheral(i)
    /\ Phase(i, "starting")
    /\ UNCHANGED <<scenario, app, radio, offs, record, todo, scanning, running, centralVars>>

\* ... or something is wrong before that, or in it.
StartFails(i) ==
    /\ service[i] = "waiting" /\ MainIdle
    /\ app # "opening"
    /\ \/ UNCHANGED peripheralVars
       \/ app = "ready" /\ radio /\ StartThrows(i)
    /\ Phase(i, "failed")
    /\ Fail(i, todo)
    /\ UNCHANGED <<scenario, app, radio, offs, scanning, centralVars>>

\* The central starts, and with it the service is running.
StartCentral(i) ==
    /\ service[i] = "starting"
    /\ radio
    /\ scanning' = [scanning EXCEPT ![i] = TRUE]
    /\ Phase(i, "up")
    /\ running' = TRUE
    /\ UNCHANGED <<scenario, app, radio, offs, record, todo, peripheralVars, centralVars>>

\* The central does not start; the peripheral is left to onDestroy.
StartCentralFails(i) ==
    /\ service[i] = "starting"
    /\ Phase(i, "failed")
    /\ Fail(i, todo)
    /\ UNCHANGED <<scenario, app, radio, offs, scanning, peripheralVars, centralVars>>

\* radioReceiver.onReceive, unregistered in onDestroy.
OnRadioOff(i) ==
    /\ NextMessage("radio off", i)
    /\ IF Alive(i)
         THEN Fail(i, Tail(todo))
         ELSE todo' = Tail(todo) /\ UNCHANGED <<record, running>>
    /\ UNCHANGED <<scenario, app, radio, offs, service, scanning, peripheralVars, centralVars>>

\* Accepted connections that start() is registering while onDestroy runs.
LateAccepts(i) == IF scenario.peers /\ listening[i] THEN SUBSET Addrs ELSE {{}}

\* Mutant of OnDestroy: the screen is not told.
OnDestroyUnseen(i) ==
    /\ NextMessage("destroy", i)
    /\ todo' = Tail(todo)
    /\ Phase(i, "gone")
    /\ scanning' = [scanning EXCEPT ![i] = FALSE]
    /\ StopPeripheral(i)
    /\ \E late \in LateAccepts(i) : StopCentral(late)
    /\ UNCHANGED <<scenario, app, radio, offs, record, running>>

OnDestroy(i) ==
    /\ NextMessage("destroy", i)
    /\ todo' = Tail(todo)
    /\ Phase(i, "gone")
    /\ running' = FALSE
    /\ scanning' = [scanning EXCEPT ![i] = FALSE]
    /\ StopPeripheral(i)
    /\ \E late \in LateAccepts(i) : StopCentral(late)
    /\ UNCHANGED <<scenario, app, radio, offs, record>>

Callback(i) ==
    \/ OnCreate(i) \/ OnStartCommand(i) \/ OnStartRefused(i)
    \/ OnRadioOff(i) \/ OnDestroy(i)

Coroutine(i) == Start(i) \/ StartFails(i) \/ StartCentral(i) \/ StartCentralFails(i)

-----------------------------------------------------------------------------
(* The answers of the platform, and the central while it is up. *)

Answered(i) ==
    /\ OnServiceAdded(i) \/ StartAdvertising(i) \/ OnStartSuccess(i)
    /\ UNCHANGED <<serviceVars, centralVars>>

\* onFailure, called by the peripheral's callbacks, also after onDestroy.
PeripheralFails(i) ==
    /\ AnswerFails(i)
    /\ Fail(i, todo)
    /\ UNCHANGED <<scenario, app, radio, offs, service, scanning, centralVars>>

\* onScanFailed.
ScanFails(i) ==
    /\ scanning[i]
    /\ scanning' = [scanning EXCEPT ![i] = FALSE]
    /\ Fail(i, todo)
    /\ UNCHANGED <<scenario, app, radio, offs, service, peripheralVars, centralVars>>

\* The scope of the instance is active.
CentralWorks ==
    /\ scenario.peers
    /\ \E i \in Instances : service[i] = "up"
    /\ CentralStep
    /\ UNCHANGED <<serviceVars, peripheralVars>>

\* What a destroyed instance has left comes to its end.
LeftoverEnds ==
    /\ \E a \in Addrs : Unwind(a) \/ OrphanEnds(a)
    /\ UNCHANGED <<serviceVars, peripheralVars>>

TimePasses == clock < scenario.time /\ Elapse /\ UNCHANGED <<serviceVars, peripheralVars>>

Next ==
    \/ AppOpens \/ UserStarts \/ UserStops \/ ProcessKilled
    \/ RadioOff \/ RadioOn
    \/ \E i \in Instances :
          \/ Callback(i) \/ Coroutine(i)
          \/ Answered(i) \/ PeripheralFails(i) \/ ScanFails(i)
    \/ CentralWorks \/ LeftoverEnds \/ TimePasses

\* The app's start-up ends; the main thread gets to every callback it is handed
\* and to a coroutine that can go on, which waits in the same queue.
Spec ==
    /\ Init /\ [][Next]_vars
    /\ WF_vars(AppOpens)
    /\ \A i \in Instances : WF_vars(Callback(i)) /\ WF_vars(Coroutine(i))

-----------------------------------------------------------------------------
\* The state of the service has its types, and no two instances live at a time.
TypeOK ==
    /\ PeripheralTypeOK
    /\ app \in {"opening", "ready", "error"}
    /\ service \in [Instances -> Phases]
    /\ record \in Instances \cup {0}
    /\ todo \in Seq(Messages)
    /\ scanning \in [Instances -> BOOLEAN]
    /\ {radio, running} \subseteq BOOLEAN
    /\ \A i, j \in Instances : Alive(i) /\ Alive(j) => i = j

\* onServiceAdded was cut short by stop, and failed in the end.
FailedLate == \E i \in Instances : service[i] = "gone" /\ advertiser[i] /\ answer[i] = "done"

(***************************************************************************)
(* The toggle tells the truth ("Whether the service is running, for the UI *)
(* toggle"): when the main thread has nothing left to do, it is on exactly *)
(* if an instance is up, and then that instance scans, listens and, once   *)
(* the platform has answered, advertises.  Failures come on other threads, *)
(* some before the service has said that it is running.  Only the late     *)
(* failure of a destroyed instance can switch it off under the next one.   *)
(***************************************************************************)
ToggleTells ==
    todo = <<>> =>
        \A i \in Instances :
            /\ service[i] # "failed"
            /\ service[i] = "up" => /\ running \/ FailedLate
                                    /\ scanning[i]
                                    /\ answer[i] = "done" => Reachable(i)
            /\ running => \E j \in Instances : service[j] = "up"

(***************************************************************************)
(* A destroyed instance, however far it had come and whatever failed on    *)
(* its way, keeps no scan, no socket it listens on and no GATT server, and *)
(* no advertising unless onServiceAdded had read the advertiser just       *)
(* before stop cleared it.  Attempts and late connections are another      *)
(* matter: their scope is cancelled, and they end in their own time.       *)
(***************************************************************************)
StopReleases ==
    /\ TypeOK
    /\ \A i \in Instances : ~Alive(i) => Released(i) /\ ~scanning[i]

(***************************************************************************)
(* A start ends: every instance comes up or is destroyed, and one that is  *)
(* told to stop, by the user or by a failure, is destroyed.                *)
(***************************************************************************)
StartsConclude ==
    \A i \in Instances :
        /\ Alive(i) ~> service[i] \in {"up", "gone"}
        /\ (Alive(i) /\ record # i) ~> service[i] = "gone"
=============================================================================
