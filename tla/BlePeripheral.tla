---------------------------- MODULE BlePeripheral ----------------------------
(***************************************************************************)
(* The peripheral role of a node (android ble/BlePeripheral.kt), of which  *)
(* each instance of the mesh service makes one: it listens, offers its PSM *)
(* through a GATT server, and advertises once the platform has added the   *)
(* GATT service.  The platform's answers come on threads of its own while  *)
(* start and stop run on the main thread.  The actions here leave what an  *)
(* answer means for the service to module MeshService.                     *)
(***************************************************************************)
EXTENDS Naturals

CONSTANT Instances      \* of the service: 1 .. n, in the order they are made

VARIABLES
    listening,     \* instance -> whether serverSocket is open
    gattServer,    \* instance -> whether it is open
    advertiser,    \* instance -> whether the field is set
    advertising,   \* instance -> whether the platform advertises for it
    answer         \* instance -> how far the platform's answers have come

peripheralVars == <<listening, gattServer, advertiser, advertising, answer>>

\* "added": onServiceAdded is yet to be called.  "read": it has read the field
\* advertiser.  "started": startAdvertising was called, its result is not in.
\* "raced": it was called after stop.
Answers == {"none", "added", "read", "started", "raced", "done"}

PeripheralInit ==
    /\ listening = [i \in Instances |-> FALSE]
    /\ gattServer = [i \in Instances |-> FALSE]
    /\ advertiser = [i \in Instances |-> FALSE]
    /\ advertising = [i \in Instances |-> FALSE]
    /\ answer = [i \in Instances |-> "none"]

\* start, until addService has been accepted.
StartPeripheral(i) ==
    /\ listening' = [listening EXCEPT ![i] = TRUE]
    /\ gattServer' = [gattServer EXCEPT ![i] = TRUE]
    /\ advertiser' = [advertiser EXCEPT ![i] = TRUE]
    /\ answer' = [answer EXCEPT ![i] = "added"]
    /\ UNCHANGED advertising

\* start, when addService throws: what is open stays open.
StartThrows(i) ==
    /\ listening' = [listening EXCEPT ![i] = TRUE]
    /\ gattServer' = [gattServer EXCEPT ![i] = TRUE]
    /\ advertiser' = [advertiser EXCEPT ![i] = TRUE]
    /\ UNCHANGED <<advertising, answer>>

\* Mutant of StopPeripheral: the field is cleared before it is used.
StopPeripheralLate(i) ==
    /\ listening' = [listening EXCEPT ![i] = FALSE]
    /\ gattServer' = [gattServer EXCEPT ![i] = FALSE]
    /\ advertiser' = [advertiser EXCEPT ![i] = FALSE]
    /\ answer' = [answer EXCEPT ![i] = IF @ = "read" THEN @ ELSE "done"]
    /\ UNCHANGED advertising

\* stop.  A callback that is running goes on; the others are cut off by
\* stopAdvertising and close.
StopPeripheral(i) ==
    /\ listening' = [listening EXCEPT ![i] = FALSE]
    /\ advertising' = [advertising EXCEPT ![i] = @ /\ ~advertiser[i]]
    /\ advertiser' = [advertiser EXCEPT ![i] = FALSE]
    /\ gattServer' = [gattServer EXCEPT ![i] = FALSE]
    /\ answer' = [answer EXCEPT ![i] = IF @ = "read" THEN @ ELSE "done"]

\* onServiceAdded with success, up to the read of the field.
OnServiceAdded(i) ==
    /\ answer[i] = "added"
    /\ answer' = [answer EXCEPT ![i] = IF advertiser[i] THEN "read" ELSE "done"]
    /\ UNCHANGED <<listening, gattServer, advertiser, advertising>>

\* startAdvertising, with the advertiser that was read.
StartAdvertising(i) ==
    /\ answer[i] = "read"
    /\ advertiser' = [advertiser EXCEPT ![i] = TRUE]
    /\ advertising' = [advertising EXCEPT ![i] = TRUE]
    /\ answer' = [answer EXCEPT ![i] = IF listening[i] THEN "started" ELSE "raced"]
    /\ UNCHANGED <<listening, gattServer>>

OnStartSuccess(i) ==
    /\ answer[i] = "started"
    /\ answer' = [answer EXCEPT ![i] = "done"]
    /\ UNCHANGED <<listening, gattServer, advertiser, advertising>>

\* What makes the callbacks call onFailure: the service was not added, the
\* permission is gone, or advertising did not start.
AnswerFails(i) ==
    /\ answer[i] \in {"added", "read", "started", "raced"}
    /\ answer' = [answer EXCEPT ![i] = "done"]
    /\ advertiser' = [advertiser EXCEPT ![i] = @ \/ answer[i] = "read"]
    /\ advertising' = [advertising EXCEPT ![i] = FALSE]
    /\ UNCHANGED <<listening, gattServer>>

\* Bluetooth goes off, and with it what the platform does for any instance.
AdvertisingEnds ==
    /\ advertising' = [i \in Instances |-> FALSE]
    /\ UNCHANGED <<listening, gattServer, advertiser, answer>>

PeripheralTypeOK ==
    /\ {listening, gattServer, advertiser, advertising} \subseteq [Instances -> BOOLEAN]
    /\ answer \in [Instances -> Answers]

\* What stop is to release, but for advertising that began after it.
Released(i) ==
    /\ ~listening[i] /\ ~gattServer[i]
    /\ advertising[i] => answer[i] = "raced"

\* A peer can find this instance and connect to it.
Reachable(i) == listening[i] /\ gattServer[i] /\ advertising[i]
=============================================================================
