----------------------------- MODULE BleCentral -----------------------------
(***************************************************************************)
(* The central role of a node (android ble/BleCentral.kt and               *)
(* policy/ConnectionPolicy.kt): which discovered addresses it connects to, *)
(* and when it tries again.                                                *)
(*                                                                         *)
(* The policy belongs to one dispatcher, which runs one task at a time:    *)
(* scan results, the parts of connectTo between its suspensions, and the   *)
(* notices that a connection was torn down.  The connections themselves    *)
(* live on other threads.  A waiting task is run before the clock moves on *)
(* and before a radio exchange that follows it ends: the dispatcher is not *)
(* held up that long.                                                      *)
(***************************************************************************)
EXTENDS Integers, FiniteSetsExt

CONSTANTS
    Addrs,         \* addresses seen by the scan
    BackoffBase,   \* backoffBaseMs
    BackoffCap,    \* backoffCapMs
    ShiftCap,      \* the bound on the shift in failed()
    MaxTime        \* bound: the last clock reading

ASSUME CentralAssumption ==
    {BackoffBase, BackoffCap, ShiftCap, MaxTime} \subseteq Nat

VARIABLES
    states,      \* ConnectionPolicy.states
    pending,     \* ConnectionPolicy.pendingFailures, -1 where there is none
    attempts,    \* address -> stage -> attempts and connections at that stage
    tasks,       \* address -> task -> how many wait for the dispatcher
    inbound,     \* addresses of registered connections that the peer opened
    clock,
    streak,      \* address -> attempts failed since the last connection
    retryAt,     \* address -> when the last failed attempt allows another
    lost,        \* addresses for which start() has lost its connection, which
                 \* is bounded to once each
    unwinding,   \* address -> channels still being opened under a cancelled scope
    orphans      \* addresses of registered connections of a cancelled scope

policyVars == <<states, pending>>
auxVars == <<streak, retryAt, lost>>
leftVars == <<unwinding, orphans>>
centralVars == <<policyVars, attempts, tasks, inbound, clock, auxVars, leftVars>>

Absent == [kind |-> "absent", until |-> 0, failures |-> 0]
Busy == [kind |-> "busy", until |-> 0, failures |-> 0]
Backoff(until, n) == [kind |-> "backoff", until |-> until, failures |-> n]

PolicyStates == [kind : {"absent", "busy", "backoff"}, until : Nat, failures : Nat]

Stages == {"jitter", "psm", "l2cap", "live"}
Tasks == {"established", "closed", "failed"}

CentralInit ==
    /\ clock = 0
    /\ states = [a \in Addrs |-> Absent]
    /\ pending = [a \in Addrs |-> -1]
    /\ attempts = [a \in Addrs |-> [s \in Stages |-> 0]]
    /\ tasks = [a \in Addrs |-> [t \in Tasks |-> 0]]
    /\ inbound = {}
    /\ streak = [a \in Addrs |-> 0]
    /\ retryAt = [a \in Addrs |-> 0]
    /\ lost = {}
    /\ unwinding = [a \in Addrs |-> 0]
    /\ orphans = {}

Move(a, from, to) == attempts' = [attempts EXCEPT ![a][from] = @ - 1, ![a][to] = @ + 1]
Drop(a, from) == attempts' = [attempts EXCEPT ![a][from] = @ - 1]
Post(a, ts) == tasks' = [tasks EXCEPT ![a] = [t \in Tasks |-> IF t \in ts THEN @[t] + 1 ELSE @[t]]]

-----------------------------------------------------------------------------
(* ConnectionPolicy *)

\* Mutant of MayConnect: only a busy address is ignored.
MayConnectSoon(a) == states[a].kind # "busy"

\* shouldConnect ignores an address that is busy or still backing off.
MayConnect(a) ==
    \/ states[a].kind = "absent"
    \/ states[a].kind = "backoff" /\ clock >= states[a].until

ShouldConnect(a) ==
    /\ pending' = [pending EXCEPT ![a] = states[a].failures]
    /\ states' = [states EXCEPT ![a] = Busy]

\* backoffBaseMs shl k, for the shifts that failed() makes.
Shifted[k \in 0..ShiftCap] == IF k = 0 THEN BackoffBase ELSE 2 * Shifted[k - 1]

\* Mutant of BackoffFor: the time is not capped.
BackoffUncapped(n) == Shifted[Min({n - 1, ShiftCap})]

BackoffFor(n) == Min({Shifted[Min({n - 1, ShiftCap})], BackoffCap})

FailuresOf(a) == (IF pending[a] = -1 THEN 0 ELSE pending[a]) + 1

Failed(a) ==
    /\ states' = [states EXCEPT ![a] = Backoff(clock + BackoffFor(FailuresOf(a)), FailuresOf(a))]
    /\ pending' = [pending EXCEPT ![a] = -1]
    /\ streak' = [streak EXCEPT ![a] = @ + 1]

Closed(a) ==
    /\ pending' = [pending EXCEPT ![a] = -1]
    /\ states' = [states EXCEPT ![a] = Absent]

Established(a) ==
    /\ pending' = [pending EXCEPT ![a] = 0]
    /\ UNCHANGED states

-----------------------------------------------------------------------------
(* BleCentral *)

Idle == \A a \in Addrs, t \in Tasks : tasks[a][t] = 0

\* The registry is shared by the instances of the service.
HasAddress(a) == attempts[a]["live"] > 0 \/ a \in inbound \cup orphans

\* handleScanResult: the attempt waits out its jitter.
HandleScanResult(a) ==
    /\ ~HasAddress(a)
    /\ MayConnect(a)
    /\ ShouldConnect(a)
    /\ attempts' = [attempts EXCEPT ![a]["jitter"] = @ + 1]
    /\ UNCHANGED <<tasks, inbound, clock, auxVars>>

\* connectTo begins, with the GATT phase.
ConnectTo(a) ==
    /\ attempts[a]["jitter"] > 0
    /\ Move(a, "jitter", "psm")
    /\ UNCHANGED <<policyVars, tasks, inbound, clock, auxVars>>

\* Mutant of ReadPsmFails: the attempt ends without telling the policy.
ReadPsmFailsSilently(a) ==
    /\ attempts[a]["psm"] > 0 /\ Idle
    /\ Drop(a, "psm")
    /\ UNCHANGED <<policyVars, tasks, inbound, clock, auxVars>>

\* readPsm returns null, after an error or a timeout.
ReadPsmFails(a) ==
    /\ attempts[a]["psm"] > 0 /\ Idle
    /\ Drop(a, "psm")
    /\ Failed(a)
    /\ retryAt' = [retryAt EXCEPT ![a] = states'[a].until]
    /\ UNCHANGED <<tasks, inbound, clock, lost>>

ReadPsm(a) ==
    /\ attempts[a]["psm"] > 0 /\ Idle
    /\ Move(a, "psm", "l2cap")
    /\ UNCHANGED <<policyVars, tasks, inbound, clock, auxVars>>

\* openL2cap returns null, and no connection was made.
OpenFails(a) ==
    /\ attempts[a]["l2cap"] > 0
    /\ Drop(a, "l2cap")
    /\ Failed(a)
    /\ retryAt' = [retryAt EXCEPT ![a] = states'[a].until]
    /\ UNCHANGED <<tasks, inbound, clock, lost>>

\* The connection was torn down before start() was through, which takes a tick
\* a handshake timeout later: onTeardown and the rest of connectTo reach the
\* dispatcher in either order.
OpenTornDown(a) ==
    /\ a \notin lost
    /\ attempts[a]["l2cap"] > 0
    /\ lost' = lost \cup {a}
    /\ Drop(a, "l2cap")
    /\ Post(a, {"closed", "failed"})
    /\ streak' = [streak EXCEPT ![a] = 0]
    /\ retryAt' = [retryAt EXCEPT ![a] = 0]
    /\ UNCHANGED <<policyVars, inbound, clock>>

\* The connection starts; connectTo is yet to resume.
OpenL2cap(a) ==
    /\ attempts[a]["l2cap"] > 0
    /\ Move(a, "l2cap", "live")
    /\ Post(a, {"established"})
    /\ streak' = [streak EXCEPT ![a] = 0]
    /\ retryAt' = [retryAt EXCEPT ![a] = 0]
    /\ UNCHANGED <<policyVars, inbound, clock, lost>>

\* The connection is torn down, its handshake failed or its link at an end.
LinkEnds(a) ==
    /\ attempts[a]["live"] > 0
    /\ Drop(a, "live")
    /\ Post(a, {"closed"})
    /\ UNCHANGED <<policyVars, inbound, clock, auxVars>>

\* The dispatcher runs a waiting task.
RunTask(a, t) ==
    /\ tasks[a][t] > 0
    /\ tasks' = [tasks EXCEPT ![a][t] = @ - 1]
    /\ \/ t = "established" /\ Established(a) /\ UNCHANGED streak
       \/ t = "closed" /\ Closed(a) /\ UNCHANGED streak
       \/ t = "failed" /\ Failed(a)
    /\ UNCHANGED <<attempts, inbound, clock, retryAt, lost>>

\* The peer at the address opens or loses a connection of its own.
Inbound(a) ==
    /\ inbound' = IF a \in inbound THEN inbound \ {a} ELSE inbound \cup {a}
    /\ UNCHANGED <<policyVars, attempts, tasks, clock, auxVars>>

Elapse ==
    /\ clock < MaxTime
    /\ Idle
    /\ clock' = clock + 1
    /\ UNCHANGED <<policyVars, attempts, tasks, inbound, auxVars, leftVars>>

\* What happens on the dispatcher, on the radio and to connections.
CentralStep ==
    /\ \E a \in Addrs :
          \/ HandleScanResult(a) \/ ConnectTo(a)
          \/ ReadPsm(a) \/ ReadPsmFails(a)
          \/ OpenL2cap(a) \/ OpenFails(a) \/ OpenTornDown(a)
          \/ LinkEnds(a) \/ Inbound(a)
          \/ \E t \in Tasks : RunTask(a, t)
    /\ UNCHANGED leftVars

\* The next instance has a policy of its own.
NewCentral ==
    /\ states' = [a \in Addrs |-> Absent]
    /\ pending' = [a \in Addrs |-> -1]
    /\ attempts' = [a \in Addrs |-> [s \in Stages |-> 0]]
    /\ tasks' = [a \in Addrs |-> [t \in Tasks |-> 0]]
    /\ inbound' = {} /\ lost' = {}
    /\ streak' = [a \in Addrs |-> 0]
    /\ retryAt' = [a \in Addrs |-> 0]
    /\ UNCHANGED clock

\* stop, shutdownAll and the cancellation of the scope.  The scan is off and the
\* registered connections are closed.  An attempt ends by itself: at once in its
\* delay or with its GATT connection, but one that opens a channel goes on for a
\* while.  Accepted connections that register behind shutdownAll, late, stay.
StopCentral(late) ==
    /\ NewCentral
    /\ unwinding' = [a \in Addrs |-> unwinding[a] + attempts[a]["l2cap"]]
    /\ orphans' = late

\* The process ends, and its sockets with it.
CentralGone ==
    /\ NewCentral
    /\ unwinding' = [a \in Addrs |-> 0]
    /\ orphans' = {}

\* A channel being opened sees that its scope is cancelled and closes, also when
\* it has registered by then, unless it was past the last look at the scope.
Unwind(a) ==
    /\ unwinding[a] > 0
    /\ unwinding' = [unwinding EXCEPT ![a] = @ - 1]
    /\ orphans' \in {orphans, orphans \cup {a}}
    /\ UNCHANGED <<policyVars, attempts, tasks, inbound, clock, auxVars>>

\* A connection that was left is torn down; its notice has no scope to run in.
OrphanEnds(a) ==
    /\ a \in orphans
    /\ orphans' = orphans \ {a}
    /\ UNCHANGED <<policyVars, attempts, tasks, inbound, clock, auxVars, unwinding>>

-----------------------------------------------------------------------------
\* The policy's maps hold what they may: no backoff reaches beyond the cap of
\* ConnectionPolicy.failed, and no stage is left more often than entered.
CentralTypeOK ==
    /\ states \in [Addrs -> PolicyStates]
    /\ \A a \in Addrs : states[a].until <= clock + BackoffCap
    /\ pending \in [Addrs -> Nat \cup {-1}]
    /\ attempts \in [Addrs -> [Stages -> Nat]]
    /\ tasks \in [Addrs -> [Tasks -> Nat]]
    /\ inbound \subseteq Addrs /\ lost \subseteq Addrs
    /\ clock \in 0..MaxTime
    /\ {streak, retryAt} \subseteq [Addrs -> Nat]

LeftTypeOK == unwinding \in [Addrs -> Nat] /\ orphans \subseteq Addrs

InFlight(a) == attempts[a]["jitter"] + attempts[a]["psm"] + attempts[a]["l2cap"] + attempts[a]["live"]

Waiting(a) == tasks[a]["closed"] + tasks[a]["failed"]

(***************************************************************************)
(* An address that is busy is so for one attempt or connection, which will *)
(* return it.  It never stays busy for good, also when it is returned      *)
(* twice because start() has lost a connection; and until that happens the *)
(* instance has no two attempts or outgoing connections to an address      *)
(* ("SHOULD NOT open a channel to an address it already has an in-flight   *)
(* or open connection to", PROTOCOL 9.1.5).                                *)
(***************************************************************************)
BusyIsOwned ==
    /\ CentralTypeOK /\ LeftTypeOK
    /\ \A a \in Addrs : states[a].kind = "busy" => InFlight(a) + Waiting(a) > 0
    /\ \A a \in Addrs \ lost : InFlight(a) <= 1

(***************************************************************************)
(* The failures that set the length of a backoff are those in a row: the   *)
(* count survives the attempt in between and starts again after a          *)
(* connection.                                                             *)
(***************************************************************************)
FailuresInARow ==
    \A a \in Addrs \ lost : states[a].kind = "backoff" => states[a].failures = streak[a]

(***************************************************************************)
(* What the policy holds of an address agrees with what is under way for   *)
(* it and with how its last attempts went (ConnectionPolicy, under the     *)
(* tasks of BleCentral in any order).                                      *)
(***************************************************************************)
PolicyAgrees == BusyIsOwned /\ FailuresInARow

(***************************************************************************)
(* After an attempt that made no connection the address is left alone      *)
(* until its backoff is over, whatever tasks come late.                    *)
(***************************************************************************)
AttemptsBackOff ==
    [][\A a \in Addrs \ lost :
        attempts'[a]["jitter"] > attempts[a]["jitter"] => clock >= retryAt[a]]_centralVars
=============================================================================
