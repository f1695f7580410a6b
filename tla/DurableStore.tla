---------------------------- MODULE DurableStore ----------------------------
(***************************************************************************)
(* What a durable entry store promises its user, with no file in sight.    *)
(* An entry whose insertion was acknowledged is stored for good: no crash  *)
(* and no later failure removes it, and every store opened from then on    *)
(* shows it.  An entry whose insertion was cut short is in limbo: a later  *)
(* opening may show it or not, until the next acknowledged insertion or a  *)
(* loss of power settles it.                                               *)
(***************************************************************************)
EXTENDS FiniteSets

CONSTANTS Entries, Procs

VARIABLES
    stored,   \* entries that nothing can remove any more
    limbo,    \* entries a failed insertion may have left behind
    opened,   \* the processes that have the store open
    mem       \* process -> the entries it shows

vars == <<stored, limbo, opened, mem>>

Init ==
    /\ stored = {}
    /\ limbo = {}
    /\ opened = {}
    /\ mem = [p \in Procs |-> {}]

\* At most one process has the store open.  It shows what is stored, and of
\* what is in limbo any part; opening may settle that part or leave it open.
Open(p) ==
    /\ opened = {}
    /\ opened' = {p}
    /\ \E shown \in SUBSET limbo : mem' = [mem EXCEPT ![p] = stored \cup shown]
    /\ \/ UNCHANGED <<stored, limbo>>
       \/ stored' = mem'[p] /\ limbo' = {}

\* Acknowledging an insertion also settles what was shown from limbo.
Insert(p, e) ==
    /\ p \in opened
    /\ e \notin mem[p]
    /\ mem' = [mem EXCEPT ![p] = @ \cup {e}]
    /\ stored' = mem'[p]
    /\ limbo' = {}
    /\ UNCHANGED opened

InsertFails(p, e) ==
    /\ p \in opened
    /\ e \notin mem[p]
    /\ limbo' \subseteq limbo \cup {e}
    /\ UNCHANGED <<stored, opened, mem>>

Close(p) ==
    /\ p \in opened
    /\ opened' = opened \ {p}
    /\ mem' = [mem EXCEPT ![p] = {}]
    /\ UNCHANGED <<stored, limbo>>

\* Everything in limbo is settled, one way or the other.
PowerLoss ==
    /\ \E kept \in SUBSET limbo : stored' = stored \cup kept
    /\ limbo' = {}
    /\ opened' = {}
    /\ mem' = [p \in Procs |-> {}]

Next ==
    \/ \E p \in Procs :
        \/ Open(p)
        \/ \E e \in Entries : Insert(p, e) \/ InsertFails(p, e)
        \/ Close(p)
    \/ PowerLoss

Spec == Init /\ [][Next]_vars
=============================================================================
