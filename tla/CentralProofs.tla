---------------------------- MODULE CentralProofs ----------------------------
(***************************************************************************)
(* Proofs about the central in the Android service, for any number of      *)
(* addresses and any backoff: what its policy holds of an address agrees   *)
(* with what is under way, and attempts back off.                          *)
(***************************************************************************)
EXTENDS MeshService, FiniteSetTheorems, NaturalsInduction, TLAPS

-----------------------------------------------------------------------------
(* The central. *)

\* What holds of an address until start() loses a connection of it: at most one
\* attempt, connection or notice of its end is out for it, exactly while it is
\* busy; the count that is carried through an attempt is the number of failures
\* since the last connection; and nothing waits that would overwrite it.
Regular(a) ==
    /\ tasks[a]["failed"] = 0
    /\ InFlight(a) + tasks[a]["closed"] = IF states[a].kind = "busy" THEN 1 ELSE 0
    /\ \/ tasks[a]["established"] > 0 \/ tasks[a]["closed"] > 0
       \/ attempts[a]["live"] > 0 \/ states[a].kind = "absent"
       => streak[a] = 0 /\ retryAt[a] = 0
    /\ tasks[a]["established"] > 0 => attempts[a]["l2cap"] = 0 /\ states[a].kind # "backoff"
    /\ attempts[a]["jitter"] + attempts[a]["psm"] + attempts[a]["l2cap"] > 0
       => pending[a] = streak[a]
    /\ states[a].kind = "backoff" => states[a].failures = streak[a] /\ states[a].until = retryAt[a]
    /\ states[a].kind = "absent" => states[a].failures = 0

CentralInv ==
    /\ CentralTypeOK
    /\ \A a \in Addrs : states[a].kind = "busy" => InFlight(a) + Waiting(a) > 0
    /\ \A a \in Addrs \ lost : Regular(a)

-----------------------------------------------------------------------------
(* Arithmetic: the least of a set of numbers, and the length of a backoff. *)

LEMMA Least ==
    ASSUME NEW S \in SUBSET Nat, S # {}
    PROVE  \E m \in S : \A n \in S : m <= n
<1>1. PICK m \in S : \A n \in S : ~ (<<n, m>> \in OpToRel(<, Nat))
  BY NatLessThanWellFounded, WFMin, Zenon
<1>2. \A n \in S : ~ (n < m)
  BY <1>1, Zenon DEF OpToRel
<1> QED
  BY <1>2

LEMMA LesserOfTwo ==
    ASSUME NEW x \in Int, NEW y \in Int
    PROVE  Min({x, y}) \in {x, y} /\ Min({x, y}) <= x /\ Min({x, y}) <= y
  BY DEF Min

\* f is the base shifted by up to n.
AreShifts(f, n) == f = [k \in 0..n |-> IF k = 0 THEN BackoffBase ELSE 2 * f[k - 1]]

LEMMA ShiftsExist == \E f : AreShifts(f, ShiftCap)
<1> DEFINE Has(n) == \E f \in [0..n -> Nat] : AreShifts(f, n)
           Lacks == {n \in 0..ShiftCap : ~Has(n)}
<1>1. ShiftCap \in Nat /\ BackoffBase \in Nat
  BY CentralAssumption
<1>2. Has(0)
  <2>1. AreShifts([k \in 0..0 |-> BackoffBase], 0)
    BY DEF AreShifts
  <2> QED
    BY <1>1, <2>1
<1>3. ASSUME NEW m \in 1..ShiftCap, Has(m - 1)
      PROVE  Has(m)
  <2>1. PICK f \in [0..m - 1 -> Nat] : AreShifts(f, m - 1)
    BY <1>3
  <2> DEFINE g == [k \in 0..m |-> IF k = m THEN 2 * f[m - 1] ELSE f[k]]
  <2>2. m \in Nat /\ m > 0 /\ f[m - 1] \in Nat
    BY <1>1
  <2>3. g \in [0..m -> Nat]
    BY <2>2
  <2>4. \A k \in 0..m : g[k] = IF k = 0 THEN BackoffBase ELSE 2 * g[k - 1]
    <3>1. \A k \in 0..m - 1 : f[k] = IF k = 0 THEN BackoffBase ELSE 2 * f[k - 1]
      BY <2>1 DEF AreShifts
    <3> QED
      BY <2>2, <3>1
  <2>5. AreShifts(g, m)
    <3> HIDE DEF g
    <3> QED
      BY <2>3, <2>4 DEF AreShifts
  <2> QED
    BY <2>3, <2>5, Zenon
<1> HIDE DEF Has
<1>4. SUFFICES ASSUME Lacks # {} PROVE FALSE
  BY <1>1 DEF Has
<1>5. Lacks \in SUBSET Nat
  BY <1>1
<1>6. PICK m \in Lacks : \A n \in Lacks : m <= n
  BY <1>4, <1>5, Least, Zenon
<1>7. m # 0
  BY <1>2, <1>6
<1>8. m \in 1..ShiftCap /\ m - 1 \in 0..ShiftCap /\ m - 1 \notin Lacks
  BY <1>1, <1>6, <1>7
<1> QED
  BY <1>3, <1>6, <1>8

LEMMA ShiftedIsNat == \A k \in 0..ShiftCap : Shifted[k] \in Nat
<1>1. ShiftCap \in Nat /\ BackoffBase \in Nat
  BY CentralAssumption
<1>2. Shifted = CHOOSE f : AreShifts(f, ShiftCap)
  BY DEF Shifted, AreShifts
<1>3. AreShifts(Shifted, ShiftCap)
  BY <1>2, ShiftsExist
<1>4. \A k \in 0..ShiftCap : Shifted[k] = IF k = 0 THEN BackoffBase ELSE 2 * Shifted[k - 1]
  BY <1>3, Zenon DEF AreShifts
<1> DEFINE Odd == {k \in 0..ShiftCap : Shifted[k] \notin Nat}
<1>5. SUFFICES ASSUME Odd # {} PROVE FALSE
  OBVIOUS
<1>6. PICK m \in Odd : \A n \in Odd : m <= n
  <2>1. Odd \in SUBSET Nat
    BY <1>1
  <2> QED
    BY <1>5, <2>1, Least, Zenon
<1>7. m \in 0..ShiftCap /\ m # 0
  BY <1>1, <1>4, <1>6
<1>8. m - 1 \in 0..ShiftCap /\ m - 1 \notin Odd
  BY <1>1, <1>6, <1>7
<1> QED
  BY <1>4, <1>6, <1>7, <1>8

\* A backoff never exceeds its cap, however many failures came before it.
LEMMA BackoffIsCapped ==
    ASSUME NEW n \in Nat, n > 0
    PROVE  BackoffFor(n) \in Nat /\ BackoffFor(n) <= BackoffCap
<1>1. ShiftCap \in Nat /\ BackoffCap \in Nat
  BY CentralAssumption
<1> DEFINE k == Min({n - 1, ShiftCap})
<1>2. k \in {n - 1, ShiftCap} /\ k <= n - 1 /\ k <= ShiftCap
  BY <1>1, LesserOfTwo
<1>3. k \in 0..ShiftCap
  BY <1>1, <1>2
<1> HIDE DEF k
<1>4. Shifted[k] \in Nat
  BY <1>3, ShiftedIsNat
<1>5. BackoffFor(n) = Min({Shifted[k], BackoffCap})
  BY DEF BackoffFor, k
<1>6. /\ Min({Shifted[k], BackoffCap}) \in {Shifted[k], BackoffCap}
      /\ Min({Shifted[k], BackoffCap}) <= BackoffCap
  <2>1. Shifted[k] \in Int /\ BackoffCap \in Int
    BY <1>1, <1>4
  <2> HIDE DEF k
  <2> QED
    BY <2>1, LesserOfTwo, Zenon
<1> QED
  BY <1>1, <1>4, <1>5, <1>6

-----------------------------------------------------------------------------
(* The central: an action changes what is known of one address. *)

LEMMA PolicyStatesAre ==
    /\ Absent.kind = "absent" /\ Absent.until = 0 /\ Absent.failures = 0
    /\ Busy.kind = "busy" /\ Busy.until = 0 /\ Busy.failures = 0
    /\ \A u, n : /\ Backoff(u, n).kind = "backoff"
                 /\ Backoff(u, n).until = u /\ Backoff(u, n).failures = n
  BY DEF Absent, Busy, Backoff

LEMMA CentralKinds ==
    ASSUME CentralTypeOK, NEW a \in Addrs
    PROVE  /\ states[a].kind \in {"absent", "busy", "backoff"}
           /\ states[a].until \in Nat /\ states[a].failures \in Nat
           /\ states[a].until <= clock + BackoffCap
           /\ pending[a] \in Nat \cup {-1} /\ streak[a] \in Nat /\ retryAt[a] \in Nat
           /\ attempts[a]["jitter"] \in Nat /\ attempts[a]["psm"] \in Nat
           /\ attempts[a]["l2cap"] \in Nat /\ attempts[a]["live"] \in Nat
           /\ tasks[a]["established"] \in Nat /\ tasks[a]["closed"] \in Nat
           /\ tasks[a]["failed"] \in Nat
           /\ clock \in Nat /\ BackoffCap \in Nat /\ MaxTime \in Nat
<1>1. clock \in 0..MaxTime /\ BackoffCap \in Nat /\ MaxTime \in Nat
  BY CentralAssumption DEF CentralTypeOK
<1>2. states[a] \in PolicyStates /\ states[a].until <= clock + BackoffCap
  BY DEF CentralTypeOK
<1>3. /\ pending[a] \in Nat \cup {-1} /\ streak[a] \in Nat /\ retryAt[a] \in Nat
      /\ attempts[a] \in [Stages -> Nat] /\ tasks[a] \in [Tasks -> Nat]
  BY DEF CentralTypeOK
<1> QED
  BY <1>1, <1>2, <1>3 DEF PolicyStates, Stages, Tasks

\* The other addresses, where an action concerns a.
OthersStay(a) ==
    \A b \in Addrs \ {a} :
        /\ states'[b] = states[b] /\ pending'[b] = pending[b]
        /\ attempts'[b] = attempts[b] /\ tasks'[b] = tasks[b]
        /\ streak'[b] = streak[b] /\ retryAt'[b] = retryAt[b]
        /\ b \in lost => b \in lost'

LEMMA OneAddress ==
    ASSUME CentralInv, CentralTypeOK', NEW a \in Addrs, OthersStay(a),
           states'[a].kind = "busy" => (InFlight(a) + Waiting(a) > 0)',
           a \notin lost' => Regular(a)'
    PROVE  CentralInv'
<1>1. ASSUME NEW b \in Addrs, states'[b].kind = "busy"
      PROVE  (InFlight(b) + Waiting(b) > 0)'
  BY <1>1 DEF CentralInv, OthersStay, InFlight, Waiting
<1>2. ASSUME NEW b \in Addrs \ lost'
      PROVE  Regular(b)'
  <2>1. CASE b = a
    BY <1>2, <2>1
  <2>2. CASE b # a
    <3>1. Regular(b) /\ b \in Addrs \ {a}
      BY <1>2, <2>2 DEF CentralInv, OthersStay
    <3> QED
      BY <3>1 DEF OthersStay, Regular, InFlight
  <2> QED
    BY <2>1, <2>2
<1> QED
  BY <1>1, <1>2 DEF CentralInv

\* An action that concerns a keeps the types if what it gives a has them.
OnlyAt(a) ==
    /\ states' = [states EXCEPT ![a] = states'[a]]
    /\ pending' = [pending EXCEPT ![a] = pending'[a]]
    /\ attempts' = [attempts EXCEPT ![a] = attempts'[a]]
    /\ tasks' = [tasks EXCEPT ![a] = tasks'[a]]
    /\ streak' = [streak EXCEPT ![a] = streak'[a]]
    /\ retryAt' = [retryAt EXCEPT ![a] = retryAt'[a]]
    /\ inbound' \subseteq Addrs /\ lost \subseteq lost' /\ lost' \subseteq Addrs
    /\ clock' = clock

LEMMA OneAddressTypes ==
    ASSUME CentralTypeOK, NEW a \in Addrs, OnlyAt(a),
           states'[a] \in PolicyStates, states'[a].until <= clock + BackoffCap,
           pending'[a] \in Nat \cup {-1}, streak'[a] \in Nat, retryAt'[a] \in Nat,
           attempts'[a] \in [Stages -> Nat], tasks'[a] \in [Tasks -> Nat]
    PROVE  CentralTypeOK' /\ OthersStay(a)
<1>1. /\ states \in [Addrs -> PolicyStates] /\ pending \in [Addrs -> Nat \cup {-1}]
      /\ attempts \in [Addrs -> [Stages -> Nat]] /\ tasks \in [Addrs -> [Tasks -> Nat]]
      /\ streak \in [Addrs -> Nat] /\ retryAt \in [Addrs -> Nat]
      /\ \A b \in Addrs : states[b].until <= clock + BackoffCap
      /\ clock \in 0..MaxTime
  BY DEF CentralTypeOK
<1>2. OthersStay(a)
  BY <1>1 DEF OthersStay, OnlyAt
<1>3. /\ states' \in [Addrs -> PolicyStates] /\ pending' \in [Addrs -> Nat \cup {-1}]
      /\ attempts' \in [Addrs -> [Stages -> Nat]] /\ tasks' \in [Addrs -> [Tasks -> Nat]]
      /\ streak' \in [Addrs -> Nat] /\ retryAt' \in [Addrs -> Nat]
  BY <1>1, Zenon DEF OnlyAt
<1>4. \A b \in Addrs : states'[b].until <= clock' + BackoffCap
  BY <1>1, <1>2, Zenon DEF OthersStay, OnlyAt
<1>5. inbound' \subseteq Addrs /\ lost' \subseteq Addrs /\ clock' = clock
  BY DEF OnlyAt
<1> QED
  BY <1>1, <1>2, <1>3, <1>4, <1>5 DEF CentralTypeOK

\* What failed() makes of an address.
LEMMA FailedIs ==
    ASSUME CentralTypeOK, NEW a \in Addrs, Failed(a)
    PROVE  \E u \in Nat, n \in Nat :
              /\ u <= clock + BackoffCap /\ n = FailuresOf(a)
              /\ Backoff(u, n) \in PolicyStates
              /\ states' = [states EXCEPT ![a] = Backoff(u, n)]
              /\ pending' = [pending EXCEPT ![a] = -1]
              /\ streak' = [streak EXCEPT ![a] = streak[a] + 1]
<1>1. FailuresOf(a) \in Nat /\ FailuresOf(a) > 0
  BY CentralKinds DEF FailuresOf
<1>2. BackoffFor(FailuresOf(a)) \in Nat /\ BackoffFor(FailuresOf(a)) <= BackoffCap
  BY <1>1, BackoffIsCapped
<1> DEFINE u == clock + BackoffFor(FailuresOf(a))
           n == FailuresOf(a)
<1>3. u \in Nat /\ u <= clock + BackoffCap
  BY <1>2, CentralKinds
<1>4. Backoff(u, n) \in PolicyStates
  BY <1>1, <1>3 DEF Backoff, PolicyStates
<1>5. /\ states' = [states EXCEPT ![a] = Backoff(u, n)]
      /\ pending' = [pending EXCEPT ![a] = -1]
      /\ streak' = [streak EXCEPT ![a] = streak[a] + 1]
  BY DEF Failed
<1> HIDE DEF u, n
<1>6. n = FailuresOf(a) /\ n \in Nat
  BY <1>1 DEF n
<1> QED
  BY <1>3, <1>4, <1>5, <1>6, Zenon

(* The actions of the central. *)

LEMMA ScanKeeps ==
    ASSUME CentralInv, NEW a \in Addrs, HandleScanResult(a)
    PROVE  CentralInv'
<1>1. CentralTypeOK
  BY DEF CentralInv
<1>2. MayConnect(a) /\ ShouldConnect(a)
  BY DEF HandleScanResult
<1> DEFINE at == [attempts[a] EXCEPT !["jitter"] = @ + 1]
<1>3. /\ attempts[a] \in [Stages -> Nat] /\ tasks[a] \in [Tasks -> Nat]
      /\ states[a] \in PolicyStates /\ states[a].until <= clock + BackoffCap
  BY <1>1 DEF CentralTypeOK
<1>4. /\ at \in [Stages -> Nat]
      /\ at["jitter"] = attempts[a]["jitter"] + 1
      /\ at["psm"] = attempts[a]["psm"]
      /\ at["l2cap"] = attempts[a]["l2cap"]
      /\ at["live"] = attempts[a]["live"]
  BY <1>1, <1>3, CentralKinds DEF HandleScanResult, Stages
<1>5. Busy \in PolicyStates /\ Busy.until <= clock + BackoffCap
  BY <1>1, <1>2, <1>3, CentralKinds DEF PolicyStates, Absent, Busy, Backoff
<1>6. /\ states' = [states EXCEPT ![a] = Busy]
      /\ pending' = [pending EXCEPT ![a] = states[a].failures]
      /\ attempts' = [attempts EXCEPT ![a] = at]
      /\ tasks' = [tasks EXCEPT ![a] = tasks[a]]
      /\ streak' = [streak EXCEPT ![a] = streak[a]]
      /\ retryAt' = [retryAt EXCEPT ![a] = retryAt[a]]
      /\ inbound' \subseteq Addrs /\ lost \subseteq lost' /\ lost' \subseteq Addrs /\ clock' = clock
  BY <1>1, <1>2 DEF HandleScanResult, Move, Drop, Post, CentralTypeOK, policyVars, auxVars, Backoff, ShouldConnect
<1>7. /\ states'[a] = Busy /\ pending'[a] = states[a].failures /\ attempts'[a] = at /\ tasks'[a] = tasks[a]
      /\ streak'[a] = streak[a] /\ retryAt'[a] = retryAt[a]
  BY <1>1, <1>6 DEF CentralTypeOK
<1> HIDE DEF at
<1>8. /\ CentralTypeOK' /\ OthersStay(a)
  <2>1. OnlyAt(a)
    BY <1>6, <1>7, Zenon DEF OnlyAt
  <2>2. pending'[a] \in Nat \cup {-1} /\ streak'[a] \in Nat /\ retryAt'[a] \in Nat
    BY <1>1, <1>2, <1>7, CentralKinds
  <2> QED
    BY <1>1, <1>3, <1>4, <1>5, <1>7, <2>1, <2>2, OneAddressTypes
<1>9. /\ states'[a].kind = "busy" /\ states'[a].until = 0 /\ states'[a].failures = 0
      /\ attempts'[a]["jitter"] = attempts[a]["jitter"] + 1
      /\ attempts'[a]["psm"] = attempts[a]["psm"]
      /\ attempts'[a]["l2cap"] = attempts[a]["l2cap"]
      /\ attempts'[a]["live"] = attempts[a]["live"]
      /\ tasks'[a]["established"] = tasks[a]["established"]
      /\ tasks'[a]["closed"] = tasks[a]["closed"]
      /\ tasks'[a]["failed"] = tasks[a]["failed"]
  <2>1. /\ states'[a].kind = "busy" /\ states'[a].until = 0 /\ states'[a].failures = 0
    BY <1>7, PolicyStatesAre, ZenonT(40)
  <2>2. /\ attempts'[a]["jitter"] = attempts[a]["jitter"] + 1
        /\ attempts'[a]["psm"] = attempts[a]["psm"]
        /\ attempts'[a]["l2cap"] = attempts[a]["l2cap"]
        /\ attempts'[a]["live"] = attempts[a]["live"]
    BY <1>4, <1>5, <1>7, ZenonT(40)
  <2>3. /\ tasks'[a]["established"] = tasks[a]["established"]
        /\ tasks'[a]["closed"] = tasks[a]["closed"]
        /\ tasks'[a]["failed"] = tasks[a]["failed"]
    BY <1>4, <1>5, <1>7, ZenonT(40)
  <2> QED
    BY <2>1, <2>2, <2>3, Zenon
<1>10. /\ attempts[a]["jitter"] \in Nat /\ attempts[a]["psm"] \in Nat
      /\ attempts[a]["l2cap"] \in Nat /\ attempts[a]["live"] \in Nat
      /\ tasks[a]["established"] \in Nat /\ tasks[a]["closed"] \in Nat /\ tasks[a]["failed"] \in Nat
      /\ streak[a] \in Nat /\ states[a].kind \in {"absent", "busy", "backoff"}
  BY <1>1, CentralKinds, Zenon
<1>11. states'[a].kind = "busy" => (InFlight(a) + Waiting(a) > 0)'
  <2>1. states[a].kind = "busy" => InFlight(a) + Waiting(a) > 0
    BY Zenon DEF CentralInv
  <2> QED
    BY <2>1, <1>9, <1>10 DEF InFlight, Waiting
<1>12. a \notin lost' => Regular(a)'
  <2>1. SUFFICES ASSUME a \notin lost' PROVE Regular(a)'
    OBVIOUS
  <2>2. Regular(a)
    BY <2>1, <1>6 DEF CentralInv
  <2>3. states[a].kind \in {"absent", "backoff"}
    BY <2>1 DEF HandleScanResult, Idle, Tasks, FailuresOf, MayConnect
  <2>4. /\ attempts[a]["jitter"] = 0 /\ attempts[a]["psm"] = 0
        /\ attempts[a]["l2cap"] = 0 /\ attempts[a]["live"] = 0
        /\ tasks[a]["closed"] = 0
    <3>1. states[a].kind # "busy"
      BY <2>3
    <3>2. InFlight(a) + tasks[a]["closed"] = 0
      BY <2>2, <3>1 DEF Regular
    <3> DEFINE j == attempts[a]["jitter"]
               p == attempts[a]["psm"]
               l == attempts[a]["l2cap"]
               v == attempts[a]["live"]
               c == tasks[a]["closed"]
    <3>3. j \in Nat /\ p \in Nat /\ l \in Nat /\ v \in Nat /\ c \in Nat
      BY <1>10
    <3>4. j + p + l + v + c = 0
      BY <3>2 DEF InFlight
    <3>5. j = 0 /\ p = 0 /\ l = 0 /\ v = 0 /\ c = 0
      <4> HIDE DEF j, p, l, v, c
      <4> QED
        BY <3>3, <3>4
    <3> QED
      BY <3>5
  <2>5. states[a].failures = streak[a]
    <3>1. CASE states[a].kind = "absent"
      BY <2>2, <3>1 DEF Regular
    <3>2. CASE states[a].kind = "backoff"
      BY <2>2, <3>2 DEF Regular
    <3> QED
      BY <2>3, <3>1, <3>2
  <2> QED
    BY <2>2, <2>3, <2>4, <2>5, <1>7, <1>9, <1>10 DEF Regular, InFlight
<1> QED
  BY <1>8, <1>11, <1>12, OneAddress

LEMMA ConnectKeeps ==
    ASSUME CentralInv, NEW a \in Addrs, ConnectTo(a)
    PROVE  CentralInv'
<1>1. CentralTypeOK
  BY DEF CentralInv
<1>2. attempts[a]["jitter"] > 0
  BY DEF ConnectTo
<1> DEFINE at == [attempts[a] EXCEPT !["jitter"] = @ - 1, !["psm"] = @ + 1]
<1>3. /\ attempts[a] \in [Stages -> Nat] /\ tasks[a] \in [Tasks -> Nat]
      /\ states[a] \in PolicyStates /\ states[a].until <= clock + BackoffCap
  BY <1>1 DEF CentralTypeOK
<1>4. /\ at \in [Stages -> Nat]
      /\ at["jitter"] = attempts[a]["jitter"] - 1
      /\ at["psm"] = attempts[a]["psm"] + 1
      /\ at["l2cap"] = attempts[a]["l2cap"]
      /\ at["live"] = attempts[a]["live"]
  BY <1>1, <1>3, CentralKinds DEF ConnectTo, Stages
<1>5. states[a] \in PolicyStates /\ states[a].until <= clock + BackoffCap
  BY <1>1, <1>2, <1>3, CentralKinds DEF PolicyStates, Absent, Busy, Backoff
<1>6. /\ states' = [states EXCEPT ![a] = states[a]]
      /\ pending' = [pending EXCEPT ![a] = pending[a]]
      /\ attempts' = [attempts EXCEPT ![a] = at]
      /\ tasks' = [tasks EXCEPT ![a] = tasks[a]]
      /\ streak' = [streak EXCEPT ![a] = streak[a]]
      /\ retryAt' = [retryAt EXCEPT ![a] = retryAt[a]]
      /\ inbound' \subseteq Addrs /\ lost \subseteq lost' /\ lost' \subseteq Addrs /\ clock' = clock
  BY <1>1, <1>2, Zenon DEF ConnectTo, Move, Drop, Post, CentralTypeOK, policyVars, auxVars, Backoff
<1>7. /\ states'[a] = states[a] /\ pending'[a] = pending[a] /\ attempts'[a] = at /\ tasks'[a] = tasks[a]
      /\ streak'[a] = streak[a] /\ retryAt'[a] = retryAt[a]
  BY <1>1, <1>6, Zenon DEF CentralTypeOK
<1> HIDE DEF at
<1>8. /\ CentralTypeOK' /\ OthersStay(a)
  <2>1. OnlyAt(a)
    BY <1>6, <1>7, Zenon DEF OnlyAt
  <2>2. pending'[a] \in Nat \cup {-1} /\ streak'[a] \in Nat /\ retryAt'[a] \in Nat
    BY <1>1, <1>2, <1>7, CentralKinds
  <2> QED
    BY <1>1, <1>3, <1>4, <1>5, <1>7, <2>1, <2>2, OneAddressTypes, Zenon
<1>9. /\ states'[a].kind = states[a].kind /\ states'[a].until = states[a].until /\ states'[a].failures = states[a].failures
      /\ attempts'[a]["jitter"] = attempts[a]["jitter"] - 1
      /\ attempts'[a]["psm"] = attempts[a]["psm"] + 1
      /\ attempts'[a]["l2cap"] = attempts[a]["l2cap"]
      /\ attempts'[a]["live"] = attempts[a]["live"]
      /\ tasks'[a]["established"] = tasks[a]["established"]
      /\ tasks'[a]["closed"] = tasks[a]["closed"]
      /\ tasks'[a]["failed"] = tasks[a]["failed"]
  BY <1>4, <1>5, <1>7, Zenon DEF Busy, Absent, Backoff
<1>10. /\ attempts[a]["jitter"] \in Nat /\ attempts[a]["psm"] \in Nat
      /\ attempts[a]["l2cap"] \in Nat /\ attempts[a]["live"] \in Nat
      /\ tasks[a]["established"] \in Nat /\ tasks[a]["closed"] \in Nat /\ tasks[a]["failed"] \in Nat
      /\ streak[a] \in Nat /\ states[a].kind \in {"absent", "busy", "backoff"}
  BY <1>1, CentralKinds
<1>11. states'[a].kind = "busy" => (InFlight(a) + Waiting(a) > 0)'
  <2>1. states[a].kind = "busy" => InFlight(a) + Waiting(a) > 0
    BY DEF CentralInv
  <2> QED
    BY <2>1, <1>9, <1>10 DEF InFlight, Waiting
<1>12. a \notin lost' => Regular(a)'
  <2>1. SUFFICES ASSUME a \notin lost' PROVE Regular(a)'
    OBVIOUS
  <2>2. Regular(a)
    BY <2>1, <1>6, Zenon DEF CentralInv
  <2>3. attempts[a]["jitter"] > 0
    BY <2>1 DEF ConnectTo, Idle, Tasks, FailuresOf, MayConnect
  <2> QED
    BY <2>2, <2>3, <1>7, <1>9, <1>10 DEF Regular, InFlight
<1> QED
  BY <1>8, <1>11, <1>12, OneAddress

LEMMA ReadPsmKeeps ==
    ASSUME CentralInv, NEW a \in Addrs, ReadPsm(a)
    PROVE  CentralInv'
<1>1. CentralTypeOK
  BY DEF CentralInv
<1>2. attempts[a]["psm"] > 0 /\ Idle
  BY Zenon DEF ReadPsm
<1> DEFINE at == [attempts[a] EXCEPT !["psm"] = @ - 1, !["l2cap"] = @ + 1]
<1>3. /\ attempts[a] \in [Stages -> Nat] /\ tasks[a] \in [Tasks -> Nat]
      /\ states[a] \in PolicyStates /\ states[a].until <= clock + BackoffCap
  BY <1>1 DEF CentralTypeOK
<1>4. /\ at \in [Stages -> Nat]
      /\ at["jitter"] = attempts[a]["jitter"]
      /\ at["psm"] = attempts[a]["psm"] - 1
      /\ at["l2cap"] = attempts[a]["l2cap"] + 1
      /\ at["live"] = attempts[a]["live"]
  BY <1>1, <1>3, CentralKinds DEF ReadPsm, Stages
<1>5. states[a] \in PolicyStates /\ states[a].until <= clock + BackoffCap
  BY <1>1, <1>2, <1>3, CentralKinds DEF PolicyStates, Absent, Busy, Backoff
<1>6. /\ states' = [states EXCEPT ![a] = states[a]]
      /\ pending' = [pending EXCEPT ![a] = pending[a]]
      /\ attempts' = [attempts EXCEPT ![a] = at]
      /\ tasks' = [tasks EXCEPT ![a] = tasks[a]]
      /\ streak' = [streak EXCEPT ![a] = streak[a]]
      /\ retryAt' = [retryAt EXCEPT ![a] = retryAt[a]]
      /\ inbound' \subseteq Addrs /\ lost \subseteq lost' /\ lost' \subseteq Addrs /\ clock' = clock
  BY <1>1, <1>2, Zenon DEF ReadPsm, Move, Drop, Post, CentralTypeOK, policyVars, auxVars, Backoff
<1>7. /\ states'[a] = states[a] /\ pending'[a] = pending[a] /\ attempts'[a] = at /\ tasks'[a] = tasks[a]
      /\ streak'[a] = streak[a] /\ retryAt'[a] = retryAt[a]
  BY <1>1, <1>6 DEF CentralTypeOK
<1> HIDE DEF at
<1>8. /\ CentralTypeOK' /\ OthersStay(a)
  <2>1. OnlyAt(a)
    BY <1>6, <1>7, Zenon DEF OnlyAt
  <2>2. pending'[a] \in Nat \cup {-1} /\ streak'[a] \in Nat /\ retryAt'[a] \in Nat
    BY <1>1, <1>2, <1>7, CentralKinds
  <2> QED
    BY <1>1, <1>3, <1>4, <1>5, <1>7, <2>1, <2>2, OneAddressTypes, ZenonT(40)
<1>9. /\ states'[a].kind = states[a].kind /\ states'[a].until = states[a].until /\ states'[a].failures = states[a].failures
      /\ attempts'[a]["jitter"] = attempts[a]["jitter"]
      /\ attempts'[a]["psm"] = attempts[a]["psm"] - 1
      /\ attempts'[a]["l2cap"] = attempts[a]["l2cap"] + 1
      /\ attempts'[a]["live"] = attempts[a]["live"]
      /\ tasks'[a]["established"] = tasks[a]["established"]
      /\ tasks'[a]["closed"] = tasks[a]["closed"]
      /\ tasks'[a]["failed"] = tasks[a]["failed"]
  BY <1>4, <1>5, <1>7, Zenon DEF Busy, Absent, Backoff
<1>10. /\ attempts[a]["jitter"] \in Nat /\ attempts[a]["psm"] \in Nat
      /\ attempts[a]["l2cap"] \in Nat /\ attempts[a]["live"] \in Nat
      /\ tasks[a]["established"] \in Nat /\ tasks[a]["closed"] \in Nat /\ tasks[a]["failed"] \in Nat
      /\ streak[a] \in Nat /\ states[a].kind \in {"absent", "busy", "backoff"}
  BY <1>1, CentralKinds
<1>11. states'[a].kind = "busy" => (InFlight(a) + Waiting(a) > 0)'
  <2>1. states[a].kind = "busy" => InFlight(a) + Waiting(a) > 0
    BY DEF CentralInv
  <2> QED
    BY <2>1, <1>9, <1>10 DEF InFlight, Waiting
<1>12. a \notin lost' => Regular(a)'
  <2>1. SUFFICES ASSUME a \notin lost' PROVE Regular(a)'
    OBVIOUS
  <2>2. Regular(a)
    BY <2>1, <1>6 DEF CentralInv
  <2>3. attempts[a]["psm"] > 0 /\ tasks[a]["established"] = 0
    BY <2>1 DEF ReadPsm, Idle, Tasks, FailuresOf, MayConnect
  <2> QED
    BY <2>2, <2>3, <1>7, <1>9, <1>10 DEF Regular, InFlight
<1> QED
  BY <1>8, <1>11, <1>12, OneAddress

LEMMA ReadPsmFailsKeeps ==
    ASSUME CentralInv, NEW a \in Addrs, ReadPsmFails(a)
    PROVE  CentralInv'
<1>1. CentralTypeOK
  BY DEF CentralInv
<1>2. PICK u \in Nat, n \in Nat :
          /\ u <= clock + BackoffCap /\ n = FailuresOf(a)
          /\ Backoff(u, n) \in PolicyStates
          /\ states' = [states EXCEPT ![a] = Backoff(u, n)]
          /\ pending' = [pending EXCEPT ![a] = -1]
          /\ streak' = [streak EXCEPT ![a] = streak[a] + 1]
  BY <1>1, FailedIs DEF ReadPsmFails
<1> DEFINE at == [attempts[a] EXCEPT !["psm"] = @ - 1]
<1>3. /\ attempts[a] \in [Stages -> Nat] /\ tasks[a] \in [Tasks -> Nat]
      /\ states[a] \in PolicyStates /\ states[a].until <= clock + BackoffCap
  BY <1>1, Zenon DEF CentralTypeOK
<1>4. /\ at \in [Stages -> Nat]
      /\ at["jitter"] = attempts[a]["jitter"]
      /\ at["psm"] = attempts[a]["psm"] - 1
      /\ at["l2cap"] = attempts[a]["l2cap"]
      /\ at["live"] = attempts[a]["live"]
  BY <1>1, <1>3, CentralKinds DEF ReadPsmFails, Stages
<1>5. Backoff(u, n) \in PolicyStates /\ Backoff(u, n).until <= clock + BackoffCap
  BY <1>1, <1>2, <1>3, CentralKinds, ZenonT(40) DEF PolicyStates, Absent, Busy, Backoff
<1>6. /\ states' = [states EXCEPT ![a] = Backoff(u, n)]
      /\ pending' = [pending EXCEPT ![a] = -1]
      /\ attempts' = [attempts EXCEPT ![a] = at]
      /\ tasks' = [tasks EXCEPT ![a] = tasks[a]]
      /\ streak' = [streak EXCEPT ![a] = streak[a] + 1]
      /\ retryAt' = [retryAt EXCEPT ![a] = u]
      /\ inbound' \subseteq Addrs /\ lost \subseteq lost' /\ lost' \subseteq Addrs /\ clock' = clock
  BY <1>1, <1>2 DEF ReadPsmFails, Move, Drop, Post, CentralTypeOK, policyVars, auxVars, Backoff
<1>7. /\ states'[a] = Backoff(u, n) /\ pending'[a] = -1 /\ attempts'[a] = at /\ tasks'[a] = tasks[a]
      /\ streak'[a] = streak[a] + 1 /\ retryAt'[a] = u
  BY <1>1, <1>6 DEF CentralTypeOK
<1> HIDE DEF at
<1>8. /\ CentralTypeOK' /\ OthersStay(a)
  <2>1. OnlyAt(a)
    BY <1>6, <1>7, Zenon DEF OnlyAt
  <2>2. pending'[a] \in Nat \cup {-1} /\ streak'[a] \in Nat /\ retryAt'[a] \in Nat
    BY <1>1, <1>2, <1>7, CentralKinds
  <2> QED
    BY <1>1, <1>3, <1>4, <1>5, <1>7, <2>1, <2>2, OneAddressTypes, ZenonT(40)
<1>9. /\ states'[a].kind = "backoff" /\ states'[a].until = u /\ states'[a].failures = n
      /\ attempts'[a]["jitter"] = attempts[a]["jitter"]
      /\ attempts'[a]["psm"] = attempts[a]["psm"] - 1
      /\ attempts'[a]["l2cap"] = attempts[a]["l2cap"]
      /\ attempts'[a]["live"] = attempts[a]["live"]
      /\ tasks'[a]["established"] = tasks[a]["established"]
      /\ tasks'[a]["closed"] = tasks[a]["closed"]
      /\ tasks'[a]["failed"] = tasks[a]["failed"]
  <2>1. /\ states'[a].kind = "backoff" /\ states'[a].until = u /\ states'[a].failures = n
    <3>1. states'[a] = Backoff(u, n)
      BY <1>7, Zenon
    <3>2. /\ Backoff(u, n).kind = "backoff"
          /\ Backoff(u, n).until = u /\ Backoff(u, n).failures = n
      BY PolicyStatesAre, Zenon
    <3> QED
      BY <3>1, <3>2, Zenon
  <2>2. /\ attempts'[a]["jitter"] = attempts[a]["jitter"]
        /\ attempts'[a]["psm"] = attempts[a]["psm"] - 1
        /\ attempts'[a]["l2cap"] = attempts[a]["l2cap"]
        /\ attempts'[a]["live"] = attempts[a]["live"]
    BY <1>4, <1>5, <1>7, ZenonT(40)
  <2>3. /\ tasks'[a]["established"] = tasks[a]["established"]
        /\ tasks'[a]["closed"] = tasks[a]["closed"]
        /\ tasks'[a]["failed"] = tasks[a]["failed"]
    BY <1>4, <1>5, <1>7, ZenonT(40)
  <2> QED
    BY <2>1, <2>2, <2>3, Zenon
<1>10. /\ attempts[a]["jitter"] \in Nat /\ attempts[a]["psm"] \in Nat
      /\ attempts[a]["l2cap"] \in Nat /\ attempts[a]["live"] \in Nat
      /\ tasks[a]["established"] \in Nat /\ tasks[a]["closed"] \in Nat /\ tasks[a]["failed"] \in Nat
      /\ streak[a] \in Nat /\ states[a].kind \in {"absent", "busy", "backoff"}
  BY <1>1, CentralKinds, Zenon
<1>11. states'[a].kind = "busy" => (InFlight(a) + Waiting(a) > 0)'
  <2>1. states[a].kind = "busy" => InFlight(a) + Waiting(a) > 0
    BY Zenon DEF CentralInv
  <2> QED
    BY <2>1, <1>9, <1>10 DEF InFlight, Waiting
<1>12. a \notin lost' => Regular(a)'
  <2>1. SUFFICES ASSUME a \notin lost' PROVE Regular(a)'
    OBVIOUS
  <2>2. Regular(a)
    BY <2>1, <1>6 DEF CentralInv
  <2>3. attempts[a]["psm"] > 0 /\ tasks[a]["established"] = 0 /\ n = (IF pending[a] = -1 THEN 0 ELSE pending[a]) + 1
    BY <1>2, <2>1 DEF ReadPsmFails, Idle, Tasks, FailuresOf, MayConnect
  <2>4. /\ states[a].kind = "busy" /\ pending[a] = streak[a]
        /\ attempts[a]["jitter"] = 0 /\ attempts[a]["psm"] = 1
        /\ attempts[a]["l2cap"] = 0 /\ attempts[a]["live"] = 0
        /\ tasks[a]["closed"] = 0 /\ tasks[a]["failed"] = 0
    BY <2>2, <2>3, <1>10 DEF Regular, InFlight
  <2>5. n = streak[a] + 1
    BY <2>3, <2>4, <1>10
  <2> QED
    BY <2>3, <2>4, <2>5, <1>7, <1>9 DEF Regular, InFlight
<1> QED
  BY <1>8, <1>11, <1>12, OneAddress, ZenonT(40)

LEMMA OpenFailsKeeps ==
    ASSUME CentralInv, NEW a \in Addrs, OpenFails(a)
    PROVE  CentralInv'
<1>1. CentralTypeOK
  BY DEF CentralInv
<1>2. PICK u \in Nat, n \in Nat :
          /\ u <= clock + BackoffCap /\ n = FailuresOf(a)
          /\ Backoff(u, n) \in PolicyStates
          /\ states' = [states EXCEPT ![a] = Backoff(u, n)]
          /\ pending' = [pending EXCEPT ![a] = -1]
          /\ streak' = [streak EXCEPT ![a] = streak[a] + 1]
  BY <1>1, FailedIs, Zenon DEF OpenFails
<1> DEFINE at == [attempts[a] EXCEPT !["l2cap"] = @ - 1]
<1>3. /\ attempts[a] \in [Stages -> Nat] /\ tasks[a] \in [Tasks -> Nat]
      /\ states[a] \in PolicyStates /\ states[a].until <= clock + BackoffCap
  BY <1>1 DEF CentralTypeOK
<1>4. /\ at \in [Stages -> Nat]
      /\ at["jitter"] = attempts[a]["jitter"]
      /\ at["psm"] = attempts[a]["psm"]
      /\ at["l2cap"] = attempts[a]["l2cap"] - 1
      /\ at["live"] = attempts[a]["live"]
  BY <1>1, <1>3, CentralKinds DEF OpenFails, Stages
<1>5. Backoff(u, n) \in PolicyStates /\ Backoff(u, n).until <= clock + BackoffCap
  BY <1>1, <1>2, <1>3, CentralKinds DEF PolicyStates, Absent, Busy, Backoff
<1>6. /\ states' = [states EXCEPT ![a] = Backoff(u, n)]
      /\ pending' = [pending EXCEPT ![a] = -1]
      /\ attempts' = [attempts EXCEPT ![a] = at]
      /\ tasks' = [tasks EXCEPT ![a] = tasks[a]]
      /\ streak' = [streak EXCEPT ![a] = streak[a] + 1]
      /\ retryAt' = [retryAt EXCEPT ![a] = u]
      /\ inbound' \subseteq Addrs /\ lost \subseteq lost' /\ lost' \subseteq Addrs /\ clock' = clock
  BY <1>1, <1>2 DEF OpenFails, Move, Drop, Post, CentralTypeOK, policyVars, auxVars, Backoff
<1>7. /\ states'[a] = Backoff(u, n) /\ pending'[a] = -1 /\ attempts'[a] = at /\ tasks'[a] = tasks[a]
      /\ streak'[a] = streak[a] + 1 /\ retryAt'[a] = u
  BY <1>1, <1>6, Zenon DEF CentralTypeOK
<1> HIDE DEF at
<1>8. /\ CentralTypeOK' /\ OthersStay(a)
  <2>1. OnlyAt(a)
    BY <1>6, <1>7, Zenon DEF OnlyAt
  <2>2. pending'[a] \in Nat \cup {-1} /\ streak'[a] \in Nat /\ retryAt'[a] \in Nat
    BY <1>1, <1>2, <1>7, CentralKinds
  <2> QED
    BY <1>1, <1>3, <1>4, <1>5, <1>7, <2>1, <2>2, OneAddressTypes, ZenonT(40)
<1>9. /\ states'[a].kind = "backoff" /\ states'[a].until = u /\ states'[a].failures = n
      /\ attempts'[a]["jitter"] = attempts[a]["jitter"]
      /\ attempts'[a]["psm"] = attempts[a]["psm"]
      /\ attempts'[a]["l2cap"] = attempts[a]["l2cap"] - 1
      /\ attempts'[a]["live"] = attempts[a]["live"]
      /\ tasks'[a]["established"] = tasks[a]["established"]
      /\ tasks'[a]["closed"] = tasks[a]["closed"]
      /\ tasks'[a]["failed"] = tasks[a]["failed"]
  <2>1. /\ states'[a].kind = "backoff" /\ states'[a].until = u /\ states'[a].failures = n
    <3>1. states'[a] = Backoff(u, n)
      BY <1>7, Zenon
    <3>2. /\ Backoff(u, n).kind = "backoff"
          /\ Backoff(u, n).until = u /\ Backoff(u, n).failures = n
      BY PolicyStatesAre, Zenon
    <3> QED
      BY <3>1, <3>2, Zenon
  <2>2. /\ attempts'[a]["jitter"] = attempts[a]["jitter"]
        /\ attempts'[a]["psm"] = attempts[a]["psm"]
        /\ attempts'[a]["l2cap"] = attempts[a]["l2cap"] - 1
        /\ attempts'[a]["live"] = attempts[a]["live"]
    BY <1>4, <1>5, <1>7, ZenonT(40)
  <2>3. /\ tasks'[a]["established"] = tasks[a]["established"]
        /\ tasks'[a]["closed"] = tasks[a]["closed"]
        /\ tasks'[a]["failed"] = tasks[a]["failed"]
    BY <1>4, <1>5, <1>7, ZenonT(40)
  <2> QED
    BY <2>1, <2>2, <2>3, Zenon
<1>10. /\ attempts[a]["jitter"] \in Nat /\ attempts[a]["psm"] \in Nat
      /\ attempts[a]["l2cap"] \in Nat /\ attempts[a]["live"] \in Nat
      /\ tasks[a]["established"] \in Nat /\ tasks[a]["closed"] \in Nat /\ tasks[a]["failed"] \in Nat
      /\ streak[a] \in Nat /\ states[a].kind \in {"absent", "busy", "backoff"}
  BY <1>1, CentralKinds
<1>11. states'[a].kind = "busy" => (InFlight(a) + Waiting(a) > 0)'
  <2>1. states[a].kind = "busy" => InFlight(a) + Waiting(a) > 0
    BY DEF CentralInv
  <2> QED
    BY <2>1, <1>9, <1>10, ZenonT(40) DEF InFlight, Waiting
<1>12. a \notin lost' => Regular(a)'
  <2>1. SUFFICES ASSUME a \notin lost' PROVE Regular(a)'
    OBVIOUS
  <2>2. Regular(a)
    BY <2>1, <1>6 DEF CentralInv
  <2>3. attempts[a]["l2cap"] > 0 /\ n = (IF pending[a] = -1 THEN 0 ELSE pending[a]) + 1
    BY <1>2, <2>1, Zenon DEF OpenFails, Idle, Tasks, FailuresOf, MayConnect
  <2> QED
    BY <2>2, <2>3, <1>7, <1>9, <1>10, SMTT(30) DEF Regular, InFlight
<1> QED
  BY <1>8, <1>11, <1>12, OneAddress

LEMMA OpenTornDownKeeps ==
    ASSUME CentralInv, NEW a \in Addrs, OpenTornDown(a)
    PROVE  CentralInv'
<1>1. CentralTypeOK
  BY DEF CentralInv
<1>2. attempts[a]["l2cap"] > 0 /\ lost' = lost \cup {a}
  BY Zenon DEF OpenTornDown
<1> DEFINE at == [attempts[a] EXCEPT !["l2cap"] = @ - 1]
<1> DEFINE ta == [t \in Tasks |-> IF t \in {"closed", "failed"} THEN tasks[a][t] + 1 ELSE tasks[a][t]]
<1>3. /\ attempts[a] \in [Stages -> Nat] /\ tasks[a] \in [Tasks -> Nat]
      /\ states[a] \in PolicyStates /\ states[a].until <= clock + BackoffCap
  BY <1>1 DEF CentralTypeOK
<1>4. /\ at \in [Stages -> Nat]
      /\ at["jitter"] = attempts[a]["jitter"]
      /\ at["psm"] = attempts[a]["psm"]
      /\ at["l2cap"] = attempts[a]["l2cap"] - 1
      /\ at["live"] = attempts[a]["live"]
  BY <1>1, <1>3, CentralKinds DEF OpenTornDown, Stages
<1>5. /\ ta \in [Tasks -> Nat]
      /\ ta["established"] = tasks[a]["established"]
      /\ ta["closed"] = tasks[a]["closed"] + 1
      /\ ta["failed"] = tasks[a]["failed"] + 1
  BY <1>1, <1>2, <1>3, CentralKinds DEF OpenTornDown, Tasks
<1>6. states[a] \in PolicyStates /\ states[a].until <= clock + BackoffCap
  BY <1>1, <1>2, <1>3, CentralKinds DEF PolicyStates, Absent, Busy, Backoff
<1>7. /\ states' = [states EXCEPT ![a] = states[a]]
      /\ pending' = [pending EXCEPT ![a] = pending[a]]
      /\ attempts' = [attempts EXCEPT ![a] = at]
      /\ tasks' = [tasks EXCEPT ![a] = ta]
      /\ streak' = [streak EXCEPT ![a] = 0]
      /\ retryAt' = [retryAt EXCEPT ![a] = 0]
      /\ inbound' \subseteq Addrs /\ lost \subseteq lost' /\ lost' \subseteq Addrs /\ clock' = clock
  BY <1>1, <1>2 DEF OpenTornDown, Move, Drop, Post, CentralTypeOK, policyVars, auxVars, Backoff
<1>8. /\ states'[a] = states[a] /\ pending'[a] = pending[a] /\ attempts'[a] = at /\ tasks'[a] = ta
      /\ streak'[a] = 0 /\ retryAt'[a] = 0
  BY <1>1, <1>7, Zenon DEF CentralTypeOK
<1>9. /\ CentralTypeOK' /\ OthersStay(a)
  <2>1. OnlyAt(a)
    BY <1>7, <1>8, Zenon DEF OnlyAt
  <2>2. pending'[a] \in Nat \cup {-1} /\ streak'[a] \in Nat /\ retryAt'[a] \in Nat
    BY <1>1, <1>2, <1>8, CentralKinds
  <2> QED
    BY <1>1, <1>3, <1>4, <1>5, <1>6, <1>8, <2>1, <2>2, OneAddressTypes
<1>10. /\ states'[a].kind = states[a].kind /\ states'[a].until = states[a].until /\ states'[a].failures = states[a].failures
      /\ attempts'[a]["jitter"] = attempts[a]["jitter"]
      /\ attempts'[a]["psm"] = attempts[a]["psm"]
      /\ attempts'[a]["l2cap"] = attempts[a]["l2cap"] - 1
      /\ attempts'[a]["live"] = attempts[a]["live"]
      /\ tasks'[a]["established"] = tasks[a]["established"]
      /\ tasks'[a]["closed"] = tasks[a]["closed"] + 1
      /\ tasks'[a]["failed"] = tasks[a]["failed"] + 1
  BY <1>4, <1>5, <1>6, <1>8, Zenon DEF Busy, Absent, Backoff
<1>11. /\ attempts[a]["jitter"] \in Nat /\ attempts[a]["psm"] \in Nat
      /\ attempts[a]["l2cap"] \in Nat /\ attempts[a]["live"] \in Nat
      /\ tasks[a]["established"] \in Nat /\ tasks[a]["closed"] \in Nat /\ tasks[a]["failed"] \in Nat
      /\ streak[a] \in Nat /\ states[a].kind \in {"absent", "busy", "backoff"}
  BY <1>1, CentralKinds
<1> HIDE DEF at, ta
<1>12. states'[a].kind = "busy" => (InFlight(a) + Waiting(a) > 0)'
  <2>1. states[a].kind = "busy" => InFlight(a) + Waiting(a) > 0
    BY DEF CentralInv
  <2> QED
    BY <2>1, <1>10, <1>11 DEF InFlight, Waiting
<1>13. a \notin lost' => Regular(a)'
  <2>1. SUFFICES ASSUME a \notin lost' PROVE Regular(a)'
    OBVIOUS
  <2>2. Regular(a)
    BY <2>1, <1>7, Zenon DEF CentralInv
  <2>3. FALSE
    BY <2>1 DEF OpenTornDown, Idle, Tasks, FailuresOf, MayConnect
  <2> QED
    BY <2>2, <2>3, <1>8, <1>10, <1>11 DEF Regular, InFlight
<1> QED
  BY <1>9, <1>12, <1>13, OneAddress

LEMMA OpenKeeps ==
    ASSUME CentralInv, NEW a \in Addrs, OpenL2cap(a)
    PROVE  CentralInv'
<1>1. CentralTypeOK
  BY DEF CentralInv
<1>2. attempts[a]["l2cap"] > 0
  BY Zenon DEF OpenL2cap
<1> DEFINE at == [attempts[a] EXCEPT !["l2cap"] = @ - 1, !["live"] = @ + 1]
<1> DEFINE ta == [t \in Tasks |-> IF t \in {"established"} THEN tasks[a][t] + 1 ELSE tasks[a][t]]
<1>3. /\ attempts[a] \in [Stages -> Nat] /\ tasks[a] \in [Tasks -> Nat]
      /\ states[a] \in PolicyStates /\ states[a].until <= clock + BackoffCap
  BY <1>1 DEF CentralTypeOK
<1>4. /\ at \in [Stages -> Nat]
      /\ at["jitter"] = attempts[a]["jitter"]
      /\ at["psm"] = attempts[a]["psm"]
      /\ at["l2cap"] = attempts[a]["l2cap"] - 1
      /\ at["live"] = attempts[a]["live"] + 1
  BY <1>1, <1>3, CentralKinds DEF OpenL2cap, Stages
<1>5. /\ ta \in [Tasks -> Nat]
      /\ ta["established"] = tasks[a]["established"] + 1
      /\ ta["closed"] = tasks[a]["closed"]
      /\ ta["failed"] = tasks[a]["failed"]
  BY <1>1, <1>2, <1>3, CentralKinds DEF OpenL2cap, Tasks
<1>6. states[a] \in PolicyStates /\ states[a].until <= clock + BackoffCap
  BY <1>1, <1>2, <1>3, CentralKinds DEF PolicyStates, Absent, Busy, Backoff
<1>7. /\ states' = [states EXCEPT ![a] = states[a]]
      /\ pending' = [pending EXCEPT ![a] = pending[a]]
      /\ attempts' = [attempts EXCEPT ![a] = at]
      /\ tasks' = [tasks EXCEPT ![a] = ta]
      /\ streak' = [streak EXCEPT ![a] = 0]
      /\ retryAt' = [retryAt EXCEPT ![a] = 0]
      /\ inbound' \subseteq Addrs /\ lost \subseteq lost' /\ lost' \subseteq Addrs /\ clock' = clock
  BY <1>1, <1>2, Zenon DEF OpenL2cap, Move, Drop, Post, CentralTypeOK, policyVars, auxVars, Backoff
<1>8. /\ states'[a] = states[a] /\ pending'[a] = pending[a] /\ attempts'[a] = at /\ tasks'[a] = ta
      /\ streak'[a] = 0 /\ retryAt'[a] = 0
  BY <1>1, <1>7, Zenon DEF CentralTypeOK
<1>9. /\ CentralTypeOK' /\ OthersStay(a)
  <2>1. OnlyAt(a)
    BY <1>7, <1>8, Zenon DEF OnlyAt
  <2>2. pending'[a] \in Nat \cup {-1} /\ streak'[a] \in Nat /\ retryAt'[a] \in Nat
    BY <1>1, <1>2, <1>8, CentralKinds
  <2> QED
    BY <1>1, <1>3, <1>4, <1>5, <1>6, <1>8, <2>1, <2>2, OneAddressTypes
<1>10. /\ states'[a].kind = states[a].kind /\ states'[a].until = states[a].until /\ states'[a].failures = states[a].failures
      /\ attempts'[a]["jitter"] = attempts[a]["jitter"]
      /\ attempts'[a]["psm"] = attempts[a]["psm"]
      /\ attempts'[a]["l2cap"] = attempts[a]["l2cap"] - 1
      /\ attempts'[a]["live"] = attempts[a]["live"] + 1
      /\ tasks'[a]["established"] = tasks[a]["established"] + 1
      /\ tasks'[a]["closed"] = tasks[a]["closed"]
      /\ tasks'[a]["failed"] = tasks[a]["failed"]
  BY <1>4, <1>5, <1>6, <1>8, Zenon DEF Busy, Absent, Backoff
<1>11. /\ attempts[a]["jitter"] \in Nat /\ attempts[a]["psm"] \in Nat
      /\ attempts[a]["l2cap"] \in Nat /\ attempts[a]["live"] \in Nat
      /\ tasks[a]["established"] \in Nat /\ tasks[a]["closed"] \in Nat /\ tasks[a]["failed"] \in Nat
      /\ streak[a] \in Nat /\ states[a].kind \in {"absent", "busy", "backoff"}
  BY <1>1, CentralKinds
<1> HIDE DEF at, ta
<1>12. states'[a].kind = "busy" => (InFlight(a) + Waiting(a) > 0)'
  <2>1. states[a].kind = "busy" => InFlight(a) + Waiting(a) > 0
    BY DEF CentralInv
  <2> QED
    BY <2>1, <1>10, <1>11, SMTT(30) DEF InFlight, Waiting
<1>13. a \notin lost' => Regular(a)'
  <2>1. SUFFICES ASSUME a \notin lost' PROVE Regular(a)'
    OBVIOUS
  <2>2. Regular(a)
    BY <2>1, <1>7 DEF CentralInv
  <2>3. attempts[a]["l2cap"] > 0
    BY <2>1, Zenon DEF OpenL2cap, Idle, Tasks, FailuresOf, MayConnect
  <2>4. /\ attempts[a]["jitter"] = 0 /\ attempts[a]["psm"] = 0
        /\ attempts[a]["l2cap"] = 1 /\ attempts[a]["live"] = 0
        /\ tasks[a]["closed"] = 0 /\ tasks[a]["established"] = 0
        /\ states[a].kind = "busy"
    BY <2>2, <2>3, <1>11 DEF Regular, InFlight
  <2> QED
    BY <2>2, <2>3, <2>4, <1>8, <1>10, <1>11 DEF Regular, InFlight
<1> QED
  BY <1>9, <1>12, <1>13, OneAddress

LEMMA LinkEndsKeeps ==
    ASSUME CentralInv, NEW a \in Addrs, LinkEnds(a)
    PROVE  CentralInv'
<1>1. CentralTypeOK
  BY DEF CentralInv
<1>2. attempts[a]["live"] > 0
  BY Zenon DEF LinkEnds
<1> DEFINE at == [attempts[a] EXCEPT !["live"] = @ - 1]
<1> DEFINE ta == [t \in Tasks |-> IF t \in {"closed"} THEN tasks[a][t] + 1 ELSE tasks[a][t]]
<1>3. /\ attempts[a] \in [Stages -> Nat] /\ tasks[a] \in [Tasks -> Nat]
      /\ states[a] \in PolicyStates /\ states[a].until <= clock + BackoffCap
  BY <1>1 DEF CentralTypeOK
<1>4. /\ at \in [Stages -> Nat]
      /\ at["jitter"] = attempts[a]["jitter"]
      /\ at["psm"] = attempts[a]["psm"]
      /\ at["l2cap"] = attempts[a]["l2cap"]
      /\ at["live"] = attempts[a]["live"] - 1
  BY <1>1, <1>3, CentralKinds DEF LinkEnds, Stages
<1>5. /\ ta \in [Tasks -> Nat]
      /\ ta["established"] = tasks[a]["established"]
      /\ ta["closed"] = tasks[a]["closed"] + 1
      /\ ta["failed"] = tasks[a]["failed"]
  BY <1>1, <1>2, <1>3, CentralKinds DEF LinkEnds, Tasks
<1>6. states[a] \in PolicyStates /\ states[a].until <= clock + BackoffCap
  BY <1>1, <1>2, <1>3, CentralKinds DEF PolicyStates, Absent, Busy, Backoff
<1>7. /\ states' = [states EXCEPT ![a] = states[a]]
      /\ pending' = [pending EXCEPT ![a] = pending[a]]
      /\ attempts' = [attempts EXCEPT ![a] = at]
      /\ tasks' = [tasks EXCEPT ![a] = ta]
      /\ streak' = [streak EXCEPT ![a] = streak[a]]
      /\ retryAt' = [retryAt EXCEPT ![a] = retryAt[a]]
      /\ inbound' \subseteq Addrs /\ lost \subseteq lost' /\ lost' \subseteq Addrs /\ clock' = clock
  BY <1>1, <1>2 DEF LinkEnds, Move, Drop, Post, CentralTypeOK, policyVars, auxVars, Backoff
<1>8. /\ states'[a] = states[a] /\ pending'[a] = pending[a] /\ attempts'[a] = at /\ tasks'[a] = ta
      /\ streak'[a] = streak[a] /\ retryAt'[a] = retryAt[a]
  BY <1>1, <1>7, Zenon DEF CentralTypeOK
<1>9. /\ CentralTypeOK' /\ OthersStay(a)
  <2>1. OnlyAt(a)
    BY <1>7, <1>8, Zenon DEF OnlyAt
  <2>2. pending'[a] \in Nat \cup {-1} /\ streak'[a] \in Nat /\ retryAt'[a] \in Nat
    BY <1>1, <1>2, <1>8, CentralKinds
  <2> QED
    BY <1>1, <1>3, <1>4, <1>5, <1>6, <1>8, <2>1, <2>2, OneAddressTypes
<1>10. /\ states'[a].kind = states[a].kind /\ states'[a].until = states[a].until /\ states'[a].failures = states[a].failures
      /\ attempts'[a]["jitter"] = attempts[a]["jitter"]
      /\ attempts'[a]["psm"] = attempts[a]["psm"]
      /\ attempts'[a]["l2cap"] = attempts[a]["l2cap"]
      /\ attempts'[a]["live"] = attempts[a]["live"] - 1
      /\ tasks'[a]["established"] = tasks[a]["established"]
      /\ tasks'[a]["closed"] = tasks[a]["closed"] + 1
      /\ tasks'[a]["failed"] = tasks[a]["failed"]
  BY <1>4, <1>5, <1>6, <1>8, Zenon DEF Busy, Absent, Backoff
<1>11. /\ attempts[a]["jitter"] \in Nat /\ attempts[a]["psm"] \in Nat
      /\ attempts[a]["l2cap"] \in Nat /\ attempts[a]["live"] \in Nat
      /\ tasks[a]["established"] \in Nat /\ tasks[a]["closed"] \in Nat /\ tasks[a]["failed"] \in Nat
      /\ streak[a] \in Nat /\ states[a].kind \in {"absent", "busy", "backoff"}
  BY <1>1, CentralKinds
<1> HIDE DEF at, ta
<1>12. states'[a].kind = "busy" => (InFlight(a) + Waiting(a) > 0)'
  <2>1. states[a].kind = "busy" => InFlight(a) + Waiting(a) > 0
    BY DEF CentralInv
  <2> QED
    BY <2>1, <1>10, <1>11, SMTT(30) DEF InFlight, Waiting
<1>13. a \notin lost' => Regular(a)'
  <2>1. SUFFICES ASSUME a \notin lost' PROVE Regular(a)'
    OBVIOUS
  <2>2. Regular(a)
    BY <2>1, <1>7, Zenon DEF CentralInv
  <2>3. attempts[a]["live"] > 0
    BY <2>1 DEF LinkEnds, Idle, Tasks, FailuresOf, MayConnect
  <2> QED
    BY <2>2, <2>3, <1>8, <1>10, <1>11 DEF Regular, InFlight
<1> QED
  BY <1>9, <1>12, <1>13, OneAddress

LEMMA InboundKeeps ==
    ASSUME CentralInv, NEW a \in Addrs, Inbound(a)
    PROVE  CentralInv'
<1>1. CentralTypeOK
  BY DEF CentralInv
<1>2. inbound' \subseteq inbound \cup {a}
  BY DEF Inbound
<1>3. /\ attempts[a] \in [Stages -> Nat] /\ tasks[a] \in [Tasks -> Nat]
      /\ states[a] \in PolicyStates /\ states[a].until <= clock + BackoffCap
  BY <1>1 DEF CentralTypeOK
<1>4. states[a] \in PolicyStates /\ states[a].until <= clock + BackoffCap
  BY <1>1, <1>2, <1>3, CentralKinds DEF PolicyStates, Absent, Busy, Backoff
<1>5. /\ states' = [states EXCEPT ![a] = states[a]]
      /\ pending' = [pending EXCEPT ![a] = pending[a]]
      /\ attempts' = [attempts EXCEPT ![a] = attempts[a]]
      /\ tasks' = [tasks EXCEPT ![a] = tasks[a]]
      /\ streak' = [streak EXCEPT ![a] = streak[a]]
      /\ retryAt' = [retryAt EXCEPT ![a] = retryAt[a]]
      /\ inbound' \subseteq Addrs /\ lost \subseteq lost' /\ lost' \subseteq Addrs /\ clock' = clock
  BY <1>1, <1>2 DEF Inbound, Move, Drop, Post, CentralTypeOK, policyVars, auxVars, Backoff
<1>6. /\ states'[a] = states[a] /\ pending'[a] = pending[a] /\ attempts'[a] = attempts[a] /\ tasks'[a] = tasks[a]
      /\ streak'[a] = streak[a] /\ retryAt'[a] = retryAt[a]
  BY <1>1, <1>5 DEF CentralTypeOK
<1>7. /\ CentralTypeOK' /\ OthersStay(a)
  <2>1. OnlyAt(a)
    BY <1>5, <1>6 DEF OnlyAt
  <2>2. pending'[a] \in Nat \cup {-1} /\ streak'[a] \in Nat /\ retryAt'[a] \in Nat
    BY <1>1, <1>2, <1>6, CentralKinds
  <2> QED
    BY <1>1, <1>3, <1>4, <1>6, <2>1, <2>2, OneAddressTypes
<1>8. /\ states'[a].kind = states[a].kind /\ states'[a].until = states[a].until /\ states'[a].failures = states[a].failures
      /\ attempts'[a]["jitter"] = attempts[a]["jitter"]
      /\ attempts'[a]["psm"] = attempts[a]["psm"]
      /\ attempts'[a]["l2cap"] = attempts[a]["l2cap"]
      /\ attempts'[a]["live"] = attempts[a]["live"]
      /\ tasks'[a]["established"] = tasks[a]["established"]
      /\ tasks'[a]["closed"] = tasks[a]["closed"]
      /\ tasks'[a]["failed"] = tasks[a]["failed"]
  BY <1>4, <1>6 DEF Busy, Absent, Backoff
<1>9. /\ attempts[a]["jitter"] \in Nat /\ attempts[a]["psm"] \in Nat
      /\ attempts[a]["l2cap"] \in Nat /\ attempts[a]["live"] \in Nat
      /\ tasks[a]["established"] \in Nat /\ tasks[a]["closed"] \in Nat /\ tasks[a]["failed"] \in Nat
      /\ streak[a] \in Nat /\ states[a].kind \in {"absent", "busy", "backoff"}
  BY <1>1, CentralKinds, Zenon
<1>10. states'[a].kind = "busy" => (InFlight(a) + Waiting(a) > 0)'
  <2>1. states[a].kind = "busy" => InFlight(a) + Waiting(a) > 0
    BY DEF CentralInv
  <2> QED
    BY <2>1, <1>8, <1>9, Zenon DEF InFlight, Waiting
<1>11. a \notin lost' => Regular(a)'
  <2>1. SUFFICES ASSUME a \notin lost' PROVE Regular(a)'
    OBVIOUS
  <2>2. Regular(a)
    BY <2>1, <1>5, Zenon DEF CentralInv
  <2> QED
    BY <2>2, <1>6, <1>8, <1>9 DEF Regular, InFlight
<1> QED
  BY <1>7, <1>10, <1>11, OneAddress

LEMMA EstablishedKeeps ==
    ASSUME CentralInv, NEW a \in Addrs, RunTask(a, "established")
    PROVE  CentralInv'
<1>1. CentralTypeOK
  BY DEF CentralInv
<1>2. tasks[a]["established"] > 0
  BY DEF RunTask
<1> DEFINE ta == [tasks[a] EXCEPT !["established"] = @ - 1]
<1>3. /\ attempts[a] \in [Stages -> Nat] /\ tasks[a] \in [Tasks -> Nat]
      /\ states[a] \in PolicyStates /\ states[a].until <= clock + BackoffCap
  BY <1>1 DEF CentralTypeOK
<1>4. /\ ta \in [Tasks -> Nat]
      /\ ta["established"] = tasks[a]["established"] - 1
      /\ ta["closed"] = tasks[a]["closed"]
      /\ ta["failed"] = tasks[a]["failed"]
  BY <1>1, <1>2, <1>3, CentralKinds DEF RunTask, Tasks
<1>5. states[a] \in PolicyStates /\ states[a].until <= clock + BackoffCap
  BY <1>1, <1>2, <1>3, CentralKinds, ZenonT(40) DEF PolicyStates, Absent, Busy, Backoff
<1>6. /\ states' = [states EXCEPT ![a] = states[a]]
      /\ pending' = [pending EXCEPT ![a] = 0]
      /\ attempts' = [attempts EXCEPT ![a] = attempts[a]]
      /\ tasks' = [tasks EXCEPT ![a] = ta]
      /\ streak' = [streak EXCEPT ![a] = streak[a]]
      /\ retryAt' = [retryAt EXCEPT ![a] = retryAt[a]]
      /\ inbound' \subseteq Addrs /\ lost \subseteq lost' /\ lost' \subseteq Addrs /\ clock' = clock
  BY <1>1, <1>2 DEF RunTask, Move, Drop, Post, CentralTypeOK, policyVars, auxVars, Backoff, Established, Tasks
<1>7. /\ states'[a] = states[a] /\ pending'[a] = 0 /\ attempts'[a] = attempts[a] /\ tasks'[a] = ta
      /\ streak'[a] = streak[a] /\ retryAt'[a] = retryAt[a]
  BY <1>1, <1>6 DEF CentralTypeOK
<1> HIDE DEF ta
<1>8. /\ CentralTypeOK' /\ OthersStay(a)
  <2>1. OnlyAt(a)
    BY <1>6, <1>7, Zenon DEF OnlyAt
  <2>2. pending'[a] \in Nat \cup {-1} /\ streak'[a] \in Nat /\ retryAt'[a] \in Nat
    BY <1>1, <1>2, <1>7, CentralKinds
  <2> QED
    BY <1>1, <1>3, <1>4, <1>5, <1>7, <2>1, <2>2, OneAddressTypes, ZenonT(40)
<1>9. /\ states'[a].kind = states[a].kind /\ states'[a].until = states[a].until /\ states'[a].failures = states[a].failures
      /\ attempts'[a]["jitter"] = attempts[a]["jitter"]
      /\ attempts'[a]["psm"] = attempts[a]["psm"]
      /\ attempts'[a]["l2cap"] = attempts[a]["l2cap"]
      /\ attempts'[a]["live"] = attempts[a]["live"]
      /\ tasks'[a]["established"] = tasks[a]["established"] - 1
      /\ tasks'[a]["closed"] = tasks[a]["closed"]
      /\ tasks'[a]["failed"] = tasks[a]["failed"]
  BY <1>4, <1>5, <1>7, ZenonT(40) DEF Busy, Absent, Backoff
<1>10. /\ attempts[a]["jitter"] \in Nat /\ attempts[a]["psm"] \in Nat
      /\ attempts[a]["l2cap"] \in Nat /\ attempts[a]["live"] \in Nat
      /\ tasks[a]["established"] \in Nat /\ tasks[a]["closed"] \in Nat /\ tasks[a]["failed"] \in Nat
      /\ streak[a] \in Nat /\ states[a].kind \in {"absent", "busy", "backoff"}
  BY <1>1, CentralKinds, Zenon
<1>11. states'[a].kind = "busy" => (InFlight(a) + Waiting(a) > 0)'
  <2>1. states[a].kind = "busy" => InFlight(a) + Waiting(a) > 0
    BY Zenon DEF CentralInv
  <2> QED
    BY <2>1, <1>9, <1>10 DEF InFlight, Waiting
<1>12. a \notin lost' => Regular(a)'
  <2>1. SUFFICES ASSUME a \notin lost' PROVE Regular(a)'
    OBVIOUS
  <2>2. Regular(a)
    BY <2>1, <1>6 DEF CentralInv
  <2>3. tasks[a]["established"] > 0
    BY <2>1, Zenon DEF RunTask, Idle, Tasks, FailuresOf, MayConnect
  <2> QED
    BY <2>2, <2>3, <1>7, <1>9, <1>10 DEF Regular, InFlight
<1> QED
  BY <1>8, <1>11, <1>12, OneAddress, Zenon

LEMMA ClosedKeeps ==
    ASSUME CentralInv, NEW a \in Addrs, RunTask(a, "closed")
    PROVE  CentralInv'
<1>1. CentralTypeOK
  BY DEF CentralInv
<1>2. tasks[a]["closed"] > 0
  BY DEF RunTask
<1> DEFINE ta == [tasks[a] EXCEPT !["closed"] = @ - 1]
<1>3. /\ attempts[a] \in [Stages -> Nat] /\ tasks[a] \in [Tasks -> Nat]
      /\ states[a] \in PolicyStates /\ states[a].until <= clock + BackoffCap
  BY <1>1 DEF CentralTypeOK
<1>4. /\ ta \in [Tasks -> Nat]
      /\ ta["established"] = tasks[a]["established"]
      /\ ta["closed"] = tasks[a]["closed"] - 1
      /\ ta["failed"] = tasks[a]["failed"]
  BY <1>1, <1>2, <1>3, CentralKinds DEF RunTask, Tasks
<1>5. Absent \in PolicyStates /\ Absent.until <= clock + BackoffCap
  BY <1>1, <1>2, <1>3, CentralKinds DEF PolicyStates, Absent, Busy, Backoff
<1>6. /\ states' = [states EXCEPT ![a] = Absent]
      /\ pending' = [pending EXCEPT ![a] = -1]
      /\ attempts' = [attempts EXCEPT ![a] = attempts[a]]
      /\ tasks' = [tasks EXCEPT ![a] = ta]
      /\ streak' = [streak EXCEPT ![a] = streak[a]]
      /\ retryAt' = [retryAt EXCEPT ![a] = retryAt[a]]
      /\ inbound' \subseteq Addrs /\ lost \subseteq lost' /\ lost' \subseteq Addrs /\ clock' = clock
  BY <1>1, <1>2 DEF RunTask, Move, Drop, Post, CentralTypeOK, policyVars, auxVars, Backoff, Closed, Tasks
<1>7. /\ states'[a] = Absent /\ pending'[a] = -1 /\ attempts'[a] = attempts[a] /\ tasks'[a] = ta
      /\ streak'[a] = streak[a] /\ retryAt'[a] = retryAt[a]
  BY <1>1, <1>6, Zenon DEF CentralTypeOK
<1> HIDE DEF ta
<1>8. /\ CentralTypeOK' /\ OthersStay(a)
  <2>1. OnlyAt(a)
    BY <1>6, <1>7, Zenon DEF OnlyAt
  <2>2. pending'[a] \in Nat \cup {-1} /\ streak'[a] \in Nat /\ retryAt'[a] \in Nat
    BY <1>1, <1>2, <1>7, CentralKinds, Zenon
  <2> QED
    BY <1>1, <1>3, <1>4, <1>5, <1>7, <2>1, <2>2, OneAddressTypes
<1>9. /\ states'[a].kind = "absent" /\ states'[a].until = 0 /\ states'[a].failures = 0
      /\ attempts'[a]["jitter"] = attempts[a]["jitter"]
      /\ attempts'[a]["psm"] = attempts[a]["psm"]
      /\ attempts'[a]["l2cap"] = attempts[a]["l2cap"]
      /\ attempts'[a]["live"] = attempts[a]["live"]
      /\ tasks'[a]["established"] = tasks[a]["established"]
      /\ tasks'[a]["closed"] = tasks[a]["closed"] - 1
      /\ tasks'[a]["failed"] = tasks[a]["failed"]
  <2>1. /\ states'[a].kind = "absent" /\ states'[a].until = 0 /\ states'[a].failures = 0
    BY <1>7, PolicyStatesAre, ZenonT(40)
  <2>2. /\ attempts'[a]["jitter"] = attempts[a]["jitter"]
        /\ attempts'[a]["psm"] = attempts[a]["psm"]
        /\ attempts'[a]["l2cap"] = attempts[a]["l2cap"]
        /\ attempts'[a]["live"] = attempts[a]["live"]
    BY <1>4, <1>5, <1>7, ZenonT(40)
  <2>3. /\ tasks'[a]["established"] = tasks[a]["established"]
        /\ tasks'[a]["closed"] = tasks[a]["closed"] - 1
        /\ tasks'[a]["failed"] = tasks[a]["failed"]
    BY <1>4, <1>5, <1>7, ZenonT(40)
  <2> QED
    BY <2>1, <2>2, <2>3, Zenon
<1>10. /\ attempts[a]["jitter"] \in Nat /\ attempts[a]["psm"] \in Nat
      /\ attempts[a]["l2cap"] \in Nat /\ attempts[a]["live"] \in Nat
      /\ tasks[a]["established"] \in Nat /\ tasks[a]["closed"] \in Nat /\ tasks[a]["failed"] \in Nat
      /\ streak[a] \in Nat /\ states[a].kind \in {"absent", "busy", "backoff"}
  BY <1>1, CentralKinds, Zenon
<1>11. states'[a].kind = "busy" => (InFlight(a) + Waiting(a) > 0)'
  <2>1. states[a].kind = "busy" => InFlight(a) + Waiting(a) > 0
    BY Zenon DEF CentralInv
  <2> QED
    BY <2>1, <1>9, <1>10 DEF InFlight, Waiting
<1>12. a \notin lost' => Regular(a)'
  <2>1. SUFFICES ASSUME a \notin lost' PROVE Regular(a)'
    OBVIOUS
  <2>2. Regular(a)
    BY <2>1, <1>6 DEF CentralInv
  <2>3. tasks[a]["closed"] > 0
    BY <2>1, Zenon DEF RunTask, Idle, Tasks, FailuresOf, MayConnect
  <2> QED
    BY <2>2, <2>3, <1>7, <1>9, <1>10 DEF Regular, InFlight
<1> QED
  BY <1>8, <1>11, <1>12, OneAddress

LEMMA FailedKeeps ==
    ASSUME CentralInv, NEW a \in Addrs, RunTask(a, "failed")
    PROVE  CentralInv'
<1>1. CentralTypeOK
  BY DEF CentralInv
<1>2. PICK u \in Nat, n \in Nat :
          /\ u <= clock + BackoffCap /\ n = FailuresOf(a)
          /\ Backoff(u, n) \in PolicyStates
          /\ states' = [states EXCEPT ![a] = Backoff(u, n)]
          /\ pending' = [pending EXCEPT ![a] = -1]
          /\ streak' = [streak EXCEPT ![a] = streak[a] + 1]
  BY <1>1, FailedIs DEF RunTask
<1> DEFINE ta == [tasks[a] EXCEPT !["failed"] = @ - 1]
<1>3. /\ attempts[a] \in [Stages -> Nat] /\ tasks[a] \in [Tasks -> Nat]
      /\ states[a] \in PolicyStates /\ states[a].until <= clock + BackoffCap
  BY <1>1 DEF CentralTypeOK
<1>4. /\ ta \in [Tasks -> Nat]
      /\ ta["established"] = tasks[a]["established"]
      /\ ta["closed"] = tasks[a]["closed"]
      /\ ta["failed"] = tasks[a]["failed"] - 1
  BY <1>1, <1>2, <1>3, CentralKinds DEF RunTask, Tasks
<1>5. Backoff(u, n) \in PolicyStates /\ Backoff(u, n).until <= clock + BackoffCap
  BY <1>1, <1>2, <1>3, CentralKinds, Zenon DEF PolicyStates, Absent, Busy, Backoff
<1>6. /\ states' = [states EXCEPT ![a] = Backoff(u, n)]
      /\ pending' = [pending EXCEPT ![a] = -1]
      /\ attempts' = [attempts EXCEPT ![a] = attempts[a]]
      /\ tasks' = [tasks EXCEPT ![a] = ta]
      /\ streak' = [streak EXCEPT ![a] = streak[a] + 1]
      /\ retryAt' = [retryAt EXCEPT ![a] = retryAt[a]]
      /\ inbound' \subseteq Addrs /\ lost \subseteq lost' /\ lost' \subseteq Addrs /\ clock' = clock
  BY <1>1, <1>2 DEF RunTask, Move, Drop, Post, CentralTypeOK, policyVars, auxVars, Backoff, Tasks
<1>7. /\ states'[a] = Backoff(u, n) /\ pending'[a] = -1 /\ attempts'[a] = attempts[a] /\ tasks'[a] = ta
      /\ streak'[a] = streak[a] + 1 /\ retryAt'[a] = retryAt[a]
  BY <1>1, <1>6, Zenon DEF CentralTypeOK
<1> HIDE DEF ta
<1>8. /\ CentralTypeOK' /\ OthersStay(a)
  <2>1. OnlyAt(a)
    BY <1>6, <1>7, Zenon DEF OnlyAt
  <2>2. pending'[a] \in Nat \cup {-1} /\ streak'[a] \in Nat /\ retryAt'[a] \in Nat
    BY <1>1, <1>2, <1>7, CentralKinds
  <2> QED
    BY <1>1, <1>3, <1>4, <1>5, <1>7, <2>1, <2>2, OneAddressTypes
<1>9. /\ states'[a].kind = "backoff" /\ states'[a].until = u /\ states'[a].failures = n
      /\ attempts'[a]["jitter"] = attempts[a]["jitter"]
      /\ attempts'[a]["psm"] = attempts[a]["psm"]
      /\ attempts'[a]["l2cap"] = attempts[a]["l2cap"]
      /\ attempts'[a]["live"] = attempts[a]["live"]
      /\ tasks'[a]["established"] = tasks[a]["established"]
      /\ tasks'[a]["closed"] = tasks[a]["closed"]
      /\ tasks'[a]["failed"] = tasks[a]["failed"] - 1
  <2>1. /\ states'[a].kind = "backoff" /\ states'[a].until = u /\ states'[a].failures = n
    <3>1. states'[a] = Backoff(u, n)
      BY <1>7, Zenon
    <3>2. /\ Backoff(u, n).kind = "backoff"
          /\ Backoff(u, n).until = u /\ Backoff(u, n).failures = n
      BY PolicyStatesAre, Zenon
    <3> QED
      BY <3>1, <3>2, Zenon
  <2>2. /\ attempts'[a]["jitter"] = attempts[a]["jitter"]
        /\ attempts'[a]["psm"] = attempts[a]["psm"]
        /\ attempts'[a]["l2cap"] = attempts[a]["l2cap"]
        /\ attempts'[a]["live"] = attempts[a]["live"]
    BY <1>4, <1>5, <1>7, ZenonT(40)
  <2>3. /\ tasks'[a]["established"] = tasks[a]["established"]
        /\ tasks'[a]["closed"] = tasks[a]["closed"]
        /\ tasks'[a]["failed"] = tasks[a]["failed"] - 1
    BY <1>4, <1>5, <1>7, ZenonT(40)
  <2> QED
    BY <2>1, <2>2, <2>3, Zenon
<1>10. /\ attempts[a]["jitter"] \in Nat /\ attempts[a]["psm"] \in Nat
      /\ attempts[a]["l2cap"] \in Nat /\ attempts[a]["live"] \in Nat
      /\ tasks[a]["established"] \in Nat /\ tasks[a]["closed"] \in Nat /\ tasks[a]["failed"] \in Nat
      /\ streak[a] \in Nat /\ states[a].kind \in {"absent", "busy", "backoff"}
  BY <1>1, CentralKinds, Zenon
<1>11. states'[a].kind = "busy" => (InFlight(a) + Waiting(a) > 0)'
  <2>1. states[a].kind = "busy" => InFlight(a) + Waiting(a) > 0
    BY Zenon DEF CentralInv
  <2> QED
    BY <2>1, <1>9, <1>10 DEF InFlight, Waiting
<1>12. a \notin lost' => Regular(a)'
  <2>1. SUFFICES ASSUME a \notin lost' PROVE Regular(a)'
    OBVIOUS
  <2>2. Regular(a)
    BY <2>1, <1>6 DEF CentralInv
  <2>3. tasks[a]["failed"] > 0
    BY <1>2, <2>1 DEF RunTask, Idle, Tasks, FailuresOf, MayConnect
  <2> QED
    BY <2>2, <2>3, <1>7, <1>9, <1>10 DEF Regular, InFlight
<1> QED
  BY <1>8, <1>11, <1>12, OneAddress, Zenon

(* The central through the steps of the service. *)

LEMMA CentralStepKeeps ==
    ASSUME CentralInv, CentralStep
    PROVE  CentralInv'
<1>1. PICK a \in Addrs :
        \/ HandleScanResult(a) \/ ConnectTo(a)
        \/ ReadPsm(a) \/ ReadPsmFails(a)
        \/ OpenL2cap(a) \/ OpenFails(a) \/ OpenTornDown(a)
        \/ LinkEnds(a) \/ Inbound(a)
        \/ \E t \in Tasks : RunTask(a, t)
  BY DEF CentralStep
<1>2. CASE HandleScanResult(a) \/ ConnectTo(a) \/ ReadPsm(a) \/ ReadPsmFails(a)
  BY <1>2, ScanKeeps, ConnectKeeps, ReadPsmKeeps, ReadPsmFailsKeeps
<1>3. CASE OpenL2cap(a) \/ OpenFails(a) \/ OpenTornDown(a)
  BY <1>3, OpenKeeps, OpenFailsKeeps, OpenTornDownKeeps
<1>4. CASE LinkEnds(a) \/ Inbound(a)
  BY <1>4, LinkEndsKeeps, InboundKeeps
<1>5. CASE \E t \in Tasks : RunTask(a, t)
  BY <1>5, EstablishedKeeps, ClosedKeeps, FailedKeeps DEF Tasks
<1> QED
  BY <1>1, <1>2, <1>3, <1>4, <1>5

\* What CentralInv speaks of stays, and the clock may go on.
LEMMA ClockKeeps ==
    ASSUME CentralInv, UNCHANGED <<policyVars, attempts, tasks, inbound, auxVars>>,
           clock' \in 0..MaxTime, clock <= clock'
    PROVE  CentralInv'
<1>1. UNCHANGED <<states, pending, attempts, tasks, inbound, streak, retryAt, lost>>
  BY DEF policyVars, auxVars
<1>2. CentralTypeOK
  BY DEF CentralInv
<1>3. \A a \in Addrs : states'[a].until <= clock' + BackoffCap
  <2>1. SUFFICES ASSUME NEW a \in Addrs PROVE states'[a].until <= clock' + BackoffCap
    OBVIOUS
  <2>2. /\ states[a].until \in Nat /\ clock \in Nat /\ BackoffCap \in Nat /\ MaxTime \in Nat
        /\ states[a].until <= clock + BackoffCap
    BY <1>2, CentralKinds
  <2> QED
    BY <1>1, <2>2
<1>4. CentralTypeOK'
  BY <1>1, <1>2, <1>3, Zenon DEF CentralTypeOK
<1>5. \A a \in Addrs : (states[a].kind = "busy" => InFlight(a) + Waiting(a) > 0)'
  BY <1>1, Zenon DEF CentralInv, InFlight, Waiting
<1>6. \A a \in Addrs \ lost' : Regular(a)'
  BY <1>1 DEF CentralInv, Regular, InFlight
<1> QED
  BY <1>4, <1>5, <1>6 DEF CentralInv

LEMMA NewCentralKeeps ==
    ASSUME CentralTypeOK, NewCentral
    PROVE  CentralInv'
<1>1. clock' \in 0..MaxTime /\ clock' \in Nat /\ BackoffCap \in Nat
  BY CentralAssumption DEF NewCentral, CentralTypeOK
<1>2. Absent \in PolicyStates /\ Absent.until = 0 /\ Absent.kind = "absent" /\ Absent.failures = 0
  BY DEF Absent, PolicyStates
<1>3. \A a \in Addrs :
        /\ states'[a] = Absent /\ streak'[a] = 0 /\ retryAt'[a] = 0
        /\ attempts'[a]["jitter"] = 0 /\ attempts'[a]["psm"] = 0
        /\ attempts'[a]["l2cap"] = 0 /\ attempts'[a]["live"] = 0
        /\ tasks'[a]["established"] = 0 /\ tasks'[a]["closed"] = 0 /\ tasks'[a]["failed"] = 0
  BY DEF NewCentral, Stages, Tasks
<1>4. /\ states' \in [Addrs -> PolicyStates] /\ pending' \in [Addrs -> Nat \cup {-1}]
      /\ attempts' \in [Addrs -> [Stages -> Nat]] /\ tasks' \in [Addrs -> [Tasks -> Nat]]
      /\ streak' \in [Addrs -> Nat] /\ retryAt' \in [Addrs -> Nat]
      /\ inbound' \subseteq Addrs /\ lost' \subseteq Addrs
  BY <1>2 DEF NewCentral
<1>5. CentralTypeOK'
  BY <1>1, <1>2, <1>3, <1>4 DEF CentralTypeOK
<1>6. \A a \in Addrs : states'[a].kind # "busy"
  BY <1>2, <1>3, Zenon
<1>7. \A a \in Addrs : Regular(a)'
  BY <1>2, <1>3 DEF Regular, InFlight
<1> QED
  BY <1>5, <1>6, <1>7 DEF CentralInv

LEMMA InitCentralInv == Init => CentralInv
<1> SUFFICES ASSUME CentralInit PROVE CentralInv
  BY DEF Init
<1>1. clock \in 0..MaxTime /\ clock \in Nat /\ BackoffCap \in Nat
  BY CentralAssumption DEF CentralInit
<1>2. Absent \in PolicyStates /\ Absent.until = 0 /\ Absent.kind = "absent" /\ Absent.failures = 0
  BY DEF Absent, PolicyStates
<1>3. \A a \in Addrs :
        /\ states[a] = Absent /\ streak[a] = 0 /\ retryAt[a] = 0
        /\ attempts[a]["jitter"] = 0 /\ attempts[a]["psm"] = 0
        /\ attempts[a]["l2cap"] = 0 /\ attempts[a]["live"] = 0
        /\ tasks[a]["established"] = 0 /\ tasks[a]["closed"] = 0 /\ tasks[a]["failed"] = 0
  BY DEF CentralInit, Stages, Tasks
<1>4. /\ states \in [Addrs -> PolicyStates] /\ pending \in [Addrs -> Nat \cup {-1}]
      /\ attempts \in [Addrs -> [Stages -> Nat]] /\ tasks \in [Addrs -> [Tasks -> Nat]]
      /\ streak \in [Addrs -> Nat] /\ retryAt \in [Addrs -> Nat]
      /\ inbound \subseteq Addrs /\ lost \subseteq Addrs
  BY <1>2 DEF CentralInit
<1>5. CentralTypeOK
  BY <1>1, <1>2, <1>3, <1>4 DEF CentralTypeOK
<1>6. \A a \in Addrs : states[a].kind # "busy"
  BY <1>2, <1>3, Zenon
<1>7. \A a \in Addrs : Regular(a)
  BY <1>2, <1>3 DEF Regular, InFlight
<1> QED
  BY <1>5, <1>6, <1>7 DEF CentralInv

\* A step of what a destroyed instance has left.
Leftovers == \E a \in Addrs : Unwind(a) \/ OrphanEnds(a)

\* What a step of the service means for the central.
LEMMA CentralMoves ==
    ASSUME [Next]_vars
    PROVE  CentralStep \/ Elapse \/ NewCentral \/ Leftovers \/ UNCHANGED centralVars
<1>1. CASE UNCHANGED vars
  BY <1>1 DEF vars
<1>2. CASE AppOpens \/ UserStarts \/ UserStops \/ RadioOff \/ RadioOn
  BY <1>2, Zenon DEF AppOpens, UserStarts, UserStops, RadioOff, RadioOn
<1>3. CASE ProcessKilled
  BY <1>3 DEF ProcessKilled, CentralGone
<1>4. ASSUME NEW i \in Instances, Callback(i)
      PROVE  NewCentral \/ UNCHANGED centralVars
  BY <1>4, Zenon DEF Callback, OnCreate, OnStartCommand, OnStartRefused, OnRadioOff, OnDestroy, StopCentral
<1>5. ASSUME NEW i \in Instances, Coroutine(i)
      PROVE  UNCHANGED centralVars
  BY <1>5 DEF Coroutine, Start, StartFails, StartCentral, StartCentralFails
<1>6. ASSUME NEW i \in Instances, Answered(i) \/ PeripheralFails(i) \/ ScanFails(i)
      PROVE  UNCHANGED centralVars
  BY <1>6 DEF Answered, PeripheralFails, ScanFails
<1>7. CASE CentralWorks \/ LeftoverEnds \/ TimePasses
  BY <1>7 DEF CentralWorks, LeftoverEnds, Leftovers, TimePasses
<1> QED
  BY <1>1, <1>2, <1>3, <1>4, <1>5, <1>6, <1>7 DEF Next

LEMMA CentralInvKept == CentralInv /\ [Next]_vars => CentralInv'
<1> SUFFICES ASSUME CentralInv, [Next]_vars PROVE CentralInv'
  OBVIOUS
<1>1. CASE CentralStep
  BY <1>1, CentralStepKeeps
<1>2. CASE Elapse \/ Leftovers \/ UNCHANGED centralVars
  <2>1. /\ UNCHANGED <<policyVars, attempts, tasks, inbound, auxVars>>
        /\ clock' = clock \/ (clock < MaxTime /\ clock' = clock + 1)
    BY <1>2 DEF Elapse, Leftovers, Unwind, OrphanEnds, centralVars
  <2>2. clock \in 0..MaxTime /\ MaxTime \in Nat
    BY CentralAssumption DEF CentralInv, CentralTypeOK
  <2>3. clock' \in 0..MaxTime /\ clock <= clock'
    BY <2>1, <2>2
  <2> QED
    BY <2>1, <2>3, ClockKeeps
<1>3. CASE NewCentral
  BY <1>3, NewCentralKeeps DEF CentralInv
<1> QED
  BY <1>1, <1>2, <1>3, CentralMoves

\* What is left of a destroyed instance keeps its types.
LEMMA LeftKept == CentralInv /\ LeftTypeOK /\ [Next]_vars => LeftTypeOK'
<1> SUFFICES ASSUME CentralInv, LeftTypeOK, [Next]_vars PROVE LeftTypeOK'
  OBVIOUS
<1>1. \A a \in Addrs : attempts[a]["l2cap"] \in Nat
  BY DEF CentralInv, CentralTypeOK, Stages
<1>2. ASSUME NEW late \in SUBSET Addrs, StopCentral(late) PROVE LeftTypeOK'
  BY <1>1, <1>2 DEF StopCentral, LeftTypeOK
<1>3. CASE CentralGone
  BY <1>3 DEF CentralGone, LeftTypeOK
<1>4. ASSUME NEW a \in Addrs, Unwind(a) \/ OrphanEnds(a) PROVE LeftTypeOK'
  BY <1>4 DEF Unwind, OrphanEnds, LeftTypeOK
<1>5. CASE UNCHANGED leftVars
  BY <1>5 DEF leftVars, LeftTypeOK
<1>6. CASE UNCHANGED centralVars
  BY <1>5, <1>6 DEF centralVars
<1>7. CASE UNCHANGED vars \/ AppOpens \/ UserStarts \/ UserStops \/ RadioOff \/ RadioOn
  BY <1>6, <1>7, Zenon DEF vars, AppOpens, UserStarts, UserStops, RadioOff, RadioOn
<1>8. CASE ProcessKilled
  BY <1>3, <1>8 DEF ProcessKilled
<1>9. ASSUME NEW i \in Instances, Callback(i) PROVE LeftTypeOK'
  <2>1. CASE OnDestroy(i)
    <3>1. PICK late \in LateAccepts(i) : StopCentral(late)
      BY <2>1 DEF OnDestroy
    <3>2. late \in SUBSET Addrs
      BY <3>1 DEF LateAccepts
    <3> QED
      BY <1>2, <3>1, <3>2
  <2> QED
    BY <1>6, <1>9, <2>1, Zenon DEF Callback, OnCreate, OnStartCommand, OnStartRefused, OnRadioOff
<1>10. ASSUME NEW i \in Instances, Coroutine(i) \/ Answered(i) \/ PeripheralFails(i) \/ ScanFails(i)
       PROVE  LeftTypeOK'
  BY <1>6, <1>10 DEF Coroutine, Start, StartFails, StartCentral, StartCentralFails, Answered, PeripheralFails, ScanFails
<1>11. CASE CentralWorks \/ TimePasses
  BY <1>5, <1>11 DEF CentralWorks, CentralStep, TimePasses, Elapse
<1>12. CASE LeftoverEnds
  BY <1>4, <1>12 DEF LeftoverEnds
<1> QED
  BY <1>7, <1>8, <1>9, <1>10, <1>11, <1>12 DEF Next

(***************************************************************************)
(* What the policy of the central holds of an address agrees with what is  *)
(* under way for it and with how its last attempts went: in every          *)
(* interleaving of scan results, attempts, ends of connections and queued  *)
(* notices, a busy address has something out that will return it, no       *)
(* address has two attempts unless start() lost a connection, and the      *)
(* failures behind a backoff are those in a row.                           *)
(***************************************************************************)
THEOREM PolicyStaysInStep == Spec => []PolicyAgrees
<1>1. CentralInv /\ LeftTypeOK => PolicyAgrees
  <2> SUFFICES ASSUME CentralInv, LeftTypeOK PROVE PolicyAgrees
    OBVIOUS
  <2>1. CentralTypeOK /\ \A a \in Addrs : states[a].kind = "busy" => InFlight(a) + Waiting(a) > 0
    BY Zenon DEF CentralInv
  <2>2. ASSUME NEW a \in Addrs \ lost
        PROVE  InFlight(a) <= 1 /\ (states[a].kind = "backoff" => states[a].failures = streak[a])
    <3>1. Regular(a)
      BY Zenon DEF CentralInv
    <3>2. InFlight(a) \in Nat /\ tasks[a]["closed"] \in Nat
      BY <2>1, CentralKinds DEF InFlight
    <3>3. InFlight(a) + tasks[a]["closed"] <= 1
      BY <3>1 DEF Regular
    <3> QED
      BY <3>1, <3>2, <3>3 DEF Regular
  <2> QED
    BY <2>1, <2>2 DEF PolicyAgrees, BusyIsOwned, FailuresInARow
<1>2. Init => LeftTypeOK
  BY DEF Init, CentralInit, LeftTypeOK
<1> QED
  BY <1>1, <1>2, InitCentralInv, CentralInvKept, LeftKept, PTL DEF Spec

(***************************************************************************)
(* After an attempt that made no connection, no step begins another one to *)
(* that address before its backoff is over, whatever is queued when.       *)
(***************************************************************************)
THEOREM AttemptsDoBackOff == Spec => AttemptsBackOff
<1>1. ASSUME CentralInv, [Next]_vars, NEW a \in Addrs \ lost,
             attempts'[a]["jitter"] > attempts[a]["jitter"]
      PROVE  clock >= retryAt[a]
  <2>1. CentralTypeOK /\ Regular(a)
    BY <1>1 DEF CentralInv
  <2>2. /\ attempts[a]["jitter"] \in Nat /\ clock \in Nat /\ retryAt[a] \in Nat
        /\ attempts \in [Addrs -> [Stages -> Nat]]
    BY <2>1, CentralKinds DEF CentralTypeOK
  <2>3. attempts' # attempts /\ ~NewCentral
    <3>1. ASSUME NewCentral PROVE FALSE
      <4>1. attempts'[a]["jitter"] = 0
        BY <3>1 DEF NewCentral, Stages
      <4> QED
        BY <1>1, <2>2, <4>1
    <3> QED
      BY <1>1, <2>2, <3>1
  <2>4. CentralStep
    BY <1>1, <2>3, CentralMoves, ZenonT(40) DEF Elapse, Leftovers, Unwind, OrphanEnds, centralVars
  <2>5. PICK b \in Addrs : HandleScanResult(b) \/ attempts'[a]["jitter"] <= attempts[a]["jitter"]
    <3>1. PICK b \in Addrs :
            \/ HandleScanResult(b) \/ ConnectTo(b)
            \/ ReadPsm(b) \/ ReadPsmFails(b)
            \/ OpenL2cap(b) \/ OpenFails(b) \/ OpenTornDown(b)
            \/ LinkEnds(b) \/ Inbound(b)
            \/ \E t \in Tasks : RunTask(b, t)
      BY <2>4 DEF CentralStep
    <3>2. CASE ConnectTo(b)
      BY <2>2, <3>2 DEF ConnectTo, Move, Stages
    <3>3. CASE ReadPsm(b) \/ OpenL2cap(b)
      BY <2>2, <3>3 DEF ReadPsm, OpenL2cap, Move, Stages
    <3>4. CASE ReadPsmFails(b) \/ OpenFails(b) \/ OpenTornDown(b) \/ LinkEnds(b)
      BY <2>2, <3>4 DEF ReadPsmFails, OpenFails, OpenTornDown, LinkEnds, Drop, Stages
    <3>5. CASE Inbound(b) \/ \E t \in Tasks : RunTask(b, t)
      BY <2>2, <2>3, <3>5 DEF Inbound, RunTask
    <3> QED
      BY <3>1, <3>2, <3>3, <3>4, <3>5
  <2>6. HandleScanResult(b)
    <3>1. CentralInv'
      BY <1>1, CentralInvKept
    <3>2. attempts'[a]["jitter"] \in Nat
      BY <3>1 DEF CentralInv, CentralTypeOK, Stages
    <3> QED
      BY <1>1, <2>2, <2>5, <3>2
  <2>7. b = a
    BY <1>1, <2>2, <2>6 DEF HandleScanResult, Stages
  <2>8. states[a].kind = "absent" \/ (states[a].kind = "backoff" /\ clock >= states[a].until)
    BY <2>6, <2>7 DEF HandleScanResult, MayConnect
  <2> QED
    BY <2>1, <2>2, <2>8 DEF Regular
<1>2. CentralInv /\ [Next]_vars
      => [\A a \in Addrs \ lost :
            attempts'[a]["jitter"] > attempts[a]["jitter"] => clock >= retryAt[a]]_centralVars
  BY <1>1
<1> QED
  BY <1>2, InitCentralInv, CentralInvKept, PTL DEF Spec, AttemptsBackOff
==============================================================================
