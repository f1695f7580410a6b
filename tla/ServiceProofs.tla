---------------------------- MODULE ServiceProofs ----------------------------
(***************************************************************************)
(* Proofs about the Android service, for any number of instances, of lives *)
(* of the process and of switches of the radio: a destroyed instance       *)
(* leaves nothing behind, and the toggle tells the truth.                  *)
(***************************************************************************)
EXTENDS CentralProofs

-----------------------------------------------------------------------------
(* The messages that wait for the main thread. *)

LiveIn(s, i) == s[i] \notin {"none", "gone"}

Queued(q, what, i) == \E n \in 1..Len(q) : q[n] = Message(what, i)
Before(q, n, x) == \E m \in 1..(n - 1) : q[m] = x
Between(q, m, n, x) == \E k \in (m + 1)..(n - 1) : q[k] = x

\* For the phases s of the instances and the record r: an instance that is live
\* or about to be made is the one on record or will be destroyed ...
RecordInv(q, s, r) ==
    /\ \A i \in Instances : Queued(q, "create", i) => s[i] = "none"
    /\ \A i \in Instances :
          i # r /\ (LiveIn(s, i) \/ Queued(q, "create", i)) => Queued(q, "destroy", i)
    /\ r # 0 => /\ LiveIn(s, r) \/ Queued(q, "create", r)
                /\ ~Queued(q, "destroy", r)

\* ... one is made only after the others are destroyed ...
TurnsInv(q, s) ==
    /\ \A i, j \in Instances, n \in 1..Len(q) :
          q[n] = Message("create", i) /\ LiveIn(s, j) => Before(q, n, Message("destroy", j))
    /\ \A i, j \in Instances, m, n \in 1..Len(q) :
          m < n /\ q[m] = Message("create", i) /\ q[n] = Message("create", j)
          => Between(q, m, n, Message("destroy", i))

\* ... and a message reaches an instance that is live by then, with none but the
\* radio's after the one that destroys it.
ReachInv(q, s) ==
    /\ \A i \in Instances, n \in 1..Len(q) :
          q[n] \in {Message("start", i), Message("destroy", i)}
          => LiveIn(s, i) \/ Before(q, n, Message("create", i))
    /\ \A i \in Instances, m, n \in 1..Len(q) :
          /\ q[m] = Message("destroy", i)
          /\ q[n] \in {Message("create", i), Message("start", i), Message("destroy", i)}
          => n <= m

QueueInv(q, s, r) == RecordInv(q, s, r) /\ TurnsInv(q, s) /\ ReachInv(q, s)

-----------------------------------------------------------------------------
(* The service. *)

\* What an instance has open, by how far it is.
HoldsInv(i) ==
    /\ scanning[i] => Alive(i)
    /\ service[i] = "none" => /\ ~listening[i] /\ ~gattServer[i] /\ ~advertising[i]
                              /\ answer[i] = "none"
    /\ service[i] = "gone" => /\ ~listening[i] /\ ~gattServer[i]
                              /\ advertising[i] => answer[i] = "raced"
                              /\ answer[i] \in {"read", "raced", "done"}
    /\ service[i] \in {"created", "waiting"} => answer[i] = "none"
    /\ Alive(i) => /\ answer[i] # "raced"
                   /\ answer[i] \in {"added", "read", "started"} => listening[i]
                   /\ advertising[i] => advertiser[i]
    /\ answer[i] = "raced" => advertiser[i]

\* What an instance that is on record and has not lost the radio provides.
ServesInv(i) ==
    record = i =>
        /\ service[i] # "failed"
        /\ service[i] \in {"starting", "up"} /\ ~Queued(todo, "radio off", i)
           => /\ listening[i] /\ gattServer[i] /\ advertiser[i]
              /\ answer[i] # "none"
              /\ answer[i] \in {"started", "done"} => advertising[i]
              /\ service[i] = "up" => scanning[i]
        /\ service[i] = "up" => running \/ FailedLate

-----------------------------------------------------------------------------
(* The messages that wait: what the end and the head of the queue do to it. *)

LEMMA MessageIs ==
    /\ \A v, w, i, j : Message(v, i) = Message(w, j) => v = w /\ i = j
    /\ \A w \in {"create", "start", "radio off", "destroy"}, i \in Instances :
          Message(w, i) \in Messages
  BY DEF Message, Messages

LEMMA SameMessage ==
    ASSUME NEW w, NEW i, NEW j, Message(w, i) = Message(w, j)
    PROVE  i = j
  BY MessageIs, ZenonT(40)

LEMMA MessagesDiffer ==
    ASSUME NEW i, NEW j
    PROVE  /\ Message("create", i) # Message("start", j)
           /\ Message("create", i) # Message("radio off", j)
           /\ Message("create", i) # Message("destroy", j)
           /\ Message("start", i) # Message("radio off", j)
           /\ Message("start", i) # Message("destroy", j)
           /\ Message("radio off", i) # Message("destroy", j)
  BY Zenon DEF Message

\* p is q with x after it, or q without its first message.
Extends(p, q, x) ==
    /\ Len(q) \in Nat /\ Len(p) = Len(q) + 1
    /\ p[Len(q) + 1] = x
    /\ \A n \in 1..Len(q) : p[n] = q[n]

Shortens(p, q) ==
    /\ Len(p) \in Nat /\ Len(q) = Len(p) + 1
    /\ \A n \in 1..Len(p) : p[n] = q[n + 1]

LEMMA AppendExtends ==
    ASSUME NEW q \in Seq(Messages), NEW x \in Messages
    PROVE  Append(q, x) \in Seq(Messages) /\ Extends(Append(q, x), q, x)
  BY DEF Extends

LEMMA TailShortens ==
    ASSUME NEW q \in Seq(Messages), q # <<>>
    PROVE  Tail(q) \in Seq(Messages) /\ Shortens(Tail(q), q) /\ q[1] = Head(q)
  BY DEF Shortens

LEMMA ExtendsQueued ==
    ASSUME NEW p, NEW q, NEW x, Extends(p, q, x), NEW w, NEW i
    PROVE  Queued(p, w, i) <=> Queued(q, w, i) \/ x = Message(w, i)
<1>1. 1..Len(p) = 1..Len(q) \cup {Len(q) + 1}
  BY DEF Extends
<1> QED
  BY <1>1 DEF Extends, Queued

LEMMA ShortensQueued ==
    ASSUME NEW p, NEW q, Shortens(p, q), NEW w, NEW i
    PROVE  Queued(q, w, i) <=> Queued(p, w, i) \/ q[1] = Message(w, i)
<1>1. ASSUME Queued(q, w, i), q[1] # Message(w, i)
      PROVE  Queued(p, w, i)
  <2>1. PICK n \in 1..Len(q) : q[n] = Message(w, i)
    BY <1>1 DEF Queued
  <2>2. n - 1 \in 1..Len(p) /\ n - 1 + 1 = n
    BY <1>1, <2>1 DEF Shortens
  <2>3. p[n - 1] = Message(w, i)
    BY <2>1, <2>2 DEF Shortens
  <2> QED
    BY <2>2, <2>3 DEF Queued
<1>2. ASSUME Queued(p, w, i)
      PROVE  Queued(q, w, i)
  <2>1. PICK n \in 1..Len(p) : p[n] = Message(w, i)
    BY <1>2 DEF Queued
  <2>2. n + 1 \in 1..Len(q) /\ q[n + 1] = Message(w, i)
    BY <2>1 DEF Shortens
  <2> QED
    BY <2>2 DEF Queued
<1>3. ASSUME q[1] = Message(w, i)
      PROVE  Queued(q, w, i)
  <2>1. 1 \in 1..Len(q)
    BY DEF Shortens
  <2> QED
    BY <1>3, <2>1 DEF Queued
<1> QED
  BY <1>1, <1>2, <1>3

LEMMA ExtendsTurns ==
    ASSUME NEW p, NEW q, NEW x, NEW s, Extends(p, q, x), TurnsInv(q, s),
           \A i \in Instances : x # Message("create", i)
    PROVE  TurnsInv(p, s)
<1>1. \A n \in 1..Len(p), i \in Instances :
        p[n] = Message("create", i) => n \in 1..Len(q) /\ q[n] = Message("create", i)
  BY DEF Extends
<1>2. ASSUME NEW i \in Instances, NEW j \in Instances, NEW n \in 1..Len(p),
             p[n] = Message("create", i), LiveIn(s, j)
      PROVE  Before(p, n, Message("destroy", j))
  <2>1. n \in 1..Len(q) /\ q[n] = Message("create", i)
    BY <1>1, <1>2
  <2>2. PICK m \in 1..(n - 1) : q[m] = Message("destroy", j)
    BY <1>2, <2>1 DEF TurnsInv, Before
  <2>3. p[m] = Message("destroy", j)
    BY <2>1, <2>2 DEF Extends
  <2> QED
    BY <2>3 DEF Before
<1>3. ASSUME NEW i \in Instances, NEW j \in Instances, NEW m \in 1..Len(p), NEW n \in 1..Len(p),
             m < n, p[m] = Message("create", i), p[n] = Message("create", j)
      PROVE  Between(p, m, n, Message("destroy", i))
  <2>1. /\ n \in 1..Len(q) /\ q[n] = Message("create", j)
        /\ m \in 1..Len(q) /\ q[m] = Message("create", i)
    BY <1>1, <1>3
  <2>2. PICK k \in (m + 1)..(n - 1) : q[k] = Message("destroy", i)
    BY <1>3, <2>1 DEF TurnsInv, Between
  <2>3. p[k] = Message("destroy", i)
    BY <2>1, <2>2 DEF Extends
  <2> QED
    BY <2>3 DEF Between
<1> QED
  BY <1>2, <1>3 DEF TurnsInv

LEMMA ExtendsReach ==
    ASSUME NEW p, NEW q, NEW x, NEW s, Extends(p, q, x), ReachInv(q, s),
           \A i \in Instances :
              /\ x \in {Message("create", i), Message("start", i), Message("destroy", i)}
                 => ~Queued(q, "destroy", i)
              /\ x \in {Message("start", i), Message("destroy", i)}
                 => LiveIn(s, i) \/ Queued(q, "create", i)
    PROVE  ReachInv(p, s)
<1>1. \A n \in 1..Len(p) : (n \in 1..Len(q) /\ p[n] = q[n]) \/ (n = Len(q) + 1 /\ p[n] = x)
  BY DEF Extends
<1>2. ASSUME NEW i \in Instances, NEW n \in 1..Len(p),
             p[n] \in {Message("start", i), Message("destroy", i)}, ~LiveIn(s, i)
      PROVE  Before(p, n, Message("create", i))
  <2>1. PICK m \in 1..Len(q) : m < n /\ q[m] = Message("create", i)
    <3>1. CASE n \in 1..Len(q) /\ p[n] = q[n]
      <4>1. Before(q, n, Message("create", i))
        BY <1>2, <3>1 DEF ReachInv
      <4> QED
        BY <3>1, <4>1 DEF Before, Extends
    <3>2. CASE n = Len(q) + 1 /\ p[n] = x
      <4>1. Queued(q, "create", i)
        BY <1>2, <3>2
      <4> QED
        BY <3>2, <4>1 DEF Queued, Extends
    <3> QED
      BY <1>1, <3>1, <3>2
  <2>2. m \in 1..(n - 1) /\ p[m] = Message("create", i)
    BY <2>1 DEF Extends
  <2> QED
    BY <2>2 DEF Before
<1>3. ASSUME NEW i \in Instances, NEW m \in 1..Len(p), NEW n \in 1..Len(p),
             p[m] = Message("destroy", i),
             p[n] \in {Message("create", i), Message("start", i), Message("destroy", i)}
      PROVE  n <= m
  <2>1. CASE m = Len(q) + 1
    BY <2>1 DEF Extends
  <2>2. CASE m \in 1..Len(q) /\ n \in 1..Len(q)
    <3>1. p[m] = q[m] /\ p[n] = q[n]
      BY <2>2 DEF Extends
    <3> QED
      BY <1>3, <2>2, <3>1 DEF ReachInv
  <2>3. CASE m \in 1..Len(q) /\ n = Len(q) + 1
    <3>1. p[m] = q[m] /\ p[n] = x
      BY <2>3 DEF Extends
    <3>2. Queued(q, "destroy", i)
      BY <1>3, <2>3, <3>1 DEF Queued
    <3> QED
      BY <1>3, <3>1, <3>2
  <2> QED
    BY <1>1, <2>1, <2>2, <2>3
<1> QED
  BY <1>2, <1>3 DEF ReachInv

\* The instance on record is told to stop.
LEMMA StopAppended ==
    ASSUME NEW q \in Seq(Messages), NEW s, NEW r \in Instances, QueueInv(q, s, r)
    PROVE  /\ Append(q, Message("destroy", r)) \in Seq(Messages)
           /\ QueueInv(Append(q, Message("destroy", r)), s, 0)
<1> DEFINE x == Message("destroy", r)
           p == Append(q, x)
<1>1. x \in Messages
  BY MessageIs, Zenon
<1>2. RecordInv(q, s, r) /\ TurnsInv(q, s) /\ ReachInv(q, s) /\ r # 0 /\ 0 \notin Instances
  BY MeshAssumption DEF QueueInv
<1>3. p \in Seq(Messages) /\ Extends(p, q, x)
  BY <1>1, AppendExtends
<1>4. /\ \A i : x # Message("create", i) /\ x # Message("start", i)
      /\ \A i : x = Message("destroy", i) => i = r
  BY MessagesDiffer, MessageIs, Zenon
<1>5. x = Message("destroy", r)
  OBVIOUS
<1> HIDE DEF x, p
<1>6. TurnsInv(p, s)
  BY <1>2, <1>3, <1>4, ExtendsTurns
<1>7. ReachInv(p, s)
  <2>1. ~Queued(q, "destroy", r) /\ (LiveIn(s, r) \/ Queued(q, "create", r))
    BY <1>2 DEF RecordInv
  <2> QED
    BY <1>2, <1>3, <1>4, <2>1, ExtendsReach
<1>8. RecordInv(p, s, 0)
  <2>1. \A i : /\ Queued(p, "create", i) <=> Queued(q, "create", i)
               /\ Queued(p, "destroy", i) <=> Queued(q, "destroy", i) \/ i = r
    BY <1>3, <1>4, <1>5, ExtendsQueued
  <2> QED
    BY <1>2, <2>1 DEF RecordInv
<1> QED
  BY <1>3, <1>6, <1>7, <1>8 DEF p, x, QueueInv

\* The instance on record is started, again or for the first time.
LEMMA StartAppended ==
    ASSUME NEW q \in Seq(Messages), NEW s, NEW r \in Instances, QueueInv(q, s, r)
    PROVE  /\ Append(q, Message("start", r)) \in Seq(Messages)
           /\ QueueInv(Append(q, Message("start", r)), s, r)
<1> DEFINE x == Message("start", r)
           p == Append(q, x)
<1>1. x \in Messages
  BY MessageIs, Zenon
<1>2. RecordInv(q, s, r) /\ TurnsInv(q, s) /\ ReachInv(q, s) /\ r # 0
  BY MeshAssumption DEF QueueInv
<1>3. p \in Seq(Messages) /\ Extends(p, q, x)
  BY <1>1, AppendExtends
<1>4. /\ \A i : x # Message("create", i) /\ x # Message("destroy", i)
      /\ \A i : x = Message("start", i) => i = r
  BY MessagesDiffer, MessageIs, Zenon
<1> HIDE DEF x, p
<1>6. TurnsInv(p, s)
  BY <1>2, <1>3, <1>4, ExtendsTurns
<1>7. ReachInv(p, s)
  <2>1. ~Queued(q, "destroy", r) /\ (LiveIn(s, r) \/ Queued(q, "create", r))
    BY <1>2 DEF RecordInv
  <2> QED
    BY <1>2, <1>3, <1>4, <2>1, ExtendsReach
<1>8. RecordInv(p, s, r)
  <2>1. \A i : /\ Queued(p, "create", i) <=> Queued(q, "create", i)
               /\ Queued(p, "destroy", i) <=> Queued(q, "destroy", i)
    BY <1>3, <1>4, ExtendsQueued
  <2> QED
    BY <1>2, <2>1 DEF RecordInv
<1> QED
  BY <1>3, <1>6, <1>7, <1>8 DEF p, x, QueueInv

\* A receiver is to be told that the radio is off.
LEMMA RadioAppended ==
    ASSUME NEW q \in Seq(Messages), NEW s, NEW r, QueueInv(q, s, r), NEW k \in Instances
    PROVE  /\ Append(q, Message("radio off", k)) \in Seq(Messages)
           /\ QueueInv(Append(q, Message("radio off", k)), s, r)
<1> DEFINE x == Message("radio off", k)
           p == Append(q, x)
<1>1. x \in Messages
  BY MessageIs, Zenon
<1>2. RecordInv(q, s, r) /\ TurnsInv(q, s) /\ ReachInv(q, s)
  BY DEF QueueInv
<1>3. p \in Seq(Messages) /\ Extends(p, q, x)
  BY <1>1, AppendExtends, Zenon
<1>4. \A i : x # Message("create", i) /\ x # Message("destroy", i) /\ x # Message("start", i)
  BY MessagesDiffer, Zenon
<1> HIDE DEF x, p
<1>6. TurnsInv(p, s)
  BY <1>2, <1>3, <1>4, ExtendsTurns
<1>7. ReachInv(p, s)
  BY <1>2, <1>3, <1>4, ExtendsReach
<1>8. RecordInv(p, s, r)
  <2>1. \A i : /\ Queued(p, "create", i) <=> Queued(q, "create", i)
               /\ Queued(p, "destroy", i) <=> Queued(q, "destroy", i)
    BY <1>3, <1>4, ExtendsQueued
  <2> QED
    BY <1>2, <2>1 DEF RecordInv
<1> QED
  BY <1>3, <1>6, <1>7, <1>8, Zenon DEF p, x, QueueInv

\* The system makes an instance that it has not made before.
LEMMA CreateAppended ==
    ASSUME NEW q \in Seq(Messages), NEW s, QueueInv(q, s, 0), NEW k \in Instances,
           s[k] = "none", \A n \in 1..Len(q) : q[n].instance # k
    PROVE  /\ Append(q, Message("create", k)) \in Seq(Messages)
           /\ QueueInv(Append(q, Message("create", k)), s, k)
<1> DEFINE x == Message("create", k)
           p == Append(q, x)
<1>1. x \in Messages
  BY MessageIs, Zenon
<1>2. RecordInv(q, s, 0) /\ TurnsInv(q, s) /\ ReachInv(q, s) /\ 0 \notin Instances
  BY MeshAssumption DEF QueueInv
<1>3. p \in Seq(Messages) /\ Extends(p, q, x)
  BY <1>1, AppendExtends
<1>4. /\ \A i : x # Message("start", i) /\ x # Message("destroy", i)
      /\ \A i : x = Message("create", i) => i = k
  BY MessagesDiffer, MessageIs, Zenon
<1>5. ~Queued(q, "create", k) /\ ~Queued(q, "start", k) /\ ~Queued(q, "destroy", k)
  BY DEF Queued, Message
<1>6. x = Message("create", k)
  OBVIOUS
<1> HIDE DEF x, p
<1>7. TurnsInv(p, s)
  <2>1. \A n \in 1..Len(p) : (n \in 1..Len(q) /\ p[n] = q[n]) \/ (n = Len(q) + 1 /\ p[n] = x)
    BY <1>3 DEF Extends
  <2>2. ASSUME NEW i \in Instances, NEW j \in Instances, NEW n \in 1..Len(p),
               p[n] = Message("create", i), LiveIn(s, j)
        PROVE  Before(p, n, Message("destroy", j))
    <3>1. PICK m \in 1..Len(q) : m < n /\ q[m] = Message("destroy", j)
      <4>1. CASE n \in 1..Len(q) /\ p[n] = q[n]
        <5>1. Before(q, n, Message("destroy", j))
          BY <1>2, <2>2, <4>1 DEF TurnsInv
        <5> QED
          BY <1>3, <4>1, <5>1 DEF Before, Extends
      <4>2. CASE n = Len(q) + 1
        <5>1. Queued(q, "destroy", j)
          BY <1>2, <2>2 DEF RecordInv
        <5> QED
          BY <1>3, <4>2, <5>1 DEF Queued, Extends
      <4> QED
        BY <2>1, <4>1, <4>2
    <3>2. m \in 1..(n - 1) /\ p[m] = Message("destroy", j)
      BY <1>3, <3>1 DEF Extends
    <3> QED
      BY <3>2 DEF Before
  <2>3. ASSUME NEW i \in Instances, NEW j \in Instances, NEW m \in 1..Len(p), NEW n \in 1..Len(p),
               m < n, p[m] = Message("create", i), p[n] = Message("create", j)
        PROVE  Between(p, m, n, Message("destroy", i))
    <3>1. m \in 1..Len(q) /\ q[m] = Message("create", i)
      BY <1>3, <2>1, <2>3 DEF Extends
    <3>2. PICK l \in 1..Len(q) : m < l /\ l < n /\ q[l] = Message("destroy", i)
      <4>1. CASE n \in 1..Len(q) /\ p[n] = q[n]
        <5>1. Between(q, m, n, Message("destroy", i))
          BY <1>2, <2>3, <3>1, <4>1, ZenonT(40) DEF TurnsInv
        <5> QED
          BY <1>3, <3>1, <4>1, <5>1 DEF Between, Extends
      <4>2. CASE n = Len(q) + 1
        <5>1. Queued(q, "create", i)
          BY <3>1 DEF Queued
        <5>2. Queued(q, "destroy", i)
          BY <1>2, <5>1 DEF RecordInv
        <5>3. PICK l \in 1..Len(q) : q[l] = Message("destroy", i)
          BY <5>2 DEF Queued
        <5>4. m <= l
          BY <1>2, <3>1, <5>3 DEF ReachInv
        <5>5. m # l
          BY <3>1, <5>3, MessagesDiffer, Zenon
        <5> QED
          BY <1>3, <3>1, <4>2, <5>3, <5>4, <5>5 DEF Extends
      <4> QED
        BY <2>1, <4>1, <4>2
    <3>3. l \in (m + 1)..(n - 1) /\ p[l] = Message("destroy", i)
      BY <1>3, <3>1, <3>2 DEF Extends
    <3> QED
      BY <3>3 DEF Between
  <2> QED
    BY <2>2, <2>3 DEF TurnsInv
<1>8. ReachInv(p, s)
  BY <1>2, <1>3, <1>4, <1>5, ExtendsReach
<1>9. RecordInv(p, s, k)
  <2>1. \A i : /\ Queued(p, "create", i) <=> Queued(q, "create", i) \/ i = k
               /\ Queued(p, "destroy", i) <=> Queued(q, "destroy", i)
    BY <1>3, <1>4, <1>6, ExtendsQueued
  <2> QED
    BY <1>2, <1>5, <2>1 DEF RecordInv
<1> QED
  BY <1>3, <1>7, <1>8, <1>9 DEF p, x, QueueInv

(* The head of the queue is taken; the phases go from s to t. *)

LEMMA ShortensTurns ==
    ASSUME NEW p, NEW q, NEW s, NEW t, Shortens(p, q), TurnsInv(q, s),
           \A j \in Instances : LiveIn(t, j) => /\ q[1] # Message("destroy", j)
                                                /\ LiveIn(s, j) \/ q[1] = Message("create", j)
    PROVE  TurnsInv(p, t)
<1>1. \A n \in 1..Len(p) : n + 1 \in 1..Len(q) /\ p[n] = q[n + 1]
  BY DEF Shortens
<1>2. ASSUME NEW i \in Instances, NEW j \in Instances, NEW n \in 1..Len(p),
             p[n] = Message("create", i), LiveIn(t, j)
      PROVE  Before(p, n, Message("destroy", j))
  <2>1. n + 1 \in 1..Len(q) /\ q[n + 1] = Message("create", i) /\ 1 \in 1..Len(q)
    BY <1>1, <1>2 DEF Shortens
  <2>2. PICK m \in 2..n : q[m] = Message("destroy", j)
    <3>1. CASE LiveIn(s, j)
      <4>1. Before(q, n + 1, Message("destroy", j))
        BY <2>1, <3>1 DEF TurnsInv
      <4>2. PICK m \in 1..(n + 1 - 1) : q[m] = Message("destroy", j)
        BY <4>1 DEF Before
      <4>3. m # 1
        BY <1>2, <4>2
      <4> QED
        BY <4>2, <4>3
    <3>2. CASE q[1] = Message("create", j)
      <4>1. Between(q, 1, n + 1, Message("destroy", j))
        BY <2>1, <3>2 DEF TurnsInv
      <4> QED
        BY <4>1 DEF Between
    <3> QED
      BY <1>2, <3>1, <3>2
  <2>3. m - 1 \in 1..(n - 1) /\ m - 1 \in 1..Len(p) /\ m - 1 + 1 = m
    BY <2>1, <2>2 DEF Shortens
  <2>4. p[m - 1] = Message("destroy", j)
    BY <1>1, <2>2, <2>3, ZenonT(40)
  <2> QED
    BY <2>3, <2>4 DEF Before
<1>3. ASSUME NEW i \in Instances, NEW j \in Instances, NEW m \in 1..Len(p), NEW n \in 1..Len(p),
             m < n, p[m] = Message("create", i), p[n] = Message("create", j)
      PROVE  Between(p, m, n, Message("destroy", i))
  <2>1. /\ n + 1 \in 1..Len(q) /\ q[n + 1] = Message("create", j)
        /\ m + 1 \in 1..Len(q) /\ q[m + 1] = Message("create", i) /\ m + 1 < n + 1
    BY <1>1, <1>3
  <2>2. Between(q, m + 1, n + 1, Message("destroy", i))
    BY <2>1 DEF TurnsInv
  <2>3. PICK k \in (m + 1 + 1)..(n + 1 - 1) : q[k] = Message("destroy", i)
    BY <2>2 DEF Between
  <2>4. k - 1 \in (m + 1)..(n - 1) /\ k - 1 \in 1..Len(p) /\ k - 1 + 1 = k
    BY <2>1, <2>3 DEF Shortens
  <2>5. p[k - 1] = Message("destroy", i)
    BY <1>1, <2>3, <2>4, ZenonT(40)
  <2> QED
    BY <2>4, <2>5 DEF Between
<1> QED
  BY <1>2, <1>3, ZenonT(40) DEF TurnsInv

LEMMA ShortensReach ==
    ASSUME NEW p, NEW q, NEW s, NEW t, Shortens(p, q), ReachInv(q, s),
           \A i \in Instances : /\ q[1] = Message("create", i) => LiveIn(t, i)
                                /\ LiveIn(s, i) => LiveIn(t, i) \/ q[1] = Message("destroy", i)
    PROVE  ReachInv(p, t)
<1>1. \A n \in 1..Len(p) : n + 1 \in 1..Len(q) /\ p[n] = q[n + 1]
  BY DEF Shortens
<1>2. ASSUME NEW i \in Instances, NEW n \in 1..Len(p),
             p[n] \in {Message("start", i), Message("destroy", i)}, ~LiveIn(t, i)
      PROVE  Before(p, n, Message("create", i))
  <2>1. n + 1 \in 1..Len(q) /\ 1 \in 1..Len(q) /\ q[n + 1] \in {Message("start", i), Message("destroy", i)}
    BY <1>1, <1>2 DEF Shortens
  <2>2. ~LiveIn(s, i)
    <3>1. ASSUME LiveIn(s, i) PROVE FALSE
      <4>1. q[1] = Message("destroy", i)
        BY <1>2, <3>1
      <4>2. n + 1 <= 1
        BY <2>1, <4>1 DEF ReachInv
      <4> QED
        BY <4>2
    <3> QED
      BY <3>1
  <2>3. Before(q, n + 1, Message("create", i))
    BY <2>1, <2>2 DEF ReachInv
  <2>4. PICK m \in 1..(n + 1 - 1) : q[m] = Message("create", i)
    BY <2>3 DEF Before
  <2>5. m # 1
    BY <1>2, <2>4
  <2>6. m - 1 \in 1..(n - 1) /\ m - 1 \in 1..Len(p) /\ m - 1 + 1 = m
    BY <2>1, <2>4, <2>5 DEF Shortens
  <2>7. p[m - 1] = Message("create", i)
    BY <1>1, <2>4, <2>6, ZenonT(40)
  <2> QED
    BY <2>6, <2>7 DEF Before
<1>3. ASSUME NEW i \in Instances, NEW m \in 1..Len(p), NEW n \in 1..Len(p),
             p[m] = Message("destroy", i),
             p[n] \in {Message("create", i), Message("start", i), Message("destroy", i)}
      PROVE  n <= m
  <2>1. /\ n + 1 \in 1..Len(q) /\ m + 1 \in 1..Len(q) /\ q[m + 1] = Message("destroy", i)
        /\ q[n + 1] \in {Message("create", i), Message("start", i), Message("destroy", i)}
    BY <1>1, <1>3, ZenonT(40)
  <2>2. n + 1 <= m + 1
    BY <2>1 DEF ReachInv
  <2> QED
    BY <2>2
<1> QED
  BY <1>2, <1>3 DEF ReachInv

LEMMA ShortensRecord ==
    ASSUME NEW p, NEW q, NEW s, NEW r, Shortens(p, q), RecordInv(q, s, r),
           \A i : q[1] # Message("create", i) /\ q[1] # Message("destroy", i)
    PROVE  RecordInv(p, s, r)
<1>1. \A i : Queued(p, "create", i) <=> Queued(q, "create", i)
  BY ShortensQueued
<1>2. \A i : Queued(p, "destroy", i) <=> Queued(q, "destroy", i)
  BY ShortensQueued
<1> QED
  BY <1>1, <1>2 DEF RecordInv

\* A start command or a notice about the radio is taken.
LEMMA OtherTaken ==
    ASSUME NEW q \in Seq(Messages), NEW s, NEW r, QueueInv(q, s, r), q # <<>>,
           NEW k \in Instances, Head(q) \in {Message("start", k), Message("radio off", k)}
    PROVE  Tail(q) \in Seq(Messages) /\ QueueInv(Tail(q), s, r)
<1> DEFINE p == Tail(q)
<1>1. p \in Seq(Messages) /\ Shortens(p, q) /\ q[1] = Head(q)
  BY TailShortens, Zenon
<1>2. RecordInv(q, s, r) /\ TurnsInv(q, s) /\ ReachInv(q, s)
  BY Zenon DEF QueueInv
<1>3. \A i : q[1] # Message("create", i) /\ q[1] # Message("destroy", i)
  BY <1>1, MessagesDiffer, Zenon
<1> HIDE DEF p
<1>4. TurnsInv(p, s)
  BY <1>1, <1>2, <1>3, ShortensTurns, Zenon
<1>5. ReachInv(p, s)
  BY <1>1, <1>2, <1>3, ShortensReach, Zenon
<1>6. RecordInv(p, s, r)
  BY <1>1, <1>2, <1>3, ShortensRecord, Zenon
<1> QED
  BY <1>1, <1>4, <1>5, <1>6, Zenon DEF p, QueueInv

\* An instance is made: none is live.
LEMMA CreateTaken ==
    ASSUME NEW q \in Seq(Messages), NEW s, NEW r \in Instances \cup {0}, QueueInv(q, s, r), q # <<>>,
           NEW k \in Instances, Head(q) = Message("create", k),
           NEW t, LiveIn(t, k), \A i \in Instances \ {k} : t[i] = s[i]
    PROVE  /\ Tail(q) \in Seq(Messages) /\ QueueInv(Tail(q), t, r)
           /\ s[k] = "none" /\ \A i \in Instances : ~LiveIn(s, i)
<1> DEFINE p == Tail(q)
<1>1. p \in Seq(Messages) /\ Shortens(p, q) /\ q[1] = Message("create", k)
  BY TailShortens
<1>2. RecordInv(q, s, r) /\ TurnsInv(q, s) /\ ReachInv(q, s)
  BY DEF QueueInv
<1>3. \A i : q[1] # Message("destroy", i) /\ (q[1] = Message("create", i) => i = k)
  <2>1. \A i : q[1] # Message("destroy", i)
    BY <1>1, MessagesDiffer, Zenon
  <2>2. \A i : q[1] = Message("create", i) => i = k
    BY <1>1, SameMessage
  <2> QED
    BY <2>1, <2>2, Zenon
<1> HIDE DEF p
<1>4. 1 \in 1..Len(q) /\ Queued(q, "create", k)
  BY <1>1 DEF Shortens, Queued
<1>5. s[k] = "none" /\ ~LiveIn(s, k)
  BY <1>2, <1>4 DEF RecordInv, LiveIn
<1>6. ASSUME NEW i \in Instances, LiveIn(s, i) PROVE FALSE
  <2>1. Before(q, 1, Message("destroy", i))
    BY <1>1, <1>2, <1>4, <1>6 DEF TurnsInv
  <2> QED
    BY <2>1 DEF Before
<1>7. \A i \in Instances : LiveIn(t, i) => i = k
  BY <1>6 DEF LiveIn
<1>8. TurnsInv(p, t)
  BY <1>1, <1>2, <1>3, <1>7, ShortensTurns
<1>9. ReachInv(p, t)
  BY <1>1, <1>2, <1>3, <1>6, ShortensReach
<1>10. ~Queued(p, "create", k)
  <2>1. SUFFICES ASSUME NEW n \in 1..Len(p), p[n] = Message("create", k) PROVE FALSE
    BY DEF Queued
  <2>2. n + 1 \in 1..Len(q) /\ q[n + 1] = Message("create", k) /\ 1 < n + 1
    BY <1>1, <2>1 DEF Shortens
  <2>3. Between(q, 1, n + 1, Message("destroy", k))
    BY <1>1, <1>2, <1>4, <2>2, ZenonT(40) DEF TurnsInv
  <2>4. PICK l \in 2..n : q[l] = Message("destroy", k)
    BY <2>2, <2>3 DEF Between
  <2>5. l \in 1..Len(q)
    BY <2>2, <2>4
  <2>6. n + 1 <= l
    BY <1>2, <2>2, <2>4, <2>5, ZenonT(40) DEF ReachInv
  <2> QED
    BY <2>4, <2>6
<1>11. RecordInv(p, t, r)
  <2>1. \A i : /\ Queued(q, "create", i) <=> Queued(p, "create", i) \/ i = k
               /\ Queued(p, "destroy", i) <=> Queued(q, "destroy", i)
    <3>1. SUFFICES ASSUME NEW i
                   PROVE  /\ Queued(q, "create", i) <=> Queued(p, "create", i) \/ i = k
                          /\ Queued(p, "destroy", i) <=> Queued(q, "destroy", i)
      BY Zenon
    <3>2. Queued(q, "create", i) <=> Queued(p, "create", i) \/ q[1] = Message("create", i)
      BY <1>1, ShortensQueued
    <3>3. Queued(q, "destroy", i) <=> Queued(p, "destroy", i) \/ q[1] = Message("destroy", i)
      BY <1>1, ShortensQueued
    <3> QED
      BY <1>1, <1>3, <3>2, <3>3
  <2>2. \A i \in Instances : Queued(p, "create", i) => t[i] = "none"
    BY <1>2, <1>10, <2>1 DEF RecordInv
  <2>3. \A i \in Instances :
          i # r /\ (LiveIn(t, i) \/ Queued(p, "create", i)) => Queued(p, "destroy", i)
    BY <1>2, <1>7, <2>1 DEF RecordInv
  <2>4. r # 0 => (LiveIn(t, r) \/ Queued(p, "create", r)) /\ ~Queued(p, "destroy", r)
    <3>1. ASSUME r # 0, ~Queued(p, "create", r) PROVE LiveIn(t, r)
      <4>1. r = k \/ LiveIn(s, r)
        BY <1>2, <2>1, <3>1 DEF RecordInv
      <4>2. CASE r = k
        BY <4>2
      <4>3. CASE LiveIn(s, r) /\ r # k
        BY <1>6, <3>1, <4>3
      <4> QED
        BY <4>1, <4>2, <4>3
    <3> QED
      BY <1>2, <2>1, <3>1 DEF RecordInv
  <2> QED
    BY <2>2, <2>3, <2>4 DEF RecordInv
<1> QED
  BY <1>1, <1>5, <1>6, <1>8, <1>9, <1>11, ZenonT(40) DEF p, QueueInv

\* A live instance is destroyed.
LEMMA DestroyTaken ==
    ASSUME NEW q \in Seq(Messages), NEW s, NEW r \in Instances \cup {0}, QueueInv(q, s, r), q # <<>>,
           NEW k \in Instances, Head(q) = Message("destroy", k),
           NEW t, ~LiveIn(t, k), \A i \in Instances \ {k} : t[i] = s[i]
    PROVE  /\ Tail(q) \in Seq(Messages) /\ QueueInv(Tail(q), t, r)
           /\ LiveIn(s, k) /\ r # k
<1> DEFINE p == Tail(q)
<1>1. p \in Seq(Messages) /\ Shortens(p, q) /\ q[1] = Message("destroy", k)
  BY TailShortens
<1>2. RecordInv(q, s, r) /\ TurnsInv(q, s) /\ ReachInv(q, s) /\ 0 \notin Instances
  BY MeshAssumption DEF QueueInv
<1>3. \A i : q[1] # Message("create", i) /\ (q[1] = Message("destroy", i) => i = k)
  <2>1. \A i : q[1] # Message("create", i)
    BY <1>1, MessagesDiffer, Zenon
  <2>2. \A i : q[1] = Message("destroy", i) => i = k
    BY <1>1, SameMessage
  <2> QED
    BY <2>1, <2>2, Zenon
<1> HIDE DEF p
<1>4. 1 \in 1..Len(q) /\ Queued(q, "destroy", k)
  BY <1>1 DEF Shortens, Queued
<1>5. LiveIn(s, k)
  <2>1. ~Before(q, 1, Message("create", k))
    BY DEF Before
  <2> QED
    BY <1>1, <1>2, <1>4, <2>1, ZenonT(40) DEF ReachInv
<1>6. r # k
  BY <1>2, <1>4 DEF RecordInv
<1>7. \A i \in Instances \ {k} : LiveIn(t, i) <=> LiveIn(s, i)
  BY Zenon DEF LiveIn
<1>8. TurnsInv(p, t)
  BY <1>1, <1>2, <1>3, <1>7, ShortensTurns
<1>9. ReachInv(p, t)
  BY <1>1, <1>2, <1>3, <1>7, ShortensReach
<1>10. ~Queued(p, "create", k)
  <2>1. SUFFICES ASSUME NEW n \in 1..Len(p), p[n] = Message("create", k) PROVE FALSE
    BY DEF Queued
  <2>2. n + 1 \in 1..Len(q) /\ q[n + 1] = Message("create", k)
    BY <1>1, <2>1 DEF Shortens
  <2>3. n + 1 <= 1
    BY <1>1, <1>2, <1>4, <2>2, ZenonT(40) DEF ReachInv
  <2> QED
    BY <2>3
<1>11. RecordInv(p, t, r)
  <2>1. \A i : /\ Queued(q, "create", i) <=> Queued(p, "create", i)
               /\ i # k => (Queued(p, "destroy", i) <=> Queued(q, "destroy", i))
    <3>1. SUFFICES ASSUME NEW i
                   PROVE  /\ Queued(q, "create", i) <=> Queued(p, "create", i)
                          /\ i # k => (Queued(p, "destroy", i) <=> Queued(q, "destroy", i))
      BY Zenon
    <3>2. Queued(q, "create", i) <=> Queued(p, "create", i) \/ q[1] = Message("create", i)
      BY <1>1, ShortensQueued
    <3>3. Queued(q, "destroy", i) <=> Queued(p, "destroy", i) \/ q[1] = Message("destroy", i)
      BY <1>1, ShortensQueued
    <3> QED
      BY <1>1, <1>3, <3>2, <3>3
  <2>2. \A i \in Instances : Queued(p, "create", i) => t[i] = "none"
    BY <1>2, <1>10, <2>1, ZenonT(40) DEF RecordInv
  <2>3. \A i \in Instances :
          i # r /\ (LiveIn(t, i) \/ Queued(p, "create", i)) => Queued(p, "destroy", i)
    BY <1>2, <1>7, <1>10, <2>1, ZenonT(40) DEF RecordInv
  <2>4. r # 0 => (LiveIn(t, r) \/ Queued(p, "create", r)) /\ ~Queued(p, "destroy", r)
    BY <1>2, <1>6, <1>7, <2>1, ZenonT(40) DEF RecordInv
  <2> QED
    BY <2>2, <2>3, <2>4, ZenonT(40) DEF RecordInv
<1> QED
  BY <1>1, <1>5, <1>6, <1>8, <1>9, <1>11, ZenonT(40) DEF p, QueueInv

\* An instance goes on from one phase to the next.
LEMMA PhaseChanges ==
    ASSUME NEW q, NEW s, NEW r \in Instances \cup {0}, QueueInv(q, s, r), NEW t,
           \A i \in Instances : t[i] = s[i] \/ (LiveIn(s, i) /\ LiveIn(t, i))
    PROVE  QueueInv(q, t, r)
<1>1. \A i \in Instances : /\ LiveIn(t, i) <=> LiveIn(s, i)
                           /\ s[i] = "none" => t[i] = "none"
  BY Zenon DEF LiveIn
<1>2. RecordInv(q, t, r)
  BY <1>1, Zenon DEF QueueInv, RecordInv
<1>3. TurnsInv(q, t)
  BY <1>1, Zenon DEF QueueInv, TurnsInv
<1>4. ReachInv(q, t)
  BY <1>1 DEF QueueInv, ReachInv
<1> QED
  BY <1>2, <1>3, <1>4 DEF QueueInv

LEMMA NothingQueued ==
    ASSUME NEW s, \A i \in Instances : ~LiveIn(s, i)
    PROVE  <<>> \in Seq(Messages) /\ QueueInv(<<>>, s, 0)
<1>1. <<>> \in Seq(Messages) /\ Len(<<>>) = 0 /\ 1..Len(<<>>) = {}
  OBVIOUS
<1>2. \A w, i : ~Queued(<<>>, w, i)
  BY <1>1, Zenon DEF Queued
<1>3. RecordInv(<<>>, s, 0)
  BY <1>2 DEF RecordInv
<1>4. TurnsInv(<<>>, s)
  BY <1>1 DEF TurnsInv
<1>5. ReachInv(<<>>, s)
  BY <1>1 DEF ReachInv
<1> QED
  BY <1>1, <1>3, <1>4, <1>5, ZenonT(40) DEF QueueInv

\* An instance is to be made and started.
LEMMA CreationAppended ==
    ASSUME NEW q \in Seq(Messages), NEW s, QueueInv(q, s, 0), NEW k \in Instances,
           s[k] = "none", \A n \in 1..Len(q) : q[n].instance # k
    PROVE  q \o Creation(k) \in Seq(Messages) /\ QueueInv(q \o Creation(k), s, k)
<1> DEFINE p == Append(q, Message("create", k))
<1>1. p \in Seq(Messages) /\ QueueInv(p, s, k)
  BY CreateAppended, Zenon
<1>2. Append(p, Message("start", k)) \in Seq(Messages) /\ QueueInv(Append(p, Message("start", k)), s, k)
  <2> HIDE DEF p
  <2> QED
    BY <1>1, StartAppended
<1>3. q \o Creation(k) = Append(p, Message("start", k))
  <2>1. Message("create", k) \in Messages /\ Message("start", k) \in Messages
    BY MessageIs, Zenon
  <2> QED
    BY <2>1 DEF Creation
<1> QED
  BY <1>2, <1>3, Zenon

-----------------------------------------------------------------------------
(* The instances, the record and the queue. *)

Core ==
    /\ service \in [Instances -> Phases]
    /\ record \in Instances \cup {0}
    /\ todo \in Seq(Messages)
    /\ \A i, j \in Instances : Alive(i) /\ Alive(j) => i = j
    /\ QueueInv(todo, service, record)

LEMMA NewInstanceIs ==
    ASSUME todo \in Seq(Messages), CanMake
    PROVE  /\ NewInstance \in Instances /\ NewInstance \notin Made
           /\ service[NewInstance] = "none"
           /\ \A n \in 1..Len(todo) : todo[n].instance # NewInstance
<1> DEFINE S == Instances \ Made
<1>1. S \in SUBSET Nat /\ S # {}
  BY MeshAssumption, Zenon DEF CanMake
<1>2. \E m \in S : \A n \in S : m <= n
  BY <1>1, Least, Zenon
<1>3. NewInstance = CHOOSE m \in S : \A n \in S : m =< n
  BY DEF NewInstance, Min
<1>4. NewInstance \in S
  BY <1>2, <1>3
<1>5. \A n \in 1..Len(todo) : todo[n].instance \in Made
  BY DEF Made, Range
<1> QED
  BY <1>4, <1>5 DEF Made

\* stopSelf and stopService, with the messages q left.
LEMMA StoppedKeeps ==
    ASSUME NEW q \in Seq(Messages), QueueInv(q, service, record), record \in Instances \cup {0},
           NEW i \in Instances, Stopped(i, q)
    PROVE  /\ todo' \in Seq(Messages) /\ record' \in {record, 0} /\ record' # i
           /\ QueueInv(todo', service, record')
           /\ \A j : Queued(todo', "radio off", j) <=> Queued(q, "radio off", j)
<1>0. 0 \notin Instances
  BY MeshAssumption
<1>1. CASE record = i
  <2>1. record' = 0 /\ todo' = Append(q, Message("destroy", i))
    BY <1>1 DEF Stopped
  <2>2. todo' \in Seq(Messages) /\ QueueInv(todo', service, 0)
    BY <1>1, <2>1, StopAppended
  <2>3. Extends(todo', q, Message("destroy", i))
    BY <2>1, AppendExtends, MessageIs, Zenon
  <2>4. \A j : Queued(todo', "radio off", j) <=> Queued(q, "radio off", j)
    <3>1. ASSUME NEW j PROVE Queued(todo', "radio off", j) <=> Queued(q, "radio off", j)
      <4>1. Queued(todo', "radio off", j)
            <=> Queued(q, "radio off", j) \/ Message("destroy", i) = Message("radio off", j)
        BY <2>3, ExtendsQueued, ZenonT(40)
      <4> QED
        BY <4>1, MessagesDiffer, Zenon
    <3> QED
      BY <3>1, Zenon
  <2> QED
    BY <1>0, <2>1, <2>2, <2>4, Zenon
<1>2. CASE record # i
  BY <1>2 DEF Stopped
<1> QED
  BY <1>1, <1>2, Zenon

\* What a message that is next tells of the queue.
LEMMA NextMessageIs ==
    ASSUME Core, NEW w, NEW i, NextMessage(w, i)
    PROVE  todo \in Seq(Messages) /\ todo # <<>> /\ Head(todo) = Message(w, i)
  BY DEF Core, NextMessage

\* A step that only moves live instances from phase to phase.
LEMMA CorePhase ==
    ASSUME Core, service' \in [Instances -> Phases], UNCHANGED <<record, todo>>,
           \A i \in Instances : service'[i] = service[i] \/ (LiveIn(service, i) /\ LiveIn(service', i))
    PROVE  Core'
<1>1. QueueInv(todo, service', record)
  BY PhaseChanges DEF Core
<1>2. \A i \in Instances : Alive(i)' => Alive(i)
  BY DEF Alive, LiveIn
<1> QED
  BY <1>1, <1>2 DEF Core

\* A step that only stops an instance.
LEMMA CoreStopped ==
    ASSUME Core, NEW q \in Seq(Messages), QueueInv(q, service, record),
           NEW i \in Instances, Stopped(i, q), UNCHANGED service
    PROVE  Core'
<1>1. /\ todo' \in Seq(Messages) /\ record' \in {record, 0}
      /\ QueueInv(todo', service, record')
  BY StoppedKeeps, Zenon DEF Core
<1>2. \A i1 \in Instances : Alive(i1)' <=> Alive(i1)
  BY DEF Alive
<1> QED
  BY <1>1, <1>2 DEF Core

LEMMA CoreUserStarts ==
    ASSUME Core, UserStarts
    PROVE  Core'
<1>1. CASE record = 0
  <2>1. CanMake /\ record' = NewInstance /\ todo' = todo \o Creation(NewInstance) /\ service' = service
    BY <1>1 DEF UserStarts
  <2>2. /\ NewInstance \in Instances /\ service[NewInstance] = "none"
        /\ \A n \in 1..Len(todo) : todo[n].instance # NewInstance
    BY <2>1, NewInstanceIs, Zenon DEF Core
  <2>3. QueueInv(todo, service, 0) /\ todo \in Seq(Messages)
    BY <1>1 DEF Core
  <2>4. todo' \in Seq(Messages) /\ QueueInv(todo', service, record')
    BY <2>1, <2>2, <2>3, CreationAppended
  <2> QED
    BY <2>1, <2>2, <2>4, ZenonT(40) DEF Core, Alive
<1>2. CASE record # 0
  <2>1. todo' = Append(todo, Message("start", record)) /\ record' = record /\ service' = service
    BY <1>2 DEF UserStarts
  <2>2. record \in Instances /\ todo \in Seq(Messages) /\ QueueInv(todo, service, record)
    BY <1>2 DEF Core
  <2>3. todo' \in Seq(Messages) /\ QueueInv(todo', service, record')
    BY <2>1, <2>2, StartAppended, ZenonT(40)
  <2> QED
    BY <2>1, <2>3 DEF Core, Alive
<1> QED
  BY <1>1, <1>2

LEMMA CoreUserStops ==
    ASSUME Core, UserStops
    PROVE  Core'
<1>1. /\ record \in Instances /\ Stopped(record, todo) /\ UNCHANGED service
      /\ todo \in Seq(Messages) /\ QueueInv(todo, service, record)
  BY DEF UserStops, Core
<1> QED
  BY <1>1, CoreStopped

LEMMA CoreProcessKilled ==
    ASSUME Core, ProcessKilled
    PROVE  Core'
<1>1. service' = [i \in Instances |-> IF i \in Made THEN "gone" ELSE "none"]
  BY DEF ProcessKilled
<1>2. service' \in [Instances -> Phases] /\ \A i \in Instances : ~LiveIn(service', i)
  BY <1>1 DEF Phases, LiveIn
<1>3. <<>> \in Seq(Messages) /\ QueueInv(<<>>, service', 0)
  BY <1>2, NothingQueued
<1>4. CASE record = 0
  <2>1. record' = 0 /\ todo' = <<>>
    BY <1>4 DEF ProcessKilled
  <2> QED
    BY <1>2, <1>3, <2>1 DEF Core, Alive, LiveIn
<1>5. CASE record # 0
  <2>1. CanMake /\ record' = NewInstance /\ todo' = Creation(NewInstance)
    BY <1>5, Zenon DEF ProcessKilled
  <2>2. NewInstance \in Instances /\ NewInstance \notin Made
    BY <2>1, NewInstanceIs DEF Core
  <2>3. service'[NewInstance] = "none"
    BY <1>1, <2>2
  <2>4. \A n \in 1..Len(<<>>) : <<>>[n].instance # NewInstance
    OBVIOUS
  <2>5. /\ <<>> \o Creation(NewInstance) \in Seq(Messages)
        /\ QueueInv(<<>> \o Creation(NewInstance), service', NewInstance)
    BY <1>3, <2>2, <2>3, <2>4, CreationAppended, Zenon
  <2>6. <<>> \o Creation(NewInstance) = Creation(NewInstance)
    <3>1. Creation(NewInstance) \in Seq(Messages)
      <4>1. /\ Message("create", NewInstance) \in Messages
            /\ Message("start", NewInstance) \in Messages
        BY <2>2, MessageIs, Zenon
      <4> QED
        BY <4>1 DEF Creation
    <3> QED
      BY <3>1
  <2> QED
    BY <1>2, <2>1, <2>2, <2>5, <2>6, ZenonT(40) DEF Core, Alive, LiveIn
<1> QED
  BY <1>4, <1>5

LEMMA OneLong ==
    ASSUME NEW m, NEW q \in [1..1 -> {m}]
    PROVE  q = <<m>>
<1>1. q = [n \in 1..1 |-> m]
  OBVIOUS
<1>2. <<m>> = [n \in 1..1 |-> m]
  OBVIOUS
<1> QED
  BY <1>1, <1>2

LEMMA ConcatNone ==
    ASSUME NEW S, NEW q \in Seq(S)
    PROVE  q \o <<>> = q
  OBVIOUS

LEMMA ConcatOne ==
    ASSUME NEW S, NEW q \in Seq(S), NEW x \in S
    PROVE  q \o <<x>> = Append(q, x)
  OBVIOUS

\* At most one receiver is told that the radio is off.
LEMMA RadioOffTells ==
    ASSUME Core, RadioOff
    PROVE  \/ (\A i \in Instances : ~Alive(i)) /\ todo' = todo
           \/ \E k \in Instances : /\ Alive(k) /\ \A i \in Instances : Alive(i) => i = k
                                   /\ todo' = Append(todo, Message("radio off", k))
<1>1. PICK q \in [1..Cardinality(Receivers) -> {Message("radio off", i) : i \in Receivers}] :
        todo' = todo \o q
  BY Zenon DEF RadioOff
<1>2. CASE Receivers = {}
  <2>1. Cardinality(Receivers) = 0
    BY <1>2, FS_EmptySet
  <2>2. q = <<>>
    BY <1>1, <2>1
  <2> QED
    <3>1. todo \in Seq(Messages)
      BY Zenon DEF Core
    <3>2. todo' = todo
      BY <1>1, <2>2, <3>1, ConcatNone, Zenon
    <3> QED
      BY <1>2, <3>2, Zenon DEF Receivers
<1>3. CASE Receivers # {}
  <2>1. PICK k \in Instances : k \in Receivers
    BY <1>3, Zenon DEF Receivers
  <2>2. Alive(k) /\ \A i \in Instances : Alive(i) => i = k
    BY <2>1, Zenon DEF Receivers, Core
  <2>3. Receivers = {k}
    BY <2>1, <2>2, Zenon DEF Receivers
  <2>4. Cardinality(Receivers) = 1
    BY <2>3, FS_Singleton, Zenon
  <2>5. q = <<Message("radio off", k)>>
    <3>1. q \in [1..1 -> {Message("radio off", k)}]
      BY <1>1, <2>3, <2>4, Zenon
    <3> QED
      BY <3>1, OneLong, Zenon
  <2>6. todo' = Append(todo, Message("radio off", k))
    <3>1. todo \in Seq(Messages) /\ Message("radio off", k) \in Messages
      BY MessageIs, Zenon DEF Core
    <3> QED
      BY <1>1, <2>5, <3>1, ConcatOne, Zenon
  <2> QED
    BY <2>2, <2>6, Zenon
<1> QED
  BY <1>2, <1>3, Zenon

LEMMA CoreRadioOff ==
    ASSUME Core, RadioOff
    PROVE  Core'
<1>1. service' = service /\ record' = record
  BY Zenon DEF RadioOff
<1>2. todo' \in Seq(Messages) /\ QueueInv(todo', service, record)
  <2>1. todo \in Seq(Messages) /\ QueueInv(todo, service, record)
    BY DEF Core
  <2>2. todo' = todo \/ \E k \in Instances : todo' = Append(todo, Message("radio off", k))
    BY RadioOffTells, Zenon
  <2> QED
    BY <2>1, <2>2, RadioAppended, Zenon
<1> QED
  BY <1>1, <1>2 DEF Core, Alive

LEMMA CoreOnCreate ==
    ASSUME Core, NEW i \in Instances, OnCreate(i)
    PROVE  /\ Core' /\ service[i] = "none"
           /\ \A j \in Instances : ~Alive(j)
<1>1. todo \in Seq(Messages) /\ todo # <<>> /\ Head(todo) = Message("create", i)
  BY NextMessageIs DEF OnCreate
<1>2. todo' = Tail(todo) /\ service' = [service EXCEPT ![i] = "created"] /\ record' = record
  BY DEF OnCreate, Phase
<1>3. service' \in [Instances -> Phases] /\ LiveIn(service', i) /\ \A j \in Instances \ {i} : service'[j] = service[j]
  BY <1>2 DEF Core, Phases, LiveIn
<1>4. /\ todo' \in Seq(Messages) /\ QueueInv(todo', service', record)
      /\ service[i] = "none" /\ \A j \in Instances : ~LiveIn(service, j)
  BY <1>1, <1>2, <1>3, CreateTaken, Zenon DEF Core
<1>5. \A j \in Instances : Alive(j)' => j = i
  BY <1>3, <1>4, Zenon DEF Alive, LiveIn
<1> QED
  BY <1>2, <1>3, <1>4, <1>5, ZenonT(40) DEF Core, Alive, LiveIn

LEMMA CoreOnDestroy ==
    ASSUME Core, NEW i \in Instances, OnDestroy(i)
    PROVE  Core' /\ Alive(i) /\ record # i
<1>1. todo \in Seq(Messages) /\ todo # <<>> /\ Head(todo) = Message("destroy", i)
  BY NextMessageIs DEF OnDestroy
<1>2. todo' = Tail(todo) /\ service' = [service EXCEPT ![i] = "gone"] /\ record' = record
  BY DEF OnDestroy, Phase
<1>3. service' \in [Instances -> Phases] /\ ~LiveIn(service', i) /\ \A j \in Instances \ {i} : service'[j] = service[j]
  BY <1>2 DEF Core, Phases, LiveIn
<1>4. /\ todo' \in Seq(Messages) /\ QueueInv(todo', service', record)
      /\ LiveIn(service, i) /\ record # i
  <2>1. record \in Instances \cup {0} /\ QueueInv(todo, service, record)
    BY DEF Core
  <2> QED
    <3>1. /\ Tail(todo) \in Seq(Messages) /\ QueueInv(Tail(todo), service', record)
          /\ LiveIn(service, i) /\ record # i
      BY <1>1, <1>3, <2>1, DestroyTaken
    <3> QED
      BY <1>2, <3>1, Zenon
<1>5. \A j \in Instances : Alive(j)' => Alive(j)
  BY <1>3 DEF Alive, LiveIn
<1> QED
  BY <1>2, <1>3, <1>4, <1>5, ZenonT(40) DEF Core, Alive, LiveIn

\* The head is a start command or a notice about the radio.
LEMMA CoreOther ==
    ASSUME Core, NEW i \in Instances, NEW w \in {"start", "radio off"}, NextMessage(w, i)
    PROVE  Tail(todo) \in Seq(Messages) /\ QueueInv(Tail(todo), service, record)
<1>1. todo \in Seq(Messages) /\ todo # <<>> /\ Head(todo) = Message(w, i)
  BY NextMessageIs, Zenon
<1>2. Head(todo) \in {Message("start", i), Message("radio off", i)}
  BY <1>1, Zenon
<1> QED
  BY <1>1, <1>2, OtherTaken, Zenon DEF Core

\* A start command reaches a live instance.
LEMMA StartReaches ==
    ASSUME Core, NEW i \in Instances, NextMessage("start", i)
    PROVE  Alive(i)
<1>1. todo \in Seq(Messages) /\ todo # <<>> /\ Head(todo) = Message("start", i)
  BY NextMessageIs
<1>2. 1 \in 1..Len(todo) /\ todo[1] = Message("start", i)
  BY <1>1
<1>3. ~Before(todo, 1, Message("create", i))
  BY DEF Before
<1> QED
  BY <1>2, <1>3 DEF Core, QueueInv, ReachInv, Alive, LiveIn

LEMMA CoreCallback ==
    ASSUME Core, NEW i \in Instances, Callback(i)
    PROVE  Core'
<1>1. CASE OnCreate(i) \/ OnDestroy(i)
  BY <1>1, CoreOnCreate, CoreOnDestroy, ZenonT(40)
<1>2. CASE OnStartCommand(i)
  <2>1. NextMessage("start", i) /\ todo' = Tail(todo) /\ record' = record
    BY <1>2 DEF OnStartCommand
  <2>2. todo' \in Seq(Messages) /\ QueueInv(todo', service, record)
    BY <2>1, CoreOther, Zenon
  <2>3. /\ service' \in [Instances -> Phases]
        /\ \A j \in Instances : service'[j] = service[j] \/ (LiveIn(service, j) /\ LiveIn(service', j))
    BY <1>2 DEF OnStartCommand, Phase, Phases, Core, LiveIn
  <2>4. record \in Instances \cup {0}
    BY DEF Core
  <2>5. QueueInv(todo', service', record)
    BY <2>2, <2>3, <2>4, PhaseChanges, ZenonT(40)
  <2>6. \A j \in Instances : Alive(j)' => Alive(j)
    BY <2>3 DEF Alive, LiveIn
  <2> QED
    BY <2>1, <2>2, <2>3, <2>5, <2>6, ZenonT(40) DEF Core
<1>3. CASE OnStartRefused(i)
  <2>1. NextMessage("start", i) /\ Stopped(i, Tail(todo)) /\ UNCHANGED service
    BY <1>3 DEF OnStartRefused, Fail
  <2> QED
    BY <2>1, CoreOther, CoreStopped, Zenon
<1>4. CASE OnRadioOff(i)
  <2>1. NextMessage("radio off", i) /\ UNCHANGED service
    BY <1>4, Zenon DEF OnRadioOff
  <2>2. Tail(todo) \in Seq(Messages) /\ QueueInv(Tail(todo), service, record)
    BY <2>1, CoreOther, Zenon
  <2>3. CASE Stopped(i, Tail(todo))
    BY <2>1, <2>2, <2>3, CoreStopped, Zenon
  <2>4. CASE todo' = Tail(todo) /\ record' = record
    BY <2>1, <2>2, <2>4, Zenon DEF Core, Alive
  <2> QED
    BY <1>4, <2>3, <2>4, Zenon DEF OnRadioOff, Fail
<1> QED
  BY <1>1, <1>2, <1>3, <1>4 DEF Callback

LEMMA CoreCoroutine ==
    ASSUME Core, NEW i \in Instances, Coroutine(i)
    PROVE  Core'
<1>1. /\ service' \in [Instances -> Phases]
      /\ \A j \in Instances : service'[j] = service[j] \/ (LiveIn(service, j) /\ LiveIn(service', j))
  BY Zenon DEF Coroutine, Start, StartFails, StartCentral, StartCentralFails, Phase, Phases, Core, LiveIn
<1>2. CASE Start(i) \/ StartCentral(i)
  <2>1. UNCHANGED <<record, todo>>
    BY <1>2, ZenonT(40) DEF Start, StartCentral
  <2> QED
    BY <1>1, <2>1, CorePhase, ZenonT(40)
<1>3. CASE StartFails(i) \/ StartCentralFails(i)
  <2>1. Stopped(i, todo)
    BY <1>3 DEF StartFails, StartCentralFails, Fail
  <2>2. /\ todo' \in Seq(Messages) /\ record' \in {record, 0}
        /\ QueueInv(todo', service, record')
    BY <2>1, StoppedKeeps, Zenon DEF Core
  <2>3. record' \in Instances \cup {0}
    BY <2>2, Zenon DEF Core
  <2>4. QueueInv(todo', service', record')
    BY <1>1, <2>2, <2>3, PhaseChanges, ZenonT(40)
  <2>5. \A j \in Instances : Alive(j)' => Alive(j)
    BY <1>1 DEF Alive, LiveIn
  <2> QED
    BY <1>1, <2>2, <2>3, <2>4, <2>5, ZenonT(40) DEF Core
<1> QED
  BY <1>2, <1>3, ZenonT(40) DEF Coroutine

LEMMA CoreKept == Core /\ [Next]_vars => Core'
<1> SUFFICES ASSUME Core, [Next]_vars PROVE Core'
  OBVIOUS
<1>1. CASE UNCHANGED <<service, record, todo>>
  BY <1>1 DEF Core, Alive
<1>2. CASE AppOpens \/ RadioOn \/ CentralWorks \/ LeftoverEnds \/ TimePasses \/ UNCHANGED vars
  <2>1. UNCHANGED <<service, record, todo>>
    BY <1>2 DEF AppOpens, RadioOn, CentralWorks, LeftoverEnds, TimePasses, vars, serviceVars
  <2> QED
    BY <1>1, <2>1, ZenonT(40)
<1>3. CASE UserStarts \/ UserStops \/ ProcessKilled \/ RadioOff
  BY <1>3, CoreUserStarts, CoreUserStops, CoreProcessKilled, CoreRadioOff, ZenonT(40)
<1>4. ASSUME NEW i \in Instances, Callback(i) \/ Coroutine(i)
      PROVE  Core'
  BY <1>4, CoreCallback, CoreCoroutine, ZenonT(40)
<1>5. ASSUME NEW i \in Instances, Answered(i)
      PROVE  Core'
  <2>1. UNCHANGED <<service, record, todo>>
    BY <1>5 DEF Answered, serviceVars
  <2> QED
    BY <1>1, <2>1, ZenonT(40)
<1>6. ASSUME NEW i \in Instances, PeripheralFails(i) \/ ScanFails(i)
      PROVE  Core'
  <2>1. Stopped(i, todo) /\ UNCHANGED service
    BY <1>6 DEF PeripheralFails, ScanFails, Fail
  <2>2. todo \in Seq(Messages) /\ QueueInv(todo, service, record)
    BY DEF Core
  <2> QED
    BY <2>1, <2>2, CoreStopped, ZenonT(40)
<1> QED
  BY <1>2, <1>3, <1>4, <1>5, <1>6, ZenonT(40) DEF Next

-----------------------------------------------------------------------------
(* What an instance has open. *)

RestTypes ==
    /\ PeripheralTypeOK
    /\ app \in {"opening", "ready", "error"}
    /\ scanning \in [Instances -> BOOLEAN]
    /\ radio \in BOOLEAN /\ running \in BOOLEAN

SameAt(j) ==
    /\ service'[j] = service[j] /\ scanning'[j] = scanning[j]
    /\ listening'[j] = listening[j] /\ gattServer'[j] = gattServer[j]
    /\ advertiser'[j] = advertiser[j] /\ advertising'[j] = advertising[j]
    /\ answer'[j] = answer[j]

LEMMA HoldsSame ==
    ASSUME NEW j \in Instances, HoldsInv(j), SameAt(j)
    PROVE  HoldsInv(j)'
  BY Zenon DEF HoldsInv, SameAt, Alive

\* The types, as functions of the instances.
LEMMA RestIs ==
    ASSUME RestTypes
    PROVE  /\ scanning \in [Instances -> BOOLEAN] /\ listening \in [Instances -> BOOLEAN]
           /\ gattServer \in [Instances -> BOOLEAN] /\ advertiser \in [Instances -> BOOLEAN]
           /\ advertising \in [Instances -> BOOLEAN] /\ answer \in [Instances -> Answers]
  BY DEF RestTypes, PeripheralTypeOK

LEMMA ServiceIs ==
    ASSUME Core, NEW i \in Instances
    PROVE  service \in [Instances -> Phases] /\ service[i] \in Phases
  BY DEF Core

LEMMA HoldsCreate ==
    ASSUME Core, RestTypes, \A i \in Instances : HoldsInv(i),
           NEW k \in Instances, OnCreate(k)
    PROVE  /\ \A j \in Instances \ {k} : SameAt(j)
           /\ \A i \in Instances : HoldsInv(i)'
<1>1. \A j \in Instances \ {k} : SameAt(j)
  BY RestIs, ServiceIs, ZenonT(40) DEF SameAt, OnCreate, Phase, peripheralVars
<1>2. HoldsInv(k)'
  <2>1. HoldsInv(k) /\ service[k] = "none"
    BY CoreOnCreate, Zenon
  <2> QED
    BY <2>1, RestIs, ServiceIs, ZenonT(40) DEF HoldsInv, Alive, Phases, Answers, OnCreate, Phase, peripheralVars
<1> QED
  BY <1>1, <1>2, HoldsSame, ZenonT(40)

LEMMA HoldsStartCommand ==
    ASSUME Core, RestTypes, \A i \in Instances : HoldsInv(i),
           NEW k \in Instances, OnStartCommand(k)
    PROVE  /\ \A j \in Instances \ {k} : SameAt(j)
           /\ \A i \in Instances : HoldsInv(i)'
<1>1. \A j \in Instances \ {k} : SameAt(j)
  BY RestIs, ServiceIs, ZenonT(40) DEF SameAt, OnStartCommand, Phase, peripheralVars
<1>2. HoldsInv(k)'
  <2>1. HoldsInv(k)
    BY Zenon
  <2> QED
    BY <2>1, RestIs, ServiceIs, ZenonT(40) DEF HoldsInv, Alive, Phases, Answers, OnStartCommand, Phase, peripheralVars
<1> QED
  BY <1>1, <1>2, HoldsSame

LEMMA HoldsDestroy ==
    ASSUME Core, RestTypes, \A i \in Instances : HoldsInv(i),
           NEW k \in Instances, OnDestroy(k)
    PROVE  /\ \A j \in Instances \ {k} : SameAt(j)
           /\ \A i \in Instances : HoldsInv(i)'
<1>1. \A j \in Instances \ {k} : SameAt(j)
  BY RestIs, ServiceIs DEF SameAt, OnDestroy, Phase, StopPeripheral
<1>2. HoldsInv(k)'
  <2>1. HoldsInv(k) /\ Alive(k)
    BY CoreOnDestroy, ZenonT(40)
  <2> QED
    BY <2>1, RestIs, ServiceIs, Zenon DEF HoldsInv, Alive, Phases, Answers, OnDestroy, Phase, StopPeripheral
<1> QED
  BY <1>1, <1>2, HoldsSame

LEMMA HoldsStart ==
    ASSUME Core, RestTypes, \A i \in Instances : HoldsInv(i),
           NEW k \in Instances, Start(k)
    PROVE  /\ \A j \in Instances \ {k} : SameAt(j)
           /\ \A i \in Instances : HoldsInv(i)'
<1>1. \A j \in Instances \ {k} : SameAt(j)
  BY RestIs, ServiceIs, ZenonT(40) DEF SameAt, Start, Phase, StartPeripheral
<1>2. HoldsInv(k)'
  <2>1. HoldsInv(k)
    OBVIOUS
  <2> QED
    BY <2>1, RestIs, ServiceIs, ZenonT(40) DEF HoldsInv, Alive, Phases, Answers, Start, Phase, StartPeripheral
<1> QED
  BY <1>1, <1>2, HoldsSame

LEMMA HoldsStartFails ==
    ASSUME Core, RestTypes, \A i \in Instances : HoldsInv(i),
           NEW k \in Instances, StartFails(k)
    PROVE  /\ \A j \in Instances \ {k} : SameAt(j)
           /\ \A i \in Instances : HoldsInv(i)'
<1>1. \A j \in Instances \ {k} : SameAt(j)
  BY RestIs, ServiceIs, ZenonT(40) DEF SameAt, StartFails, Phase, StartThrows, peripheralVars
<1>2. HoldsInv(k)'
  <2>1. HoldsInv(k)
    OBVIOUS
  <2> QED
    BY <2>1, RestIs, ServiceIs, ZenonT(40) DEF HoldsInv, Alive, Phases, Answers, StartFails, Phase, StartThrows, peripheralVars
<1> QED
  BY <1>1, <1>2, HoldsSame

LEMMA HoldsStartCentral ==
    ASSUME Core, RestTypes, \A i \in Instances : HoldsInv(i),
           NEW k \in Instances, StartCentral(k)
    PROVE  /\ \A j \in Instances \ {k} : SameAt(j)
           /\ \A i \in Instances : HoldsInv(i)'
<1>1. \A j \in Instances \ {k} : SameAt(j)
  BY RestIs, ServiceIs, ZenonT(40) DEF SameAt, StartCentral, Phase, peripheralVars
<1>2. HoldsInv(k)'
  <2>1. HoldsInv(k)
    OBVIOUS
  <2> QED
    BY <2>1, RestIs, ServiceIs, ZenonT(40) DEF HoldsInv, Alive, Phases, Answers, StartCentral, Phase, peripheralVars
<1> QED
  BY <1>1, <1>2, HoldsSame

LEMMA HoldsStartCentralFails ==
    ASSUME Core, RestTypes, \A i \in Instances : HoldsInv(i),
           NEW k \in Instances, StartCentralFails(k)
    PROVE  /\ \A j \in Instances \ {k} : SameAt(j)
           /\ \A i \in Instances : HoldsInv(i)'
<1>1. \A j \in Instances \ {k} : SameAt(j)
  BY RestIs, ServiceIs, ZenonT(40) DEF SameAt, StartCentralFails, Phase, peripheralVars
<1>2. HoldsInv(k)'
  <2>1. HoldsInv(k)
    OBVIOUS
  <2> QED
    BY <2>1, RestIs, ServiceIs, ZenonT(40) DEF HoldsInv, Alive, Phases, Answers, StartCentralFails, Phase, peripheralVars
<1> QED
  BY <1>1, <1>2, HoldsSame

LEMMA HoldsAnswered ==
    ASSUME Core, RestTypes, \A i \in Instances : HoldsInv(i),
           NEW k \in Instances, Answered(k)
    PROVE  /\ \A j \in Instances \ {k} : SameAt(j)
           /\ \A i \in Instances : HoldsInv(i)'
<1>1. \A j \in Instances \ {k} : SameAt(j)
  BY RestIs, ServiceIs, ZenonT(40) DEF SameAt, Answered, OnServiceAdded, StartAdvertising, OnStartSuccess, serviceVars
<1>2. HoldsInv(k)'
  <2>1. HoldsInv(k)
    OBVIOUS
  <2> QED
    BY <2>1, RestIs, ServiceIs, ZenonT(40) DEF HoldsInv, Alive, Phases, Answers, Answered, OnServiceAdded, StartAdvertising, OnStartSuccess, serviceVars
<1> QED
  BY <1>1, <1>2, HoldsSame

LEMMA HoldsPeripheralFails ==
    ASSUME Core, RestTypes, \A i \in Instances : HoldsInv(i),
           NEW k \in Instances, PeripheralFails(k)
    PROVE  /\ \A j \in Instances \ {k} : SameAt(j)
           /\ \A i \in Instances : HoldsInv(i)'
<1>1. \A j \in Instances \ {k} : SameAt(j)
  BY RestIs, ServiceIs, ZenonT(40) DEF SameAt, PeripheralFails, AnswerFails
<1>2. HoldsInv(k)'
  <2>1. HoldsInv(k)
    OBVIOUS
  <2> QED
    BY <2>1, RestIs, ServiceIs, ZenonT(40) DEF HoldsInv, Alive, Phases, Answers, PeripheralFails, AnswerFails
<1> QED
  BY <1>1, <1>2, HoldsSame

LEMMA HoldsScanFails ==
    ASSUME Core, RestTypes, \A i \in Instances : HoldsInv(i),
           NEW k \in Instances, ScanFails(k)
    PROVE  /\ \A j \in Instances \ {k} : SameAt(j)
           /\ \A i \in Instances : HoldsInv(i)'
<1>1. \A j \in Instances \ {k} : SameAt(j)
  BY RestIs, ServiceIs, ZenonT(40) DEF SameAt, ScanFails, peripheralVars
<1>2. HoldsInv(k)'
  <2>1. HoldsInv(k)
    OBVIOUS
  <2> QED
    BY <2>1, RestIs, ServiceIs, ZenonT(40) DEF HoldsInv, Alive, Phases, Answers, ScanFails, peripheralVars
<1> QED
  BY <1>1, <1>2, HoldsSame

LEMMA HoldsKilled ==
    ASSUME ProcessKilled
    PROVE  \A i \in Instances : HoldsInv(i)'
  BY DEF ProcessKilled, HoldsInv, Alive

LEMMA HoldsRadioOff ==
    ASSUME RestTypes, \A i \in Instances : HoldsInv(i), RadioOff
    PROVE  \A i \in Instances : HoldsInv(i)'
  BY RestIs, Zenon DEF RadioOff, AdvertisingEnds, HoldsInv, Alive

LEMMA HoldsKept ==
    ASSUME Core, RestTypes, \A i \in Instances : HoldsInv(i), [Next]_vars
    PROVE  \A i \in Instances : HoldsInv(i)'
<1>1. CASE UNCHANGED <<service, scanning, peripheralVars>>
  <2>1. \A j \in Instances : SameAt(j)
    BY <1>1 DEF SameAt, peripheralVars
  <2> QED
    BY <2>1, HoldsSame, ZenonT(40)
<1>2. CASE AppOpens \/ UserStarts \/ UserStops \/ RadioOn \/ CentralWorks \/ LeftoverEnds \/ TimePasses \/ UNCHANGED vars
  <2>1. UNCHANGED <<service, scanning, peripheralVars>>
    BY <1>2, ZenonT(40) DEF AppOpens, UserStarts, UserStops, RadioOn, CentralWorks, LeftoverEnds, TimePasses, vars, serviceVars
  <2> QED
    BY <1>1, <2>1, ZenonT(40)
<1>3. CASE ProcessKilled \/ RadioOff
  BY <1>3, HoldsKilled, HoldsRadioOff, ZenonT(40)
<1>4. ASSUME NEW k \in Instances, Callback(k)
      PROVE  \A i \in Instances : HoldsInv(i)'
  <2>1. CASE OnCreate(k) \/ OnStartCommand(k) \/ OnDestroy(k)
    BY <2>1, HoldsCreate, HoldsStartCommand, HoldsDestroy, ZenonT(40)
  <2>2. CASE OnStartRefused(k) \/ OnRadioOff(k)
    <3>1. UNCHANGED <<service, scanning, peripheralVars>>
      BY <2>2, Zenon DEF OnStartRefused, OnRadioOff
    <3> QED
      BY <1>1, <3>1, ZenonT(40)
  <2> QED
    BY <1>4, <2>1, <2>2, ZenonT(40) DEF Callback
<1>5. ASSUME NEW k \in Instances, Coroutine(k)
      PROVE  \A i \in Instances : HoldsInv(i)'
  BY <1>5, HoldsStart, HoldsStartFails, HoldsStartCentral, HoldsStartCentralFails, ZenonT(40) DEF Coroutine
<1>6. ASSUME NEW k \in Instances, Answered(k) \/ PeripheralFails(k) \/ ScanFails(k)
      PROVE  \A i \in Instances : HoldsInv(i)'
  BY <1>6, HoldsAnswered, HoldsPeripheralFails, HoldsScanFails
<1> QED
  BY <1>2, <1>3, <1>4, <1>5, <1>6, ZenonT(40) DEF Next

LEMMA RestTypesKept ==
    ASSUME RestTypes, [Next]_vars
    PROVE  RestTypes'
<1>1. app' \in {"opening", "ready", "error"} /\ radio' \in BOOLEAN /\ running' \in BOOLEAN
  <2>1. app' = app \/ app' \in {"opening", "ready", "error"}
    BY Zenon DEF Next, AppOpens, UserStarts, UserStops, ProcessKilled, RadioOff, RadioOn, Callback,
           OnCreate, OnStartCommand, OnStartRefused, OnRadioOff, OnDestroy, Coroutine, Start,
           StartFails, StartCentral, StartCentralFails, Answered, PeripheralFails, ScanFails,
           CentralWorks, LeftoverEnds, TimePasses, vars, serviceVars
  <2>2. radio' = radio \/ radio' \in BOOLEAN
    BY Zenon DEF Next, AppOpens, UserStarts, UserStops, ProcessKilled, RadioOff, RadioOn, Callback,
           OnCreate, OnStartCommand, OnStartRefused, OnRadioOff, OnDestroy, Coroutine, Start,
           StartFails, StartCentral, StartCentralFails, Answered, PeripheralFails, ScanFails,
           CentralWorks, LeftoverEnds, TimePasses, vars, serviceVars
  <2>3. running' = running \/ running' \in BOOLEAN
    BY Zenon DEF Next, AppOpens, UserStarts, UserStops, ProcessKilled, RadioOff, RadioOn, Callback,
           OnCreate, OnStartCommand, OnStartRefused, OnRadioOff, OnDestroy, Coroutine, Start,
           StartFails, StartCentral, StartCentralFails, Answered, PeripheralFails, ScanFails,
           CentralWorks, LeftoverEnds, TimePasses, Fail, vars, serviceVars
  <2> QED
    BY <2>1, <2>2, <2>3, ZenonT(40) DEF RestTypes
<1>2. scanning' \in [Instances -> BOOLEAN]
  BY RestIs, Zenon
  DEF Next, AppOpens, UserStarts, UserStops, ProcessKilled, RadioOff, RadioOn, Callback,
      OnCreate, OnStartCommand, OnStartRefused, OnRadioOff, OnDestroy, Coroutine, Start,
      StartFails, StartCentral, StartCentralFails, Answered, PeripheralFails, ScanFails,
      CentralWorks, LeftoverEnds, TimePasses, vars, serviceVars
<1>3. PeripheralTypeOK'
  <2>0. SUFFICES /\ listening' \in [Instances -> BOOLEAN] /\ gattServer' \in [Instances -> BOOLEAN]
                 /\ advertiser' \in [Instances -> BOOLEAN] /\ advertising' \in [Instances -> BOOLEAN]
                 /\ answer' \in [Instances -> Answers]
    BY DEF PeripheralTypeOK
  <2>1. CASE UNCHANGED peripheralVars
    BY <2>1, RestIs, ZenonT(40) DEF peripheralVars
  <2>2. CASE ProcessKilled
    BY <2>2 DEF ProcessKilled, Answers
  <2>3. CASE RadioOff
    BY <2>3, RestIs, Zenon DEF RadioOff, AdvertisingEnds
  <2>4. ASSUME NEW k \in Instances, OnDestroy(k)
        PROVE  /\ listening' \in [Instances -> BOOLEAN] /\ gattServer' \in [Instances -> BOOLEAN]
               /\ advertiser' \in [Instances -> BOOLEAN] /\ advertising' \in [Instances -> BOOLEAN]
               /\ answer' \in [Instances -> Answers]
    BY <2>4, RestIs DEF OnDestroy, StopPeripheral, Answers
  <2>5. ASSUME NEW k \in Instances, Start(k) \/ StartFails(k)
        PROVE  /\ listening' \in [Instances -> BOOLEAN] /\ gattServer' \in [Instances -> BOOLEAN]
               /\ advertiser' \in [Instances -> BOOLEAN] /\ advertising' \in [Instances -> BOOLEAN]
               /\ answer' \in [Instances -> Answers]
    BY <2>5, RestIs, Zenon DEF Start, StartFails, StartPeripheral, StartThrows, peripheralVars, Answers
  <2>6. ASSUME NEW k \in Instances, Answered(k) \/ PeripheralFails(k)
        PROVE  /\ listening' \in [Instances -> BOOLEAN] /\ gattServer' \in [Instances -> BOOLEAN]
               /\ advertiser' \in [Instances -> BOOLEAN] /\ advertising' \in [Instances -> BOOLEAN]
               /\ answer' \in [Instances -> Answers]
    BY <2>6, RestIs, Zenon DEF Answered, OnServiceAdded, StartAdvertising, OnStartSuccess,
                        PeripheralFails, AnswerFails, Answers
  <2>7. \/ UNCHANGED peripheralVars \/ ProcessKilled \/ RadioOff
        \/ \E k \in Instances : OnDestroy(k) \/ Start(k) \/ StartFails(k) \/ Answered(k) \/ PeripheralFails(k)
    BY Zenon DEF Next, AppOpens, UserStarts, UserStops, RadioOn, Callback,
           OnCreate, OnStartCommand, OnStartRefused, OnRadioOff, Coroutine,
           StartCentral, StartCentralFails, ScanFails, CentralWorks, LeftoverEnds, TimePasses, vars
  <2> QED
    BY <2>1, <2>2, <2>3, <2>4, <2>5, <2>6, <2>7, ZenonT(40)
<1> QED
  BY <1>1, <1>2, <1>3, ZenonT(40) DEF RestTypes

-----------------------------------------------------------------------------
(* What the instance on record provides. *)

\* An instance whose failure came after its end.
LEMMA LateStays ==
    ASSUME FailedLate, NEW k \in Instances, \A j \in Instances \ {k} : SameAt(j),
           SameAt(k) \/ service[k] # "gone" \/ answer[k] # "done"
    PROVE  FailedLate'
<1>1. PICK j \in Instances : service[j] = "gone" /\ advertiser[j] /\ answer[j] = "done"
  BY Zenon DEF FailedLate
<1>2. SameAt(j)
  BY <1>1
<1>3. service'[j] = "gone" /\ advertiser'[j] /\ answer'[j] = "done"
  BY <1>1, <1>2, Zenon DEF SameAt
<1> QED
  BY <1>3, Zenon DEF FailedLate

LEMMA ServesSame ==
    ASSUME NEW i \in Instances, ServesInv(i), SameAt(i), record' = i => record = i,
           running => running' \/ FailedLate', FailedLate => FailedLate',
           Queued(todo, "radio off", i) => Queued(todo', "radio off", i)
    PROVE  ServesInv(i)'
<1> SUFFICES ASSUME record' = i PROVE ServesInv(i)'
  BY Zenon DEF ServesInv
<1>1. /\ service[i] # "failed"
      /\ service[i] \in {"starting", "up"} /\ ~Queued(todo, "radio off", i)
           => /\ listening[i] /\ gattServer[i] /\ advertiser[i]
              /\ answer[i] # "none"
              /\ answer[i] \in {"started", "done"} => advertising[i]
              /\ service[i] = "up" => scanning[i]
      /\ service[i] = "up" => running \/ FailedLate
  BY Zenon DEF ServesInv
<1>2. /\ service'[i] # "failed"
      /\ service'[i] \in {"starting", "up"} /\ ~Queued(todo', "radio off", i)
           => /\ listening'[i] /\ gattServer'[i] /\ advertiser'[i]
              /\ answer'[i] # "none"
              /\ answer'[i] \in {"started", "done"} => advertising'[i]
              /\ service'[i] = "up" => scanning'[i]
      /\ service'[i] = "up" => running' \/ FailedLate'
  BY <1>1, Zenon DEF SameAt
<1> QED
  BY <1>2, Zenon DEF ServesInv

\* An instance that does not live provides nothing.
LEMMA ServesEnded ==
    ASSUME NEW i \in Instances, record' = i => ~Alive(i)'
    PROVE  ServesInv(i)'
  BY Zenon DEF ServesInv, Alive

LEMMA ServesNone ==
    ASSUME Core', NEW k \in Instances, Alive(k)', record' # k
    PROVE  \A i \in Instances : ServesInv(i)'
<1>1. \A i \in Instances \ {k} : ~Alive(i)'
  BY DEF Core
<1> QED
  BY <1>1, ServesEnded

\* What the queue says of the radio, after a message is added or taken.
LEMMA RadioQueued ==
    ASSUME NEW q, NEW x \in Messages, NEW i
    PROVE  todo \in Seq(Messages) /\ q = Append(todo, x)
           => (Queued(q, "radio off", i) <=> Queued(todo, "radio off", i) \/ x = Message("radio off", i))
<1>1. ASSUME todo \in Seq(Messages), q = Append(todo, x) PROVE Extends(q, todo, x)
  BY <1>1, AppendExtends
<1>2. ASSUME Extends(q, todo, x)
      PROVE  Queued(q, "radio off", i) <=> Queued(todo, "radio off", i) \/ x = Message("radio off", i)
  BY <1>2, ExtendsQueued, Zenon
<1> QED
  BY <1>1, <1>2, Zenon

LEMMA RadioStaysQueued ==
    ASSUME NEW q, NEW i
    PROVE  /\ todo \in Seq(Messages) /\ todo # <<>> /\ q = Tail(todo) /\ Head(todo) # Message("radio off", i)
           /\ Queued(todo, "radio off", i)
           => Queued(q, "radio off", i)
<1>1. ASSUME todo \in Seq(Messages), todo # <<>>, q = Tail(todo)
      PROVE  Shortens(q, todo) /\ todo[1] = Head(todo)
  BY <1>1, TailShortens, ZenonT(40)
<1>2. ASSUME Shortens(q, todo)
      PROVE  \A w : Queued(todo, w, i) <=> Queued(q, w, i) \/ todo[1] = Message(w, i)
  BY <1>2, ShortensQueued
<1> QED
  BY <1>1, <1>2, Zenon

LEMMA ServesUserStarts ==
    ASSUME Core, UserStarts, \A i \in Instances : ServesInv(i)
    PROVE  \A i \in Instances : ServesInv(i)'
<1> SUFFICES ASSUME NEW i \in Instances PROVE ServesInv(i)'
  BY Zenon
<1>1. UNCHANGED <<service, scanning, running>> /\ UNCHANGED peripheralVars
  BY DEF UserStarts
<1>2. CASE record = 0
  <2>1. CanMake /\ record' = NewInstance
    BY <1>2, Zenon DEF UserStarts
  <2>2. service[NewInstance] = "none"
    BY <2>1, NewInstanceIs DEF Core
  <2> QED
    BY <1>1, <2>1, <2>2, ServesEnded, ZenonT(40) DEF Alive
<1>3. CASE record # 0
  <2>1. record' = record /\ todo' = Append(todo, Message("start", record))
    BY <1>3 DEF UserStarts
  <2>2. Queued(todo, "radio off", i) => Queued(todo', "radio off", i)
    <3>1. todo \in Seq(Messages) /\ record \in Instances
      BY <1>3 DEF Core
    <3>2. Message("start", record) \in Messages
      BY <3>1, MessageIs, Zenon
    <3> QED
      BY <2>1, <3>1, <3>2, RadioQueued, Zenon
  <2>3. SameAt(i) /\ (FailedLate => FailedLate')
    BY <1>1, ZenonT(40) DEF SameAt, peripheralVars, FailedLate
  <2> QED
    BY <1>1, <2>1, <2>2, <2>3, ServesSame, Zenon
<1> QED
  BY <1>2, <1>3

LEMMA ServesUserStops ==
    ASSUME Core, UserStops
    PROVE  \A i \in Instances : ServesInv(i)'
<1>1. record' = 0 /\ 0 \notin Instances
  BY MeshAssumption DEF UserStops, Stopped
<1> QED
  BY <1>1, ServesEnded, ZenonT(40)

LEMMA ServesKilled ==
    ASSUME ProcessKilled
    PROVE  \A i \in Instances : ServesInv(i)'
<1>1. \A i \in Instances : ~Alive(i)'
  BY DEF ProcessKilled, Alive
<1> QED
  BY <1>1, ServesEnded, ZenonT(40)

LEMMA ServesRadioOff ==
    ASSUME Core, RadioOff, \A i \in Instances : ServesInv(i)
    PROVE  \A i \in Instances : ServesInv(i)'
<1> SUFFICES ASSUME NEW i \in Instances, Alive(i) PROVE ServesInv(i)'
  BY ServesEnded, Zenon DEF RadioOff, Alive
<1>1. todo' = Append(todo, Message("radio off", i))
  BY RadioOffTells, Zenon
<1>2. Queued(todo', "radio off", i)
  <2>1. todo \in Seq(Messages) /\ Message("radio off", i) \in Messages
    BY MessageIs, Zenon DEF Core
  <2> QED
    BY <1>1, <2>1, RadioQueued, Zenon
<1>3. UNCHANGED <<service, record, running>> /\ (FailedLate => FailedLate')
  BY Zenon DEF RadioOff, AdvertisingEnds, FailedLate
<1>4. record = i => service[i] # "failed" /\ (service[i] = "up" => running \/ FailedLate)
  BY Zenon DEF ServesInv
<1>5. record' = i => service'[i] # "failed" /\ (service'[i] = "up" => running' \/ FailedLate')
  BY <1>3, <1>4, ZenonT(40)
<1> QED
  BY <1>2, <1>5, Zenon DEF ServesInv

LEMMA ServesOnCreate ==
    ASSUME Core, NEW k \in Instances, OnCreate(k)
    PROVE  \A i \in Instances : ServesInv(i)'
<1>1. /\ service \in [Instances -> Phases] /\ service' = [service EXCEPT ![k] = "created"]
      /\ \A j \in Instances : ~Alive(j)
  BY CoreOnCreate, Zenon DEF OnCreate, Phase, Core
<1>2. \A i \in Instances \ {k} : ~Alive(i)'
  BY <1>1 DEF Alive
<1>3. service'[k] = "created"
  BY <1>1, ZenonT(40)
<1>4. ServesInv(k)'
  BY <1>3, Zenon DEF ServesInv
<1> QED
  BY <1>2, <1>4, ServesEnded, ZenonT(40)

LEMMA ServesOnStartCommand ==
    ASSUME Core, RestTypes, \A i \in Instances : HoldsInv(i) /\ ServesInv(i),
           NEW k \in Instances, OnStartCommand(k)
    PROVE  \A i \in Instances : ServesInv(i)'
<1> SUFFICES ASSUME NEW i \in Instances PROVE ServesInv(i)'
  OBVIOUS
<1>1. /\ todo \in Seq(Messages) /\ todo # <<>> /\ Head(todo) = Message("start", k)
      /\ todo' = Tail(todo) /\ record' = record /\ running' = running
  BY NextMessageIs DEF OnStartCommand
<1>2. Head(todo) # Message("radio off", i)
  BY <1>1, MessagesDiffer, Zenon
<1>3. Queued(todo, "radio off", i) => Queued(todo', "radio off", i)
  BY <1>1, <1>2, RadioStaysQueued, Zenon
<1>4. CASE service[k] = "created"
  <2>1. /\ service \in [Instances -> Phases] /\ service' = [service EXCEPT ![k] = "waiting"]
    BY <1>4 DEF OnStartCommand, Phase, Core
  <2>2. service'[k] = "waiting"
    BY <2>1
  <2>3. CASE i = k
    BY <2>2, <2>3, Zenon DEF ServesInv
  <2>4. CASE i # k
    <3>1. \A j \in Instances \ {k} : SameAt(j)
      BY HoldsStartCommand, ZenonT(40)
    <3>2. FailedLate => FailedLate'
      BY <1>4, <3>1, LateStays, ZenonT(40)
    <3>3. ServesInv(i) /\ SameAt(i)
      BY <2>4, <3>1
    <3> QED
      BY <1>1, <1>3, <3>2, <3>3, ServesSame, Zenon
  <2> QED
    BY <2>3, <2>4, ZenonT(40)
<1>5. CASE service[k] # "created"
  <2>1. UNCHANGED <<service, scanning>> /\ UNCHANGED peripheralVars
    BY <1>5 DEF OnStartCommand
  <2>2. SameAt(i) /\ (FailedLate => FailedLate')
    BY <2>1, Zenon DEF SameAt, FailedLate, peripheralVars
  <2>3. ServesInv(i)
    OBVIOUS
  <2> QED
    BY <1>1, <1>3, <2>2, <2>3, ServesSame, Zenon
<1> QED
  BY <1>4, <1>5

LEMMA ServesRefused ==
    ASSUME Core, Core', NEW k \in Instances, OnStartRefused(k)
    PROVE  \A i \in Instances : ServesInv(i)'
<1>1. NextMessage("start", k) /\ Stopped(k, Tail(todo)) /\ service' = service
  BY DEF OnStartRefused, Fail
<1>2. Alive(k)' /\ Tail(todo) \in Seq(Messages) /\ QueueInv(Tail(todo), service, record)
  BY <1>1, StartReaches, CoreOther, Zenon DEF Alive
<1>3. record' # k
  BY <1>1, <1>2, StoppedKeeps, Zenon DEF Core
<1> QED
  BY <1>2, <1>3, ServesNone, ZenonT(40)

LEMMA ServesOnRadioOff ==
    ASSUME Core, Core', \A i \in Instances : ServesInv(i), NEW k \in Instances, OnRadioOff(k)
    PROVE  \A i \in Instances : ServesInv(i)'
<1>1. NextMessage("radio off", k) /\ service' = service
  BY Zenon DEF OnRadioOff
<1>2. Tail(todo) \in Seq(Messages) /\ QueueInv(Tail(todo), service, record)
  BY <1>1, CoreOther, Zenon
<1>3. CASE Alive(k)
  <2>1. Alive(k)' /\ Stopped(k, Tail(todo))
    BY <1>1, <1>3, Zenon DEF OnRadioOff, Fail, Alive
  <2>2. record' # k
    BY <1>2, <2>1, StoppedKeeps, Zenon DEF Core
  <2> QED
    BY <2>1, <2>2, ServesNone, ZenonT(40)
<1>4. CASE ~Alive(k)
  <2> SUFFICES ASSUME NEW i \in Instances, i # k PROVE ServesInv(i)'
    BY <1>1, <1>4, ServesEnded, Zenon DEF Alive
  <2>1. todo' = Tail(todo) /\ UNCHANGED <<record, running, service, scanning>> /\ UNCHANGED peripheralVars
    BY <1>4, Zenon DEF OnRadioOff
  <2>2. todo \in Seq(Messages) /\ todo # <<>> /\ Head(todo) = Message("radio off", k)
    BY <1>1, NextMessageIs, Zenon
  <2>3. Head(todo) # Message("radio off", i)
    BY <2>2, SameMessage, Zenon
  <2>4. Queued(todo, "radio off", i) => Queued(todo', "radio off", i)
    BY <2>1, <2>2, <2>3, RadioStaysQueued, ZenonT(40)
  <2>5. SameAt(i) /\ (FailedLate => FailedLate')
    BY <2>1 DEF SameAt, FailedLate, peripheralVars
  <2>6. ServesInv(i)
    OBVIOUS
  <2> QED
    BY <2>1, <2>4, <2>5, <2>6, ServesSame, Zenon
<1> QED
  BY <1>3, <1>4

LEMMA ServesOnDestroy ==
    ASSUME Core, NEW k \in Instances, OnDestroy(k)
    PROVE  \A i \in Instances : ServesInv(i)' /\ ~Alive(i)'
<1>1. Alive(k)
  BY CoreOnDestroy, Zenon
<1>2. service \in [Instances -> Phases] /\ service' = [service EXCEPT ![k] = "gone"]
  BY Zenon DEF OnDestroy, Phase, Core
<1>3. \A i \in Instances : ~Alive(i)'
  BY <1>1, <1>2 DEF Alive, Core
<1> QED
  BY <1>3, ServesEnded

LEMMA ServesStart ==
    ASSUME Core, RestTypes, \A i \in Instances : HoldsInv(i), NEW k \in Instances, Start(k)
    PROVE  \A i \in Instances : ServesInv(i)'
<1>1. \A j \in Instances \ {k} : SameAt(j)
  BY HoldsStart
<1>2. Alive(k)
  BY Zenon DEF Start, Alive
<1>3. \A i \in Instances \ {k} : ~Alive(i)'
  BY <1>1, <1>2, ZenonT(40) DEF Core, Alive, SameAt
<1>4. /\ service'[k] = "starting" /\ listening'[k] /\ gattServer'[k] /\ advertiser'[k]
      /\ answer'[k] = "added"
  BY RestIs, ServiceIs DEF Start, Phase, StartPeripheral
<1>5. ServesInv(k)'
  BY <1>4, Zenon DEF ServesInv
<1> QED
  BY <1>3, <1>5, ServesEnded, ZenonT(40)

LEMMA ServesStartCentral ==
    ASSUME Core, RestTypes, \A i \in Instances : HoldsInv(i) /\ ServesInv(i),
           NEW k \in Instances, StartCentral(k)
    PROVE  \A i \in Instances : ServesInv(i)'
<1>1. \A j \in Instances \ {k} : SameAt(j)
  BY HoldsStartCentral
<1>2. Alive(k)
  BY Zenon DEF StartCentral, Alive
<1>3. \A i \in Instances \ {k} : ~Alive(i)'
  BY <1>1, <1>2, ZenonT(40) DEF Core, Alive, SameAt
<1>4. /\ service[k] = "starting" /\ service'[k] = "up" /\ scanning'[k] /\ running'
      /\ UNCHANGED <<record, todo>> /\ UNCHANGED peripheralVars
  BY RestIs, ServiceIs, ZenonT(40) DEF StartCentral, Phase
<1>5. ServesInv(k)
  OBVIOUS
<1>6. ServesInv(k)'
  <2> SUFFICES ASSUME record' = k, ~Queued(todo', "radio off", k)
               PROVE  /\ listening'[k] /\ gattServer'[k] /\ advertiser'[k]
                      /\ answer'[k] # "none"
                      /\ answer'[k] \in {"started", "done"} => advertising'[k]
    BY <1>4, Zenon DEF ServesInv
  <2> QED
    BY <1>4, <1>5, Zenon DEF ServesInv, peripheralVars
<1> QED
  BY <1>3, <1>6, ServesEnded, ZenonT(40)

\* A live instance that fails is told to stop.
LEMMA ServesFails ==
    ASSUME Core, Core', NEW k \in Instances, Alive(k)', Stopped(k, todo)
    PROVE  \A i \in Instances : ServesInv(i)'
<1>1. record' # k
  BY StoppedKeeps, Zenon DEF Core
<1> QED
  BY <1>1, ServesNone

LEMMA ServesCoroutineFails ==
    ASSUME Core, Core', NEW k \in Instances, StartFails(k) \/ StartCentralFails(k)
    PROVE  \A i \in Instances : ServesInv(i)'
<1>1. service'[k] = "failed" /\ Stopped(k, todo)
  BY ServiceIs DEF StartFails, StartCentralFails, Phase, Fail
<1>2. Alive(k)'
  BY <1>1, Zenon DEF Alive
<1> QED
  BY <1>1, <1>2, ServesFails, ZenonT(40)

LEMMA ServesScanFails ==
    ASSUME Core, Core', \A i \in Instances : HoldsInv(i), NEW k \in Instances, ScanFails(k)
    PROVE  \A i \in Instances : ServesInv(i)'
<1>1. scanning[k] /\ service' = service /\ Stopped(k, todo)
  BY ZenonT(40) DEF ScanFails, Fail
<1>2. Alive(k)'
  BY <1>1 DEF Alive, HoldsInv
<1> QED
  BY <1>1, <1>2, ServesFails, ZenonT(40)

LEMMA ServesAnswered ==
    ASSUME Core, RestTypes, \A i \in Instances : HoldsInv(i) /\ ServesInv(i),
           NEW k \in Instances, Answered(k)
    PROVE  \A i \in Instances : ServesInv(i)'
<1>1. \A j \in Instances \ {k} : SameAt(j)
  BY HoldsAnswered
<1>2. UNCHANGED <<service, record, todo, scanning, running>> /\ answer[k] # "done"
  BY DEF Answered, serviceVars, OnServiceAdded, StartAdvertising, OnStartSuccess
<1>3. FailedLate => FailedLate'
  BY <1>1, <1>2, LateStays, Zenon
<1>4. ASSUME NEW i \in Instances, i # k PROVE ServesInv(i)'
  <2>1. ServesInv(i) /\ SameAt(i)
    BY <1>1, <1>4
  <2> QED
    BY <1>2, <1>3, <2>1, ServesSame, Zenon
<1>5. ServesInv(k)'
  <2>1. HoldsInv(k) /\ ServesInv(k)
    BY Zenon
  <2>2. /\ listening'[k] = listening[k] /\ gattServer'[k] = gattServer[k]
        /\ \/ /\ answer[k] = "added" /\ answer'[k] = IF advertiser[k] THEN "read" ELSE "done"
              /\ advertiser'[k] = advertiser[k] /\ advertising'[k] = advertising[k]
           \/ /\ answer[k] = "read" /\ answer'[k] = IF listening[k] THEN "started" ELSE "raced"
              /\ advertiser'[k] /\ advertising'[k]
           \/ /\ answer[k] = "started" /\ answer'[k] = "done"
              /\ advertiser'[k] = advertiser[k] /\ advertising'[k] = advertising[k]
    BY RestIs DEF Answered, OnServiceAdded, StartAdvertising, OnStartSuccess
  <2>3. record' = k => service'[k] # "failed" /\ (service'[k] = "up" => running' \/ FailedLate')
    BY <1>2, <1>3, <2>1, Zenon DEF ServesInv
  <2>4. ASSUME record' = k, service'[k] \in {"starting", "up"}, ~Queued(todo', "radio off", k)
        PROVE  /\ listening'[k] /\ gattServer'[k] /\ advertiser'[k]
               /\ answer'[k] # "none"
               /\ answer'[k] \in {"started", "done"} => advertising'[k]
               /\ service'[k] = "up" => scanning'[k]
    <3>1. /\ listening[k] /\ gattServer[k] /\ advertiser[k]
          /\ answer[k] \in {"started", "done"} => advertising[k]
          /\ service[k] = "up" => scanning[k]
      BY <1>2, <2>1, <2>4, Zenon DEF ServesInv
    <3> QED
      BY <1>2, <2>2, <3>1, Zenon
  <2> QED
    BY <2>3, <2>4, Zenon DEF ServesInv
<1> QED
  BY <1>4, <1>5, ZenonT(40)

\* The late failure of an instance that is gone switches the toggle off.
LEMMA ServesPeripheralFails ==
    ASSUME Core, Core', RestTypes, \A i \in Instances : HoldsInv(i) /\ ServesInv(i),
           NEW k \in Instances, PeripheralFails(k)
    PROVE  \A i \in Instances : ServesInv(i)'
<1>1. service' = service /\ Stopped(k, todo)
  BY DEF PeripheralFails, Fail
<1>2. CASE Alive(k)
  BY <1>1, <1>2, ServesFails, ZenonT(40) DEF Alive
<1>3. CASE ~Alive(k)
  <2>1. HoldsInv(k)
    OBVIOUS
  <2>2. /\ answer[k] \in {"added", "read", "started", "raced"} /\ answer'[k] = "done"
        /\ advertiser'[k] = (advertiser[k] \/ answer[k] = "read")
    BY RestIs DEF PeripheralFails, AnswerFails
  <2>3. service'[k] = "gone" /\ advertiser'[k] /\ answer'[k] = "done"
    BY <1>1, <1>3, <2>1, <2>2, Zenon DEF HoldsInv, Alive
  <2>4. FailedLate'
    BY <2>3 DEF FailedLate
  <2>5. ServesInv(k)'
    BY <1>1, <1>3, ServesEnded, ZenonT(40) DEF Alive
  <2>6. ASSUME NEW i \in Instances, i # k PROVE ServesInv(i)'
    <3>1. /\ record' \in {record, 0}
          /\ \A j : Queued(todo', "radio off", j) <=> Queued(todo, "radio off", j)
      BY <1>1, StoppedKeeps, Zenon DEF Core
    <3>2. ServesInv(i) /\ SameAt(i)
      BY <2>6, HoldsPeripheralFails
    <3>3. record' = i => record = i
      BY <3>1, MeshAssumption, Zenon
    <3> QED
      BY <2>4, <3>1, <3>2, <3>3, ServesSame, Zenon
  <2> QED
    BY <2>5, <2>6
<1> QED
  BY <1>2, <1>3, ZenonT(40)

LEMMA ServesKept ==
    ASSUME Core, RestTypes, \A i \in Instances : HoldsInv(i) /\ ServesInv(i), [Next]_vars
    PROVE  \A i \in Instances : ServesInv(i)'
<1>0. Core'
  BY CoreKept
<1>1. CASE AppOpens \/ RadioOn \/ CentralWorks \/ LeftoverEnds \/ TimePasses \/ UNCHANGED vars
  <2>1. UNCHANGED <<service, record, todo, scanning, running, peripheralVars>>
    BY <1>1 DEF AppOpens, RadioOn, CentralWorks, LeftoverEnds, TimePasses, vars, serviceVars
  <2>2. \A i \in Instances : SameAt(i)
    BY <2>1, Zenon DEF SameAt, peripheralVars
  <2>3. FailedLate => FailedLate'
    BY <2>1, Zenon DEF FailedLate, peripheralVars
  <2> QED
    BY <2>1, <2>2, <2>3, ServesSame, Zenon
<1>2. CASE UserStarts \/ UserStops \/ ProcessKilled \/ RadioOff
  BY <1>2, ServesUserStarts, ServesUserStops, ServesKilled, ServesRadioOff, ZenonT(40)
<1>3. ASSUME NEW k \in Instances, Callback(k)
      PROVE  \A i \in Instances : ServesInv(i)'
  BY <1>0, <1>3, ServesOnCreate, ServesOnStartCommand, ServesRefused, ServesOnRadioOff, ServesOnDestroy, ZenonT(40)
  DEF Callback
<1>4. ASSUME NEW k \in Instances, Coroutine(k)
      PROVE  \A i \in Instances : ServesInv(i)'
  BY <1>0, <1>4, ServesStart, ServesStartCentral, ServesCoroutineFails, ZenonT(40) DEF Coroutine
<1>5. ASSUME NEW k \in Instances, Answered(k) \/ PeripheralFails(k) \/ ScanFails(k)
      PROVE  \A i \in Instances : ServesInv(i)'
  BY <1>0, <1>5, ServesAnswered, ServesPeripheralFails, ServesScanFails, ZenonT(40)
<1> QED
  BY <1>1, <1>2, <1>3, <1>4, <1>5, ZenonT(40) DEF Next

-----------------------------------------------------------------------------
(* The toggle, and the attempts of the central. *)

\* An instance that is up stays up until the toggle is switched off.
LEMMA RunningKept ==
    ASSUME Core, running => \E i \in Instances : service[i] = "up", [Next]_vars
    PROVE  running' => \E i \in Instances : service'[i] = "up"
<1> SUFFICES ASSUME running' PROVE \E i \in Instances : service'[i] = "up"
  OBVIOUS
<1>1. CASE \E k \in Instances : StartCentral(k)
  <2>1. PICK k \in Instances : StartCentral(k)
    BY <1>1
  <2>2. service'[k] = "up"
    BY <2>1, ServiceIs DEF StartCentral, Phase
  <2> QED
    BY <2>2
<1>2. CASE UNCHANGED <<service, running>>
  BY <1>2
<1>3. CASE AppOpens \/ UserStarts \/ UserStops \/ RadioOff \/ RadioOn \/ CentralWorks \/ LeftoverEnds \/ TimePasses
           \/ UNCHANGED vars \/ \E k \in Instances : Answered(k)
  <2>1. UNCHANGED <<service, running>>
    BY <1>3, Zenon DEF AppOpens, UserStarts, UserStops, RadioOff, RadioOn, CentralWorks, LeftoverEnds, TimePasses,
                Answered, vars, serviceVars
  <2> QED
    BY <1>2, <2>1
<1>4. ASSUME NEW k \in Instances, OnRadioOff(k) PROVE UNCHANGED <<service, running>>
  BY <1>4, Zenon DEF OnRadioOff, Fail
<1>5. ASSUME NEW k \in Instances, OnCreate(k) \/ OnStartCommand(k) \/ Start(k)
      PROVE  \E i \in Instances : service'[i] = "up"
  <2>1. (running' = running /\ service[k] # "up") \/ UNCHANGED <<service, running>>
    BY <1>5, CoreOnCreate, Zenon DEF OnCreate, OnStartCommand, Start
  <2>2. \A j \in Instances \ {k} : service'[j] = service[j]
    BY <1>5, ServiceIs, Zenon DEF OnCreate, OnStartCommand, Start, Phase
  <2> QED
    BY <2>1, <2>2, Zenon
<1>6. ~ProcessKilled /\ \A k \in Instances : /\ ~OnStartRefused(k) /\ ~OnDestroy(k) /\ ~StartFails(k)
                                             /\ ~StartCentralFails(k) /\ ~PeripheralFails(k) /\ ~ScanFails(k)
  BY DEF ProcessKilled, OnStartRefused, OnDestroy, StartFails, StartCentralFails, PeripheralFails, ScanFails, Fail
<1> QED
  BY <1>1, <1>2, <1>3, <1>4, <1>5, <1>6, ZenonT(40) DEF Next, Callback, Coroutine

ServiceInv ==
    /\ Core /\ RestTypes
    /\ \A i \in Instances : HoldsInv(i) /\ ServesInv(i)
    /\ running => \E i \in Instances : service[i] = "up"

LEMMA InitServiceInv == Init => ServiceInv
<1> SUFFICES ASSUME Init PROVE ServiceInv
  OBVIOUS
<1>1. service \in [Instances -> Phases] /\ \A i \in Instances : ~LiveIn(service, i) /\ ~Alive(i)
  BY DEF Init, Phases, LiveIn, Alive
<1>2. todo = <<>> /\ record = 0 /\ ~running
  BY DEF Init
<1>3. <<>> \in Seq(Messages) /\ QueueInv(<<>>, service, 0)
  BY <1>1, NothingQueued, ZenonT(40)
<1>4. Core
  BY <1>1, <1>2, <1>3, ZenonT(40) DEF Core
<1>5. RestTypes
  BY Zenon DEF Init, RestTypes, PeripheralInit, PeripheralTypeOK, Answers
<1>6. \A i \in Instances : HoldsInv(i)
  BY Zenon DEF Init, PeripheralInit, HoldsInv, Alive
<1>7. \A i \in Instances : ServesInv(i)
  BY <1>2, MeshAssumption, Zenon DEF ServesInv
<1> QED
  BY <1>2, <1>4, <1>5, <1>6, <1>7, ZenonT(40) DEF ServiceInv

LEMMA ServiceInvKept == ServiceInv /\ [Next]_vars => ServiceInv'
<1> SUFFICES ASSUME ServiceInv, [Next]_vars PROVE ServiceInv'
  OBVIOUS
<1>1. Core /\ RestTypes /\ (\A i \in Instances : HoldsInv(i) /\ ServesInv(i))
  BY DEF ServiceInv
<1>2. running => \E i \in Instances : service[i] = "up"
  BY DEF ServiceInv
<1>3. Core' /\ RestTypes'
  BY <1>1, CoreKept, RestTypesKept, ZenonT(40)
<1>4. \A i \in Instances : HoldsInv(i)'
  BY <1>1, HoldsKept, ZenonT(40)
<1>5. \A i \in Instances : ServesInv(i)'
  BY <1>1, ServesKept, ZenonT(40)
<1>6. running' => \E i \in Instances : service'[i] = "up"
  BY <1>1, <1>2, RunningKept, ZenonT(40)
<1> QED
  BY <1>3, <1>4, <1>5, <1>6 DEF ServiceInv

LEMMA InvReleases == ServiceInv => StopReleases
<1> SUFFICES ASSUME ServiceInv PROVE StopReleases
  BY Zenon
<1>1. TypeOK
  BY Zenon DEF ServiceInv, Core, RestTypes, TypeOK
<1>2. \A i \in Instances : ~Alive(i) => Released(i) /\ ~scanning[i]
  <2>1. \A i \in Instances : HoldsInv(i)
    BY Zenon DEF ServiceInv
  <2> QED
    BY <2>1 DEF HoldsInv, Alive, Released
<1> QED
  BY <1>1, <1>2, ZenonT(40) DEF StopReleases

LEMMA InvTells == ServiceInv => ToggleTells
<1> SUFFICES ASSUME ServiceInv, todo = <<>>, NEW i \in Instances
             PROVE  /\ service[i] # "failed"
                    /\ service[i] = "up" => /\ running \/ FailedLate
                                            /\ scanning[i]
                                            /\ answer[i] = "done" => Reachable(i)
                    /\ running => \E j \in Instances : service[j] = "up"
  BY Zenon DEF ToggleTells
<1>1. \A w : ~Queued(todo, w, i)
  BY DEF Queued
<1>2. Alive(i) => record = i
  <2>1. RecordInv(todo, service, record)
    BY DEF ServiceInv, Core, QueueInv
  <2> QED
    BY <1>1, <2>1, ZenonT(40) DEF RecordInv, LiveIn, Alive
<1>3. ServesInv(i) /\ (running => \E j \in Instances : service[j] = "up")
  BY DEF ServiceInv
<1> QED
  BY <1>1, <1>2, <1>3, Zenon DEF ServesInv, Alive, Reachable

\* An instance that has ended keeps no scan, socket, GATT server or advertising,
\* but for advertising that began behind stop, at any number of instances, of
\* lives of the process and of switches of the radio (MeshService.onDestroy,
\* BlePeripheral.stop, BleCentral.stop).
THEOREM StopsRelease == Spec => []StopReleases
<1>1. Spec => []ServiceInv
  BY InitServiceInv, ServiceInvKept, PTL DEF Spec
<1> QED
  BY <1>1, InvReleases, PTL

\* The toggle of the screen tells whether the service runs (runningState of
\* MeshService), in every order of callbacks, answers and failures.
THEOREM ToggleIsTrue == Spec => []ToggleTells
<1>1. Spec => []ServiceInv
  BY InitServiceInv, ServiceInvKept, PTL DEF Spec
<1> QED
  BY <1>1, InvTells, PTL
==============================================================================
