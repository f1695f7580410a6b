----------------------------- MODULE SyncProofs -----------------------------
(***************************************************************************)
(* The sessions of one link: what its two ends and what is on its way      *)
(* between them say of each session, and that handling a message, pushing  *)
(* and storing keep it so.  Module MeshProofs builds on these facts.       *)
(***************************************************************************)
EXTENDS Mesh, FiniteSetTheorems, TLAPS

-----------------------------------------------------------------------------
(* What a channel holds of the messages of some types: none, one or two.   *)

Free(c, T) == \A i \in DOMAIN c : c[i].type \notin T

Single(c, T, m) ==
    \E i \in DOMAIN c : c[i] = m /\ \A j \in DOMAIN c : j # i => c[j].type \notin T

Pair(c, T, m, n) ==
    \E i, j \in DOMAIN c :
        /\ i < j /\ c[i] = m /\ c[j] = n
        /\ \A h \in DOMAIN c : h # i /\ h # j => c[h].type \notin T

\* What an opener sends in its session, and what it is sent.
Asks == {"RECON_INIT", "RECON_ASK", "RECON_DONE"}
Answers == {"RECON_REPLY"}

(***************************************************************************)
(* How far a session is: ours are the sessions of the end that opens them  *)
(* and co what is on its way there, theirs and ct the same of the end that *)
(* responds; r is the parity of the ids.                                   *)
(***************************************************************************)
Sids(r) == {s \in Nat : s % 2 = r}

\* What sessions can have passed over.
Misses == IF FrameLimited THEN SUBSET Entries ELSE {{}}

Idle(ours, theirs, co, ct) ==
    DOMAIN ours = {} /\ DOMAIN theirs = {} /\ Free(co, Answers) /\ Free(ct, Asks)

Closing(r, ours, theirs, co, ct) ==
    \E s \in Sids(r) :
        /\ DOMAIN ours = {} /\ DOMAIN theirs = {s}
        /\ Free(co, Answers) /\ Single(ct, Asks, ReconDone(s))

Opening(r, ours, theirs, co, ct) ==
    \E s \in Sids(r) :
        /\ DOMAIN ours = {s} /\ DOMAIN theirs = {}
        /\ Free(co, Answers) /\ Single(ct, Asks, ReconInit(s, ours[s].snap))

Reopening(r, ours, theirs, co, ct) ==
    \E s, t \in Sids(r) :
        /\ DOMAIN ours = {s} /\ DOMAIN theirs = {t}
        /\ Free(co, Answers)
        /\ Pair(ct, Asks, ReconDone(t), ReconInit(s, ours[s].snap))

Asking(r, ours, theirs, co, ct) ==
    \E s \in Sids(r), todo \in SUBSET Entries :
        /\ DOMAIN ours = {s} /\ DOMAIN theirs = {s}
        /\ Free(co, Answers) /\ Single(ct, Asks, ReconAsk(s, todo))

Replying(r, ours, theirs, co, ct) ==
    \E s \in Sids(r), done, ids, todo \in SUBSET Entries, missed \in Misses :
        /\ DOMAIN ours = {s} /\ DOMAIN theirs = {s}
        /\ Single(co, Answers, ReconReply(s, done, ids, todo, missed)) /\ Free(ct, Asks)

Stage(r, ours, theirs, co, ct) ==
    \/ Idle(ours, theirs, co, ct)
    \/ Closing(r, ours, theirs, co, ct)
    \/ Opening(r, ours, theirs, co, ct)
    \/ Reopening(r, ours, theirs, co, ct)
    \/ Asking(r, ours, theirs, co, ct)
    \/ Replying(r, ours, theirs, co, ct)

\* The two ends of a link, s with role r and c on its way to it, are in step.
InStep(r, s, c, p, d) ==
    /\ Stage(r, s.ours, p.theirs, c, d)
    /\ Stage(1 - r, p.ours, s.theirs, d, c)

-----------------------------------------------------------------------------
(* What the messages and the sessions carry.                               *)

Messages ==
    [type : {"HANDSHAKE"}] \cup [type : {"ERROR"}]
        \cup [type : {"GOSSIP_PUSH"}, entries : Seq(Entries)]
        \cup [type : {"RECON_INIT"}, sid : Nat, snap : SUBSET Entries]
        \cup [type : {"RECON_ASK"}, sid : Nat, todo : SUBSET Entries]
        \cup [type : {"RECON_REPLY"}, sid : Nat, done : SUBSET Entries,
              ids : SUBSET Entries, todo : SUBSET Entries, missed : Misses]
        \cup [type : {"RECON_DONE"}, sid : Nat]

IsSyncer(s, r) ==
    /\ DOMAIN s = {"role", "ours", "theirs", "next_sid", "missed"}
    /\ s.role = r /\ s.next_sid \in Sids(r) /\ s.missed \in Misses

\* Snapshots are of the store S.
Snapped(s, S) ==
    /\ \A sid \in DOMAIN s.ours :
          /\ DOMAIN s.ours[sid] = {"snap", "pushed"}
          /\ s.ours[sid].snap \subseteq S
    /\ \A sid \in DOMAIN s.theirs : s.theirs[sid].snap \subseteq S

Carries(m, e) == m.type = "GOSSIP_PUSH" /\ \E j \in DOMAIN m.entries : m.entries[j] = e

Pushing(c, e) == \E i \in DOMAIN c : Carries(c[i], e)

\* All that is pushed in c is of the store S.
Sound(c, S) == \A i \in DOMAIN c : \A e : Carries(c[i], e) => e \in S

\* What s has pushed is in the store S of its peer or on its way in d.
Arrives(s, d, S) ==
    \A sid \in DOMAIN s.ours : \A e \in s.ours[sid].pushed : e \in S \/ Pushing(d, e)

Asked(m, e) ==
    \/ m.type = "RECON_INIT" /\ e \in m.snap
    \/ m.type = "RECON_ASK" /\ e \in m.todo

Told(m, e) == m.type = "RECON_REPLY" /\ (e \in m.todo \/ e \in m.done \ m.ids \/ e \in m.missed)

AskedIn(c, e) == \E i \in DOMAIN c : Asked(c[i], e)
ToldIn(c, e) == \E i \in DOMAIN c : Told(c[i], e)

\* The session of s will find that its peer lacks e, and push it or pass over it.
Due(s, c, d, e) ==
    /\ \E sid \in DOMAIN s.ours : e \in s.ours[sid].snap
    /\ AskedIn(d, e) \/ ToldIn(c, e)

\* All of S, the store of s, is at the peer, whose store is P, or will be, but for
\* what the last session of s has passed over.
Covered(s, c, d, S, P) ==
    \A e \in S : e \in P \/ Pushing(d, e) \/ Due(s, c, d, e) \/ e \in s.missed

-----------------------------------------------------------------------------
(* The invariant, of the stores, ends, channels and schedulers of a state. *)

Open(es, x) == es[x].state \in {"handshake", "up"}

StoreInv(st) ==
    /\ st \in [Nodes -> SUBSET Entries]
    /\ \A n \in Nodes : IsFiniteSet(st[n]) /\ Cardinality(st[n]) <= net.room[n]

EndInv(es, ch, act, x) ==
    /\ DOMAIN es[x] = {"state", "sy"}
    /\ es[x].state \in {"idle", "handshake", "up", "closed"}
    /\ es[x].state = "idle" <=> es[Peer(x)].state = "idle"
    /\ IsSyncer(es[x].sy, x[2])
    /\ ch[x] \in Seq(Messages)
    /\ act[x] \in {None} \cup Nat
    /\ DOMAIN es[x].sy.ours = IF act[x] = None THEN {} ELSE {act[x]}
    /\ ~Open(es, x) => es[x].sy = NewSyncer(x[2]) /\ ch[x] = <<>>

\* An end whose peer is gone is in step with the peer as it was.
StepInv(es, ch, x) ==
    Open(es, x) =>
        IF Open(es, Peer(x))
        THEN InStep(x[2], es[x].sy, ch[x], es[Peer(x)].sy, ch[Peer(x)])
        ELSE \E p, d : d \in Seq(Messages) /\ InStep(x[2], es[x].sy, ch[x], p, d)

DataInv(st, es, ch, pend, x) ==
    LET S == st[NodeOf(x)]
        P == st[NodeOf(Peer(x))]
        s == es[x].sy
    IN  /\ Snapped(s, S)
        /\ Sound(ch[x], P)
        /\ Open(es, Peer(x)) => Arrives(s, ch[Peer(x)], P)
        /\ es[x].state = "up" /\ Open(es, Peer(x)) /\ x \notin pend
              => Covered(s, ch[x], ch[Peer(x)], S, P)

LinksInv(st, es, ch, pend, act) ==
    \A x \in Ends : EndInv(es, ch, act, x) /\ StepInv(es, ch, x) /\ DataInv(st, es, ch, pend, x)

\* A sync that is pending waits for a session.
PendingInv(es, pend, act) ==
    \A x \in pend : x \in Ends /\ es[x].state = "up" /\ act[x] # None

MeshInv ==
    /\ net \in Networks
    /\ StoreInv(store)
    /\ DOMAIN ends = Ends /\ DOMAIN chan = Ends /\ DOMAIN active = Ends
    /\ LinksInv(store, ends, chan, pending, active)
    /\ PendingInv(ends, pending, active)
    /\ faults \subseteq {"ResourceLimit"}
    /\ "ResourceLimit" \in faults => \E n \in Nodes : Cardinality(store[n]) = net.room[n]

-----------------------------------------------------------------------------
(* Channels that lose their first message, or gain others at their end.    *)

Drops(b, c) ==
    /\ b \in Seq(Messages) /\ c \in Seq(Messages)
    /\ Len(c) = Len(b) + 1
    /\ \A i \in 1..Len(b) : b[i] = c[i + 1]

\* b is c with messages of the types N after it.
Adds(b, c, N) ==
    /\ b \in Seq(Messages) /\ c \in Seq(Messages)
    /\ Len(c) <= Len(b)
    /\ \A i \in 1..Len(c) : b[i] = c[i]
    /\ \A i \in Len(c) + 1..Len(b) : b[i].type \in N

\* b is c with messages of the types N and then m after it.
AddsLast(b, c, N, m) ==
    /\ b \in Seq(Messages) /\ c \in Seq(Messages)
    /\ Len(c) < Len(b) /\ b[Len(b)] = m
    /\ \A i \in 1..Len(c) : b[i] = c[i]
    /\ \A i \in Len(c) + 1..Len(b) - 1 : b[i].type \in N

LEMMA Within ==
    ASSUME NEW c \in Seq(Messages)
    PROVE  /\ Len(c) \in Nat /\ 0 \in 0..Len(c)
           /\ \A k \in 1..Len(c) : k \in 0..Len(c) /\ k # 0
  OBVIOUS

LEMMA Joined ==
    ASSUME NEW c \in Seq(Messages), NEW v \in Seq(Messages)
    PROVE  /\ c \o v \in Seq(Messages) /\ Len(c \o v) = Len(c) + Len(v)
           /\ \A i \in 1..Len(c) : (c \o v)[i] = c[i]
           /\ \A i \in 1..Len(v) : (c \o v)[Len(c) + i] = v[i]
  OBVIOUS

LEMMA DropFree ==
    ASSUME NEW b, NEW c, NEW T, Drops(b, c), Free(c, T)
    PROVE  Free(b, T) /\ c[1].type \notin T
<1>1. DOMAIN b = 1..Len(b) /\ DOMAIN c = 1..Len(b) + 1 /\ Len(b) \in Nat
  BY DEF Drops
<1>2. \A i \in DOMAIN b : i + 1 \in DOMAIN c /\ b[i] = c[i + 1]
  BY <1>1 DEF Drops
<1> QED
  BY <1>1, <1>2 DEF Free

LEMMA DropSingle ==
    ASSUME NEW b, NEW c, NEW T, NEW m, m.type \in T, Drops(b, c), Single(c, T, m)
    PROVE  /\ c[1].type \in T => c[1] = m /\ Free(b, T)
           /\ c[1].type \notin T => Single(b, T, m)
<1>1. PICK i \in DOMAIN c : c[i] = m /\ \A j \in DOMAIN c : j # i => c[j].type \notin T
  BY DEF Single
<1>2. DOMAIN b = 1..Len(b) /\ DOMAIN c = 1..Len(b) + 1 /\ Len(b) \in Nat
  BY DEF Drops
<1>3. CASE i = 1
  BY <1>1, <1>2, <1>3 DEF Drops, Free
<1>4. CASE i # 1
  <2>1. i - 1 \in DOMAIN b /\ b[i - 1] = m
    BY <1>1, <1>2, <1>4 DEF Drops
  <2>2. \A j \in DOMAIN b : j # i - 1 => b[j].type \notin T
    BY <1>1, <1>2 DEF Drops
  <2>3. Single(b, T, m)
    BY <2>1, <2>2 DEF Single
  <2>4. c[1].type \notin T
    BY <1>1, <1>2, <1>4
  <2> QED
    BY <2>3, <2>4
<1> QED
  BY <1>3, <1>4

LEMMA DropPair ==
    ASSUME NEW b, NEW c, NEW T, NEW m, NEW n, m.type \in T, n.type \in T,
           Drops(b, c), Pair(c, T, m, n)
    PROVE  /\ c[1].type \in T => c[1] = m /\ Single(b, T, n)
           /\ c[1].type \notin T => Pair(b, T, m, n)
<1>1. PICK i, j \in DOMAIN c :
        /\ i < j /\ c[i] = m /\ c[j] = n
        /\ \A h \in DOMAIN c : h # i /\ h # j => c[h].type \notin T
  BY DEF Pair
<1>2. DOMAIN b = 1..Len(b) /\ DOMAIN c = 1..Len(b) + 1 /\ Len(b) \in Nat
  BY DEF Drops
<1>3. j - 1 \in DOMAIN b /\ b[j - 1] = n
  BY <1>1, <1>2 DEF Drops
<1>4. CASE i = 1
  <2>1. \A h \in DOMAIN b : h # j - 1 => b[h].type \notin T
    BY <1>1, <1>2, <1>4 DEF Drops
  <2> QED
    BY <1>1, <1>3, <1>4, <2>1 DEF Single
<1>5. CASE i # 1
  <2>1. i - 1 \in DOMAIN b /\ b[i - 1] = m /\ i - 1 < j - 1
    BY <1>1, <1>2, <1>5 DEF Drops
  <2>2. ASSUME NEW h \in DOMAIN b, h # i - 1, h # j - 1 PROVE b[h].type \notin T
    <3>1. h \in 1..Len(b) /\ i \in Int /\ j \in Int
      BY <1>2
    <3>2. h + 1 # i /\ h + 1 # j /\ h + 1 \in 1..Len(b) + 1
      BY <1>2, <2>2, <3>1
    <3>3. b[h] = c[h + 1]
      BY <3>1 DEF Drops
    <3> QED
      BY <1>1, <1>2, <3>2, <3>3
  <2>3. Pair(b, T, m, n)
    BY <1>3, <2>1, <2>2 DEF Pair
  <2>4. c[1].type \notin T
    BY <1>1, <1>2, <1>5
  <2> QED
    BY <2>3, <2>4
<1> QED
  BY <1>4, <1>5

LEMMA AddFree ==
    ASSUME NEW b, NEW c, NEW N, NEW T, Adds(b, c, N), N \cap T = {}, Free(c, T)
    PROVE  Free(b, T)
<1>1. DOMAIN b = 1..Len(b) /\ DOMAIN c = 1..Len(c) /\ Len(b) \in Nat /\ Len(c) \in Nat
  BY DEF Adds
<1> QED
  BY <1>1 DEF Adds, Free

LEMMA AddSingle ==
    ASSUME NEW b, NEW c, NEW N, NEW T, NEW m, Adds(b, c, N), N \cap T = {}, Single(c, T, m)
    PROVE  Single(b, T, m)
<1>1. DOMAIN b = 1..Len(b) /\ DOMAIN c = 1..Len(c) /\ Len(b) \in Nat /\ Len(c) \in Nat
  BY DEF Adds
<1>2. PICK i \in DOMAIN c : c[i] = m /\ \A j \in DOMAIN c : j # i => c[j].type \notin T
  BY DEF Single
<1>3. i \in DOMAIN b /\ b[i] = m
  BY <1>1, <1>2 DEF Adds
<1>4. \A j \in DOMAIN b : j # i => b[j].type \notin T
  BY <1>1, <1>2 DEF Adds
<1> QED
  BY <1>3, <1>4 DEF Single

LEMMA AddPair ==
    ASSUME NEW b, NEW c, NEW N, NEW T, NEW m, NEW n, Adds(b, c, N), N \cap T = {}, Pair(c, T, m, n)
    PROVE  Pair(b, T, m, n)
<1>1. DOMAIN b = 1..Len(b) /\ DOMAIN c = 1..Len(c) /\ Len(b) \in Nat /\ Len(c) \in Nat
  BY DEF Adds
<1>2. PICK i, j \in DOMAIN c :
        /\ i < j /\ c[i] = m /\ c[j] = n
        /\ \A h \in DOMAIN c : h # i /\ h # j => c[h].type \notin T
  BY DEF Pair
<1>3. i \in DOMAIN b /\ b[i] = m /\ j \in DOMAIN b /\ b[j] = n
  BY <1>1, <1>2 DEF Adds
<1>4. \A h \in DOMAIN b : h # i /\ h # j => b[h].type \notin T
  BY <1>1, <1>2 DEF Adds
<1> QED
  BY <1>2, <1>3, <1>4 DEF Pair

LEMMA LastAdds ==
    ASSUME NEW b, NEW c, NEW N, NEW m, AddsLast(b, c, N, m)
    PROVE  Adds(b, c, N \cup {m.type})
  BY DEF AddsLast, Adds

LEMMA LastSingle ==
    ASSUME NEW b, NEW c, NEW N, NEW T, NEW m, AddsLast(b, c, N, m), N \cap T = {}, Free(c, T)
    PROVE  Single(b, T, m)
<1>1. /\ DOMAIN b = 1..Len(b) /\ DOMAIN c = 1..Len(c) /\ Len(b) \in Nat /\ Len(c) \in Nat
      /\ Len(b) \in DOMAIN b /\ b[Len(b)] = m
  BY DEF AddsLast
<1>2. \A j \in DOMAIN b : j # Len(b) => b[j].type \notin T
  BY <1>1 DEF AddsLast, Free
<1> QED
  BY <1>1, <1>2 DEF Single

LEMMA LastPair ==
    ASSUME NEW b, NEW c, NEW N, NEW T, NEW k, NEW m,
           AddsLast(b, c, N, m), N \cap T = {}, Single(c, T, k)
    PROVE  Pair(b, T, k, m)
<1>1. /\ DOMAIN b = 1..Len(b) /\ DOMAIN c = 1..Len(c) /\ Len(b) \in Nat /\ Len(c) \in Nat
      /\ Len(b) \in DOMAIN b /\ b[Len(b)] = m
  BY DEF AddsLast
<1>2. PICK i \in DOMAIN c : c[i] = k /\ \A j \in DOMAIN c : j # i => c[j].type \notin T
  BY DEF Single
<1>3. i \in DOMAIN b /\ b[i] = k /\ i < Len(b)
  BY <1>1, <1>2 DEF AddsLast
<1>4. \A j \in DOMAIN b : j # i /\ j # Len(b) => b[j].type \notin T
  BY <1>1, <1>2 DEF AddsLast
<1> QED
  BY <1>1, <1>3, <1>4 DEF Pair

-----------------------------------------------------------------------------
(* How the messages move a session from one stage to the next.             *)

LEMMA Kinds ==
    /\ \A s : ReconDone(s).type = "RECON_DONE" /\ ReconDone(s).sid = s
    /\ \A s, snap : /\ ReconInit(s, snap).type = "RECON_INIT"
                    /\ ReconInit(s, snap).sid = s /\ ReconInit(s, snap).snap = snap
    /\ \A s, todo : /\ ReconAsk(s, todo).type = "RECON_ASK"
                    /\ ReconAsk(s, todo).sid = s /\ ReconAsk(s, todo).todo = todo
    /\ \A s, d, i, t, u : /\ ReconReply(s, d, i, t, u).type = "RECON_REPLY"
                          /\ ReconReply(s, d, i, t, u).sid = s
  BY Zenon DEF ReconDone, ReconInit, ReconAsk, ReconReply

\* Channels that hold the same of the messages of a session leave it its stage.
LEMMA SameStage ==
    ASSUME NEW r, NEW ours, NEW theirs, NEW co, NEW ct, NEW b, NEW d,
           Stage(r, ours, theirs, co, ct),
           Free(co, Answers) => Free(b, Answers),
           \A m : m.type \in Answers /\ Single(co, Answers, m) => Single(b, Answers, m),
           Free(ct, Asks) => Free(d, Asks),
           \A m : m.type \in Asks /\ Single(ct, Asks, m) => Single(d, Asks, m),
           \A m, n : m.type \in Asks /\ n.type \in Asks /\ Pair(ct, Asks, m, n)
                        => Pair(d, Asks, m, n)
    PROVE  Stage(r, ours, theirs, b, d)
<1>0. "RECON_INIT" \in Asks /\ "RECON_ASK" \in Asks /\ "RECON_DONE" \in Asks
      /\ "RECON_REPLY" \in Answers
  BY DEF Asks, Answers
<1>1. CASE Idle(ours, theirs, co, ct)
  BY <1>1 DEF Idle, Stage
<1>2. CASE Closing(r, ours, theirs, co, ct)
  BY <1>0, <1>2, Kinds DEF Closing, Stage
<1>3. CASE Opening(r, ours, theirs, co, ct)
  BY <1>0, <1>3, Kinds DEF Opening, Stage
<1>4. CASE Reopening(r, ours, theirs, co, ct)
  BY <1>0, <1>4, Kinds DEF Reopening, Stage
<1>5. CASE Asking(r, ours, theirs, co, ct)
  BY <1>0, <1>5, Kinds DEF Asking, Stage
<1>6. CASE Replying(r, ours, theirs, co, ct)
  BY <1>0, <1>6, Kinds DEF Replying, Stage
<1> QED
  BY <1>1, <1>2, <1>3, <1>4, <1>5, <1>6 DEF Stage

\* A message that is not of the session is taken from a channel, or added.
LEMMA OtherTakenByOpener ==
    ASSUME NEW r, NEW ours, NEW theirs, NEW co, NEW ct, NEW b,
           Stage(r, ours, theirs, co, ct), Drops(b, co), co[1].type \notin Answers
    PROVE  Stage(r, ours, theirs, b, ct)
  BY DropFree, DropSingle, SameStage

LEMMA OtherTakenByResponder ==
    ASSUME NEW r, NEW ours, NEW theirs, NEW co, NEW ct, NEW b,
           Stage(r, ours, theirs, co, ct), Drops(b, ct), ct[1].type \notin Asks
    PROVE  Stage(r, ours, theirs, co, b)
  BY DropFree, DropSingle, DropPair, SameStage

LEMMA OtherToOpener ==
    ASSUME NEW r, NEW ours, NEW theirs, NEW co, NEW ct, NEW b, NEW N,
           Stage(r, ours, theirs, co, ct), Adds(b, co, N), N \cap Answers = {}
    PROVE  Stage(r, ours, theirs, b, ct)
  BY AddFree, AddSingle, SameStage

LEMMA OtherToResponder ==
    ASSUME NEW r, NEW ours, NEW theirs, NEW co, NEW ct, NEW b, NEW N,
           Stage(r, ours, theirs, co, ct), Adds(b, ct, N), N \cap Asks = {}
    PROVE  Stage(r, ours, theirs, co, b)
  BY AddFree, AddSingle, AddPair, SameStage

\* Which stage a message is met in.
LEMMA InitMet ==
    ASSUME NEW r, NEW ours, NEW theirs, NEW co, NEW ct, NEW b,
           Stage(r, ours, theirs, co, ct), Drops(b, ct), ct[1].type = "RECON_INIT"
    PROVE  \E s \in Sids(r) :
              /\ DOMAIN ours = {s} /\ DOMAIN theirs = {}
              /\ ct[1] = ReconInit(s, ours[s].snap)
              /\ Free(co, Answers) /\ Free(b, Asks)
<1>0. /\ "RECON_INIT" \in Asks /\ "RECON_ASK" \in Asks /\ "RECON_DONE" \in Asks
      /\ "RECON_INIT" # "RECON_ASK" /\ "RECON_INIT" # "RECON_DONE"
  BY DEF Asks
<1>1. ~Free(ct, Asks)
  BY <1>0, DropFree
<1>2. \A m : m.type \in Asks /\ Single(ct, Asks, m) => ct[1] = m /\ Free(b, Asks)
  BY <1>0, DropSingle
<1>3. \A m, n : m.type \in Asks /\ n.type \in Asks /\ Pair(ct, Asks, m, n) => ct[1] = m
  BY <1>0, DropPair, Zenon
<1>4. CASE Opening(r, ours, theirs, co, ct)
  BY <1>0, <1>2, <1>4, Kinds DEF Opening
<1>5. ~Closing(r, ours, theirs, co, ct)
  <2>1. \A s : ~Single(ct, Asks, ReconDone(s))
    BY <1>0, <1>2, Kinds
  <2> QED
    BY <2>1, Zenon DEF Closing
<1>6. ~Reopening(r, ours, theirs, co, ct)
  <2>1. \A s, t, snap : ~Pair(ct, Asks, ReconDone(s), ReconInit(t, snap))
    BY <1>0, <1>3, Kinds
  <2> QED
    BY <2>1, Zenon DEF Reopening
<1>7. ~Asking(r, ours, theirs, co, ct)
  <2>1. \A s, todo : ~Single(ct, Asks, ReconAsk(s, todo))
    BY <1>0, <1>2, Kinds
  <2> QED
    BY <2>1, Zenon DEF Asking
<1> QED
  BY <1>1, <1>4, <1>5, <1>6, <1>7, Zenon DEF Stage, Idle, Replying

LEMMA AskMet ==
    ASSUME NEW r, NEW ours, NEW theirs, NEW co, NEW ct, NEW b,
           Stage(r, ours, theirs, co, ct), Drops(b, ct), ct[1].type = "RECON_ASK"
    PROVE  \E s \in Sids(r) :
              /\ DOMAIN ours = {s} /\ DOMAIN theirs = {s} /\ ct[1].sid = s
              /\ Free(co, Answers) /\ Free(b, Asks)
<1>0. /\ "RECON_INIT" \in Asks /\ "RECON_ASK" \in Asks /\ "RECON_DONE" \in Asks
      /\ "RECON_INIT" # "RECON_ASK" /\ "RECON_ASK" # "RECON_DONE"
  BY DEF Asks
<1>1. ~Free(ct, Asks)
  BY <1>0, DropFree
<1>2. \A m : m.type \in Asks /\ Single(ct, Asks, m) => ct[1] = m /\ Free(b, Asks)
  BY <1>0, DropSingle
<1>3. \A m, n : m.type \in Asks /\ n.type \in Asks /\ Pair(ct, Asks, m, n) => ct[1] = m
  BY <1>0, DropPair
<1>4. CASE Asking(r, ours, theirs, co, ct)
  BY <1>0, <1>2, <1>4, Kinds DEF Asking
<1>5. ~Closing(r, ours, theirs, co, ct)
  <2>1. \A s : ~Single(ct, Asks, ReconDone(s))
    BY <1>0, <1>2, Kinds
  <2> QED
    BY <2>1, Zenon DEF Closing
<1>6. ~Reopening(r, ours, theirs, co, ct)
  <2>1. \A s, t, snap : ~Pair(ct, Asks, ReconDone(s), ReconInit(t, snap))
    BY <1>0, <1>3, Kinds
  <2> QED
    BY <2>1, Zenon DEF Reopening
<1>7. ~Opening(r, ours, theirs, co, ct)
  <2>1. \A s, snap : ~Single(ct, Asks, ReconInit(s, snap))
    BY <1>0, <1>2, Kinds
  <2> QED
    BY <2>1, Zenon DEF Opening
<1> QED
  BY <1>1, <1>4, <1>5, <1>6, <1>7, Zenon DEF Stage, Idle, Replying

LEMMA DoneMet ==
    ASSUME NEW r, NEW ours, NEW theirs, NEW co, NEW ct, NEW b,
           Stage(r, ours, theirs, co, ct), Drops(b, ct), ct[1].type = "RECON_DONE"
    PROVE  /\ DOMAIN theirs = {ct[1].sid}
           /\ \A none : DOMAIN none = {} => Stage(r, ours, none, co, b)
<1>0. /\ "RECON_INIT" \in Asks /\ "RECON_ASK" \in Asks /\ "RECON_DONE" \in Asks
      /\ "RECON_INIT" # "RECON_DONE" /\ "RECON_ASK" # "RECON_DONE"
  BY DEF Asks
<1>1. ~Free(ct, Asks)
  BY <1>0, DropFree
<1>2. \A m : m.type \in Asks /\ Single(ct, Asks, m) => ct[1] = m /\ Free(b, Asks)
  BY <1>0, DropSingle
<1>3. \A m, n : m.type \in Asks /\ n.type \in Asks /\ Pair(ct, Asks, m, n)
                  => ct[1] = m /\ Single(b, Asks, n)
  BY <1>0, DropPair
<1>4. CASE Closing(r, ours, theirs, co, ct)
  <2>1. /\ DOMAIN theirs = {ct[1].sid}
        /\ \A none : DOMAIN none = {} => Idle(ours, none, co, b)
    BY <1>0, <1>2, <1>4, Kinds DEF Closing, Idle
  <2> QED
    BY <2>1, Zenon DEF Stage
<1>5. CASE Reopening(r, ours, theirs, co, ct)
  <2>1. /\ DOMAIN theirs = {ct[1].sid}
        /\ \A none : DOMAIN none = {} => Opening(r, ours, none, co, b)
    BY <1>0, <1>3, <1>5, Kinds DEF Reopening, Opening
  <2> QED
    BY <2>1 DEF Stage
<1>6. ~Opening(r, ours, theirs, co, ct)
  <2>1. \A s, snap : ~Single(ct, Asks, ReconInit(s, snap))
    BY <1>0, <1>2, Kinds
  <2> QED
    BY <2>1, Zenon DEF Opening
<1>7. ~Asking(r, ours, theirs, co, ct)
  <2>1. \A s, todo : ~Single(ct, Asks, ReconAsk(s, todo))
    BY <1>0, <1>2, Kinds
  <2> QED
    BY <2>1, Zenon DEF Asking
<1> QED
  BY <1>1, <1>4, <1>5, <1>6, <1>7, Zenon DEF Stage, Idle, Replying

LEMMA ReplyMet ==
    ASSUME NEW r, NEW ours, NEW theirs, NEW co, NEW ct, NEW b,
           Stage(r, ours, theirs, co, ct), Drops(b, co), co[1].type = "RECON_REPLY"
    PROVE  \E s \in Sids(r) :
              /\ DOMAIN ours = {s} /\ DOMAIN theirs = {s} /\ co[1].sid = s
              /\ Free(b, Answers) /\ Free(ct, Asks)
<1>0. "RECON_REPLY" \in Answers
  BY DEF Answers
<1>1. ~Free(co, Answers)
  BY <1>0, DropFree
<1>2. \A m : m.type \in Answers /\ Single(co, Answers, m) => co[1] = m /\ Free(b, Answers)
  BY <1>0, DropSingle
<1>3. Replying(r, ours, theirs, co, ct)
  BY <1>1, Zenon DEF Stage, Idle, Closing, Opening, Reopening, Asking
<1> QED
  BY <1>0, <1>2, <1>3, Kinds DEF Replying

\* Which stage a message leads to.
LEMMA ReplySent ==
    ASSUME NEW r, NEW ours, NEW theirs, NEW co, NEW ct, NEW b, NEW N, NEW s \in Sids(r),
           NEW done \in SUBSET Entries, NEW ids \in SUBSET Entries, NEW todo \in SUBSET Entries,
           NEW missed \in Misses,
           DOMAIN ours = {s}, DOMAIN theirs = {s}, Free(co, Answers), Free(ct, Asks),
           AddsLast(b, co, N, ReconReply(s, done, ids, todo, missed)), N \cap Answers = {}
    PROVE  Stage(r, ours, theirs, b, ct)
<1>1. Single(b, Answers, ReconReply(s, done, ids, todo, missed))
  BY LastSingle
<1> QED
  BY <1>1, Zenon DEF Stage, Replying

LEMMA AskSent ==
    ASSUME NEW r, NEW ours, NEW theirs, NEW co, NEW ct, NEW b, NEW N, NEW s \in Sids(r),
           NEW todo \in SUBSET Entries,
           DOMAIN ours = {s}, DOMAIN theirs = {s}, Free(co, Answers), Free(ct, Asks),
           AddsLast(b, ct, N, ReconAsk(s, todo)), N \cap Asks = {}
    PROVE  Stage(r, ours, theirs, co, b)
<1>1. Single(b, Asks, ReconAsk(s, todo))
  BY LastSingle
<1> QED
  BY <1>1, Zenon DEF Stage, Asking

LEMMA DoneSent ==
    ASSUME NEW r, NEW ours, NEW theirs, NEW co, NEW ct, NEW b, NEW N, NEW s \in Sids(r),
           DOMAIN ours = {}, DOMAIN theirs = {s}, Free(co, Answers), Free(ct, Asks),
           AddsLast(b, ct, N, ReconDone(s)), N \cap Asks = {}
    PROVE  Stage(r, ours, theirs, co, b)
<1>1. Single(b, Asks, ReconDone(s))
  BY LastSingle
<1> QED
  BY <1>1, Zenon DEF Stage, Closing

LEMMA InitSent ==
    ASSUME NEW r, NEW ours, NEW opened, NEW theirs, NEW co, NEW ct, NEW b, NEW N,
           NEW s \in Sids(r), DOMAIN ours = {}, DOMAIN opened = {s},
           Stage(r, ours, theirs, co, ct),
           AddsLast(b, ct, N, ReconInit(s, opened[s].snap)), N \cap Asks = {}
    PROVE  Stage(r, opened, theirs, co, b)
<1>1. CASE Idle(ours, theirs, co, ct)
  <2>1. Single(b, Asks, ReconInit(s, opened[s].snap))
    BY <1>1, LastSingle DEF Idle
  <2> QED
    BY <1>1, <2>1, Zenon DEF Stage, Opening, Idle
<1>2. CASE Closing(r, ours, theirs, co, ct)
  <2>1. PICK t \in Sids(r) : /\ DOMAIN ours = {} /\ DOMAIN theirs = {t}
                             /\ Free(co, Answers) /\ Single(ct, Asks, ReconDone(t))
    BY <1>2 DEF Closing
  <2>2. Pair(b, Asks, ReconDone(t), ReconInit(s, opened[s].snap))
    BY <2>1, LastPair
  <2> QED
    BY <2>1, <2>2, Zenon DEF Stage, Reopening
<1>3. \A t : DOMAIN ours # {t}
  OBVIOUS
<1> QED
  BY <1>1, <1>2, <1>3, Zenon DEF Stage, Opening, Reopening, Asking, Replying

-----------------------------------------------------------------------------
(* The entries of a push, in their order.                                  *)

LEMMA InOrderIs ==
    ASSUME NEW es \in SUBSET Int, IsFiniteSet(es)
    PROVE  /\ Cardinality(es) \in Nat
           /\ InOrder(es) \in [1..Cardinality(es) -> es]
           /\ \A e \in es : \E i \in 1..Cardinality(es) : InOrder(es)[i] = e
<1> DEFINE n == Cardinality(es)
           Upto(e) == {f \in es : f <= e}
           rank == [e \in es |-> Cardinality(Upto(e))]
<1>1. n \in Nat
  BY FS_CardinalityType
<1>2. IsFiniteSet(1..n) /\ Cardinality(1..n) = n
  BY <1>1, FS_Interval
<1>3. ASSUME NEW e \in es
      PROVE  IsFiniteSet(Upto(e)) /\ Cardinality(Upto(e)) \in 1..n
  <2>1. Upto(e) \in SUBSET es /\ Upto(e) # {}
    OBVIOUS
  <2>2. IsFiniteSet(Upto(e)) /\ Cardinality(Upto(e)) <= n
    BY <2>1, FS_Subset
  <2>3. Cardinality(Upto(e)) \in Nat /\ Cardinality(Upto(e)) # 0
    BY <2>1, <2>2, FS_CardinalityType, FS_EmptySet, ZenonT(40)
  <2> QED
    BY <1>1, <2>2, <2>3
<1>4. ASSUME NEW d \in es, NEW e \in es, d < e
      PROVE  rank[d] < rank[e]
  <2>0. d \in Int /\ e \in Int /\ \A f \in es : f \in Int
    OBVIOUS
  <2>1. Upto(d) \in SUBSET Upto(e) /\ Upto(d) # Upto(e)
    <3>1. \A f \in Upto(d) : f \in Upto(e)
      BY <1>4, <2>0
    <3>2. e \in Upto(e) /\ e \notin Upto(d)
      BY <1>4, <2>0
    <3> QED
      BY <3>1, <3>2, Zenon
  <2>2. /\ Cardinality(Upto(d)) <= Cardinality(Upto(e))
        /\ Cardinality(Upto(e)) = Cardinality(Upto(d)) => Upto(e) = Upto(d)
    BY <1>3, <2>1, FS_Subset
  <2> QED
    BY <1>1, <1>3, <2>1, <2>2
<1>5. rank \in [es -> 1..n]
  BY <1>3
<1> HIDE DEF rank
<1>6. rank \in Injection(es, 1..n)
  <2>1. \A d, e \in es : rank[d] = rank[e] => d = e
    BY <1>1, <1>4, <1>5
  <2> QED
    BY <1>5, <2>1 DEF Injection, IsInjective
<1>7. \A i \in 1..n : \E e \in es : rank[e] = i
  <2>1. rank \in Surjection(es, 1..n)
    BY <1>2, <1>6, FS_Injection
  <2> QED
    BY <2>1 DEF Surjection
<1> DEFINE s == [i \in 1..n |-> CHOOSE e \in es : rank[e] = i]
<1>8. s \in [1..n -> es] /\ \A i \in 1..n : rank[s[i]] = i
  BY <1>7
<1> HIDE DEF s
<1>9. \A i, j \in DOMAIN s : i < j => s[i] < s[j]
  <2> SUFFICES ASSUME NEW i \in 1..n, NEW j \in 1..n, i < j PROVE s[i] < s[j]
    BY <1>8
  <2>1. s[i] \in es /\ s[j] \in es /\ rank[s[i]] = i /\ rank[s[j]] = j /\ i \in Int /\ j \in Int
    BY <1>8
  <2>2. s[j] < s[i] => j < i
    BY <1>4, <2>1, Zenon
  <2>3. s[i] # s[j] /\ ~(s[j] < s[i]) /\ s[i] \in Int /\ s[j] \in Int
    <3>1. i # j /\ ~(j < i)
      BY <2>1
    <3>2. s[i] \in Int /\ s[j] \in Int
      BY <2>1, Zenon
    <3> QED
      BY <2>1, <2>2, <3>1, <3>2
  <2> QED
    BY <2>3
<1>10. PICK q \in [1..n -> es] : q = InOrder(es) /\ \A i, j \in DOMAIN q : i < j => q[i] < q[j]
  BY <1>8, <1>9, Zenon DEF InOrder
<1>11. q \in Injection(1..n, es)
  <2>1. \A i, j \in 1..n : q[i] = q[j] => i = j
    <3> SUFFICES ASSUME NEW i \in 1..n, NEW j \in 1..n, q[i] = q[j] PROVE i = j
      OBVIOUS
    <3>0. q[i] \in Int /\ q[j] \in Int /\ DOMAIN q = 1..n
      BY <1>10, Zenon
    <3>1. ~(i < j) /\ ~(j < i)
      BY <1>10, <3>0
    <3> QED
      BY <1>1, <3>1
  <2> QED
    BY <1>10, <2>1 DEF Injection, IsInjective
<1>12. q \in Surjection(1..n, es)
  BY <1>2, <1>11, FS_Injection
<1> QED
  BY <1>1, <1>10, <1>12 DEF Surjection

LEMMA Product ==
    ASSUME NEW a \in Nat, NEW b \in Nat, NEW c \in Nat, c >= 1
    PROVE  /\ a * c \in Nat
           /\ (a + 1) * c = a * c + c
           /\ a * c < b * c => a < b
           /\ a <= b => a * c <= b * c
  OBVIOUS

LEMMA Quotient ==
    ASSUME NEW a \in Nat, NEW b \in Nat, b >= 1
    PROVE  /\ a \div b \in Nat
           /\ (a \div b) * b <= a
           /\ a < (a \div b) * b + b
  OBVIOUS

LEMMA PushesAre ==
    ASSUME NEW es \in SUBSET Entries, IsFiniteSet(es)
    PROVE  /\ PushBatches(es) \in Seq(Messages)
           /\ \A i \in DOMAIN PushBatches(es) : PushBatches(es)[i].type = "GOSSIP_PUSH"
           /\ Sound(PushBatches(es), es)
           /\ \A e \in es : Pushing(PushBatches(es), e)
<1> DEFINE n == Cardinality(es)
           B == PushBatch
           all == InOrder(es)
           K == (n + B - 1) \div B
           hi(i) == IF i * B < n THEN i * B ELSE n
           lo(i) == (i - 1) * B + 1
           bat(i) == GossipPush(SubSeq(all, lo(i), hi(i)))
<1>1. /\ n \in Nat /\ all \in [1..n -> es] /\ B \in Nat /\ B >= 1
      /\ \A e \in es : \E i \in 1..n : all[i] = e
  BY InOrderIs, SyncerAssumption, NetworksAssumption
<1>2. all \in Seq(es) /\ Len(all) = n
  BY <1>1
<1>3. PushBatches(es) = [i \in 1..K |-> bat(i)]
  BY <1>2 DEF PushBatches
<1>4. K \in Nat /\ n <= K * B
  <2>1. n + B - 1 \in Nat
    BY <1>1
  <2>2. K \in Nat /\ n + B - 1 < K * B + B
    BY <1>1, <2>1, Quotient, Zenon
  <2> HIDE DEF K
  <2>3. K * B \in Nat
    BY <1>1, <2>2, Product
  <2> QED
    BY <1>1, <2>2, <2>3
<1> HIDE DEF n, all, K, B
<1>5. ASSUME NEW i \in 1..K
      PROVE  /\ lo(i) \in Nat /\ lo(i) >= 1 /\ hi(i) \in Nat /\ hi(i) <= n
             /\ i * B \in Nat
  BY <1>1, <1>4, Product
<1>6. ASSUME NEW i \in 1..K
      PROVE  /\ bat(i) = [type |-> "GOSSIP_PUSH", entries |-> SubSeq(all, lo(i), hi(i))]
             /\ SubSeq(all, lo(i), hi(i)) \in Seq(es)
             /\ DOMAIN SubSeq(all, lo(i), hi(i)) = 1..(IF lo(i) <= hi(i) THEN hi(i) - lo(i) + 1 ELSE 0)
             /\ \A j \in 1..hi(i) - lo(i) + 1 : SubSeq(all, lo(i), hi(i))[j] = all[lo(i) + j - 1]
  <2> HIDE DEF lo, hi
  <2>1. \A a, b \in Nat : a >= 1 /\ b <= n =>
          /\ SubSeq(all, a, b) \in Seq(es)
          /\ DOMAIN SubSeq(all, a, b) = 1..(IF a <= b THEN b - a + 1 ELSE 0)
          /\ \A j \in 1..b - a + 1 : SubSeq(all, a, b)[j] = all[a + j - 1]
    BY <1>1, <1>2
  <2> QED
    BY <1>5, <2>1, Zenon DEF GossipPush
<1>7. ASSUME NEW i \in 1..K
      PROVE  /\ bat(i) \in Messages /\ bat(i).type = "GOSSIP_PUSH"
             /\ \A e : Carries(bat(i), e) => e \in es
  <2> HIDE DEF bat, lo, hi
  <2> DEFINE q == SubSeq(all, lo(i), hi(i))
  <2>0. bat(i) = [type |-> "GOSSIP_PUSH", entries |-> q] /\ q \in Seq(es) /\ q \in Seq(Entries)
    BY <1>6
  <2> HIDE DEF q
  <2>1. bat(i).type = "GOSSIP_PUSH" /\ bat(i).entries \in Seq(es)
    BY <2>0
  <2>2. \A e : Carries(bat(i), e) => e \in es
    BY <2>1 DEF Carries
  <2>3. bat(i) \in [type : {"GOSSIP_PUSH"}, entries : Seq(Entries)]
    BY <2>0
  <2> QED
    BY <2>1, <2>2, <2>3 DEF Messages
<1>8. ASSUME NEW e \in es
      PROVE  \E i \in 1..K : Carries(bat(i), e)
  <2>1. PICK h \in 1..n : all[h] = e
    BY <1>1
  <2> DEFINE q == (h - 1) \div B
  <2>2. q \in Nat /\ q * B <= h - 1 /\ h - 1 < q * B + B /\ h \in Nat
    BY <1>1, <2>1, Quotient
  <2> HIDE DEF q
  <2>3. q * B < K * B /\ (q + 1) * B = q * B + B /\ q * B \in Nat
    BY <1>1, <1>4, <2>2, Product
  <2>4. q < K
    BY <1>1, <1>4, <2>2, <2>3, Product
  <2>5. q + 1 \in 1..K
    BY <1>4, <2>2, <2>4
  <2>6. lo(q + 1) = q * B + 1 /\ lo(q + 1) <= h /\ h <= hi(q + 1)
    <3>1. (q + 1) - 1 = q
      BY <2>2
    <3> QED
      BY <1>1, <2>2, <2>3, <3>1
  <2> DEFINE j == h - lo(q + 1) + 1
  <2>7. j \in 1..hi(q + 1) - lo(q + 1) + 1 /\ lo(q + 1) + j - 1 = h /\ lo(q + 1) <= hi(q + 1)
    <3> HIDE DEF lo, hi
    <3> QED
      BY <1>5, <2>2, <2>5, <2>6
  <2> HIDE DEF j, bat, lo, hi
  <2>8. j \in DOMAIN bat(q + 1).entries /\ bat(q + 1).entries[j] = e
    <3>1. bat(q + 1).entries = SubSeq(all, lo(q + 1), hi(q + 1))
      BY <1>6, <2>5
    <3>2. j \in DOMAIN SubSeq(all, lo(q + 1), hi(q + 1))
      BY <1>6, <2>5, <2>7, ZenonT(40)
    <3>3. SubSeq(all, lo(q + 1), hi(q + 1))[j] = all[lo(q + 1) + j - 1]
      BY <1>6, <2>5, <2>7
    <3> QED
      BY <2>1, <2>7, <3>1, <3>2, <3>3, Zenon
  <2>9. bat(q + 1).type = "GOSSIP_PUSH"
    BY <1>6, <2>5
  <2> QED
    BY <2>5, <2>8, <2>9 DEF Carries
<1> HIDE DEF bat
<1>9. /\ DOMAIN PushBatches(es) = 1..K /\ \A i \in 1..K : PushBatches(es)[i] = bat(i)
      /\ PushBatches(es) \in Seq(Messages)
  BY <1>3, <1>4, <1>7
<1> QED
  BY <1>7, <1>8, <1>9 DEF Sound, Pushing

-----------------------------------------------------------------------------
(* handle_push: the entries of a push are stored one by one.               *)

\* A set of numbers has a least one.
LEMMA Least ==
    ASSUME NEW S \in SUBSET Nat, S # {}
    PROVE  \E m \in S : \A n \in S : m <= n
<1>1. PICK m \in S : \A n \in S : ~ (<<n, m>> \in OpToRel(<, Nat))
  BY NatLessThanWellFounded, WFMin, Zenon
<1>2. \A n \in S : ~ (n < m)
  BY <1>1, Zenon DEF OpToRel
<1> QED
  BY <1>2

AreInserted(f, sy, st, es, room, k) ==
    f = [i \in 0..k |-> IF i = 0 THEN Quietly(sy, st) ELSE Insert(f[i - 1], es[i], room)]

LEMMA InsertedExists ==
    ASSUME NEW sy, NEW st, NEW es \in Seq(Entries), NEW room
    PROVE  AreInserted(Inserted(sy, st, es, room), sy, st, es, room, Len(es))
<1> DEFINE Has(k) == \E f : AreInserted(f, sy, st, es, room, k)
           Lacks == {k \in 0..Len(es) : ~Has(k)}
<1>1. Len(es) \in Nat /\ Len(es) \in 0..Len(es)
  OBVIOUS
<1>2. Has(0)
  <2>1. AreInserted([i \in 0..0 |-> Quietly(sy, st)], sy, st, es, room, 0)
    BY DEF AreInserted
  <2> QED
    BY <2>1
<1>3. ASSUME NEW m \in 1..Len(es), Has(m - 1)
      PROVE  Has(m)
  <2>1. PICK f : AreInserted(f, sy, st, es, room, m - 1)
    BY <1>3
  <2> DEFINE g == [n \in 0..m |-> IF n = m THEN Insert(f[m - 1], es[m], room) ELSE f[n]]
  <2>2. m \in Nat /\ m > 0
    BY <1>1
  <2>3. \A n \in 0..m :
            g[n] = IF n = 0 THEN Quietly(sy, st) ELSE Insert(g[n - 1], es[n], room)
    <3>1. \A n \in 0..m - 1 :
              f[n] = IF n = 0 THEN Quietly(sy, st) ELSE Insert(f[n - 1], es[n], room)
      BY <2>1 DEF AreInserted
    <3> QED
      BY <2>2, <3>1
  <2>4. AreInserted(g, sy, st, es, room, m)
    <3>1. g = [n \in 0..m |-> g[n]]
      OBVIOUS
    <3> HIDE DEF g
    <3> QED
      BY <2>3, <3>1, Zenon DEF AreInserted
  <2> QED
    BY <2>4
<1> HIDE DEF Has
<1>4. Has(Len(es))
  <2> SUFFICES ASSUME Lacks # {} PROVE FALSE
    BY <1>1
  <2>1. Lacks \in SUBSET Nat
    BY <1>1
  <2>2. PICK m \in Lacks : \A n \in Lacks : m <= n
    BY <2>1, Least, Zenon
  <2>3. m # 0
    BY <1>2, <2>2
  <2>4. m \in 1..Len(es) /\ m - 1 \in 0..Len(es) /\ m - 1 \notin Lacks
    BY <1>1, <2>2, <2>3
  <2> QED
    BY <1>3, <2>2, <2>4
<1>5. Inserted(sy, st, es, room) = CHOOSE f : AreInserted(f, sy, st, es, room, Len(es))
  BY DEF Inserted, AreInserted
<1> QED
  BY <1>4, <1>5 DEF Has

\* What a store is like: entries, as many as there is room for.
Fits(S, room) == S \in SUBSET Entries /\ IsFiniteSet(S) /\ Cardinality(S) <= room

\* What is known after the first k entries of a push.
Stored(o, sy, st, es, room, k) ==
    /\ DOMAIN o = {"sy", "store", "replies", "ended", "error"}
    /\ o.sy = sy /\ o.replies = <<>> /\ o.ended = {}
    /\ Fits(o.store, room) /\ st \subseteq o.store
    /\ \A e \in o.store : e \in st \/ \E j \in DOMAIN es : es[j] = e
    /\ \/ o.error = "none" /\ \A j \in 1..k : es[j] \in o.store
       \/ o.error = "ResourceLimit" /\ Cardinality(o.store) = room

LEMMA InsertStores ==
    ASSUME NEW sy, NEW st, NEW es \in Seq(Entries), NEW room \in Nat,
           NEW k \in 1..Len(es), NEW o, Stored(o, sy, st, es, room, k - 1)
    PROVE  Stored(Insert(o, es[k], room), sy, st, es, room, k)
<1>1. es[k] \in Entries /\ k \in DOMAIN es /\ \A j \in 1..k : j = k \/ j \in 1..k - 1
  OBVIOUS
<1>2. Cardinality(o.store) \in Nat /\ IsFiniteSet(o.store) /\ Cardinality(o.store) <= room
  BY FS_CardinalityType DEF Stored, Fits
<1>3. CASE o.error # "none" \/ es[k] \in o.store
  BY <1>1, <1>3 DEF Insert, Stored
<1>4. CASE ~(o.error # "none" \/ es[k] \in o.store) /\ Cardinality(o.store) >= room
  BY <1>2, <1>4 DEF Insert, Stored
<1>5. CASE ~(o.error # "none" \/ es[k] \in o.store) /\ ~(Cardinality(o.store) >= room)
  <2>1. Insert(o, es[k], room) = [o EXCEPT !.store = @ \cup {es[k]}]
    BY <1>5 DEF Insert
  <2>2. /\ IsFiniteSet(o.store \cup {es[k]})
        /\ Cardinality(o.store \cup {es[k]}) = Cardinality(o.store) + 1
    BY <1>2, <1>5, FS_AddElement, ZenonT(40)
  <2>3. Fits(o.store \cup {es[k]}, room)
    BY <1>1, <1>2, <1>5, <2>2 DEF Stored, Fits
  <2> QED
    BY <1>1, <1>5, <2>1, <2>3 DEF Stored
<1> QED
  BY <1>3, <1>4, <1>5

LEMMA InsertedIs ==
    ASSUME NEW sy, NEW st, NEW es \in Seq(Entries), NEW room \in Nat, Fits(st, room)
    PROVE  Stored(Inserted(sy, st, es, room)[Len(es)], sy, st, es, room, Len(es))
<1>0. PICK f : f = Inserted(sy, st, es, room) /\ AreInserted(f, sy, st, es, room, Len(es))
  BY InsertedExists
<1> DEFINE Wrong == {k \in 0..Len(es) : ~Stored(f[k], sy, st, es, room, k)}
<1>1. \A k \in 0..Len(es) :
          f[k] = IF k = 0 THEN Quietly(sy, st) ELSE Insert(f[k - 1], es[k], room)
  BY <1>0 DEF AreInserted
<1>2. Stored(f[0], sy, st, es, room, 0)
  <2>1. f[0] = Quietly(sy, st)
    BY <1>1
  <2> QED
    BY <2>1 DEF Stored, Quietly, Outcome
<1>3. SUFFICES ASSUME Wrong # {} PROVE FALSE
  BY <1>0
<1>4. Wrong \in SUBSET Nat
  OBVIOUS
<1>5. PICK m \in Wrong : \A n \in Wrong : m <= n
  BY <1>3, <1>4, Least, Zenon
<1>6. m # 0
  BY <1>2, <1>5
<1>7. m \in 1..Len(es) /\ m - 1 \in 0..Len(es) /\ m - 1 \notin Wrong
  BY <1>5, <1>6
<1> QED
  BY <1>1, <1>5, <1>6, <1>7, InsertStores

-----------------------------------------------------------------------------
(* What handling a message does.                                           *)

LEMMA Fields ==
    ASSUME NEW m \in Messages
    PROVE  /\ m.type \in {"HANDSHAKE", "ERROR", "GOSSIP_PUSH", "RECON_INIT", "RECON_ASK",
                          "RECON_REPLY", "RECON_DONE"}
           /\ m.type = "GOSSIP_PUSH" => m.entries \in Seq(Entries)
           /\ m.type = "RECON_INIT" => m.sid \in Nat /\ m.snap \in SUBSET Entries
           /\ m.type = "RECON_ASK" => m.sid \in Nat /\ m.todo \in SUBSET Entries
           /\ m.type = "RECON_REPLY" =>
                 /\ m.sid \in Nat /\ m.done \in SUBSET Entries
                 /\ m.ids \in SUBSET Entries /\ m.todo \in SUBSET Entries /\ m.missed \in Misses
           /\ m.type = "RECON_DONE" => m.sid \in Nat
  BY Zenon DEF Messages

LEMMA Made ==
    /\ \A sid \in Nat, snap \in SUBSET Entries : ReconInit(sid, snap) \in Messages
    /\ \A sid \in Nat, todo \in SUBSET Entries : ReconAsk(sid, todo) \in Messages
    /\ \A sid \in Nat, done, ids, todo \in SUBSET Entries, missed \in Misses :
          ReconReply(sid, done, ids, todo, missed) \in Messages
    /\ \A sid \in Nat : ReconDone(sid) \in Messages
    /\ ErrorMsg \in Messages /\ Final \in Messages
  BY DEF Messages, ReconInit, ReconAsk, ReconReply, ReconDone, ErrorMsg, Final

LEMMA MissesAre == {} \in Misses /\ \A S, T \in Misses : S \cup T \in Misses
<1>1. CASE FrameLimited
  BY <1>1 DEF Misses
<1>2. CASE ~FrameLimited
  BY <1>2 DEF Misses
<1> QED
  BY <1>1, <1>2

LEMMA ConcatAdds ==
    ASSUME NEW c \in Seq(Messages), NEW w \in Seq(Messages), NEW N,
           \A i \in DOMAIN w : w[i].type \in N
    PROVE  Adds(c \o w, c, N)
  BY DEF Adds

LEMMA ConcatLast ==
    ASSUME NEW c \in Seq(Messages), NEW w \in Seq(Messages), NEW N, NEW m \in Messages,
           \A i \in DOMAIN w : w[i].type \in N
    PROVE  /\ w \o <<m>> \in Seq(Messages)
           /\ AddsLast(c \o (w \o <<m>>), c, N, m)
<1> DEFINE v == w \o <<m>>
<1>1. /\ v \in Seq(Messages) /\ Len(v) = Len(w) + 1 /\ v[Len(w) + 1] = m
      /\ \A i \in 1..Len(w) : v[i] = w[i]
  OBVIOUS
<1> HIDE DEF v
<1> DEFINE b == c \o v
<1>2. /\ b \in Seq(Messages) /\ Len(b) = Len(c) + Len(v)
      /\ \A i \in 1..Len(c) : b[i] = c[i]
      /\ \A i \in 1..Len(v) : b[Len(c) + i] = v[i]
  BY <1>1, Joined, ZenonT(40)
<1> HIDE DEF b
<1>3. \A i \in Len(c) + 1..Len(b) - 1 : b[i].type \in N
  <2> SUFFICES ASSUME NEW i \in Len(c) + 1..Len(b) - 1 PROVE b[i].type \in N
    OBVIOUS
  <2>1. i - Len(c) \in 1..Len(w) /\ i - Len(c) \in 1..Len(v) /\ Len(c) + (i - Len(c)) = i
    BY <1>1, <1>2
  <2>2. b[i] = w[i - Len(c)]
    BY <1>1, <1>2, <2>1, ZenonT(40)
  <2> QED
    BY <2>1, <2>2
<1>4. AddsLast(b, c, N, m)
  BY <1>1, <1>2, <1>3 DEF AddsLast
<1> QED
  BY <1>1, <1>4 DEF b, v

LEMMA ConcatOne ==
    ASSUME NEW c \in Seq(Messages), NEW m \in Messages, NEW N
    PROVE  /\ <<m>> \in Seq(Messages) /\ AddsLast(c \o <<m>>, c, N, m)
           /\ Adds(c \o <<m>>, c, {m.type})
<1>1. PICK w \in Seq(Messages) : w \o <<m>> = <<m>> /\ DOMAIN w = {}
  <2>1. <<>> \in Seq(Messages) /\ <<>> \o <<m>> = <<m>> /\ DOMAIN <<>> = {}
    OBVIOUS
  <2> QED
    BY <2>1, Zenon
<1>2. <<m>> \in Seq(Messages) /\ AddsLast(c \o <<m>>, c, N, m)
  <2>1. w \o <<m>> \in Seq(Messages) /\ AddsLast(c \o (w \o <<m>>), c, N, m)
    BY <1>1, ConcatLast, Zenon
  <2> QED
    BY <1>1, <2>1, Zenon
<1>3. \A i \in DOMAIN <<m>> : <<m>>[i].type \in {m.type}
  OBVIOUS
<1> QED
  BY <1>2, <1>3, ConcatAdds, Zenon

LEMMA StageDomains ==
    ASSUME NEW r, NEW ours, NEW theirs, NEW co, NEW ct, Stage(r, ours, theirs, co, ct)
    PROVE  /\ DOMAIN ours = {} \/ \E s \in Sids(r) : DOMAIN ours = {s}
           /\ DOMAIN theirs = {} \/ \E s \in Sids(r) : DOMAIN theirs = {s}
  BY Zenon DEF Stage, Idle, Closing, Opening, Reopening, Asking, Replying

LEMMA Small ==
    ASSUME NEW S, S = {} \/ \E s : S = {s}
    PROVE  Cardinality(S) \in {0, 1}
  BY FS_EmptySet, FS_Singleton, Zenon

\* When an end handles the first message of c, of which b is the rest, and d
\* is what is on its way from there.
Ready(r, s, S, room, c, p, d, b) ==
    /\ r \in {0, 1} /\ IsSyncer(s, r) /\ Snapped(s, S) /\ room \in Nat /\ Fits(S, room)
    /\ InStep(r, s, c, p, d) /\ Drops(b, c) /\ d \in Seq(Messages)

\* What an outcome without an error keeps and gives.
Handled(r, s, S, room, m, p, d, b, o) ==
    /\ IsSyncer(o.sy, r) /\ Snapped(o.sy, o.store) /\ Fits(o.store, room) /\ S \subseteq o.store
    /\ o.replies \in Seq(Messages) /\ Sound(o.replies, o.store)
    /\ InStep(r, o.sy, b, p, d \o o.replies)
    /\ DOMAIN o.sy.ours = DOMAIN s.ours \ o.ended
    /\ \A e : Carries(m, e) => e \in o.store
    /\ \A e \in o.store : e \in S \/ Carries(m, e)
    /\ \A e : Asked(m, e) => e \in S \/ ToldIn(o.replies, e)

\* What becomes of the sessions of ours: only a reply changes one, and pushes
\* what it shows the peer to lack.
Answered(s, m, d, b, o) ==
    IF m.type # "RECON_REPLY"
    THEN o.sy.ours = s.ours /\ o.sy.missed = s.missed
    ELSE /\ s.missed \subseteq o.sy.missed
         /\ Free(b, Answers) /\ Free(d, Asks)
         /\ \A sid \in DOMAIN o.sy.ours : \A e \in o.sy.ours[sid].pushed :
               \/ sid \in DOMAIN s.ours /\ e \in s.ours[sid].pushed
               \/ Pushing(o.replies, e)
         /\ \A sid \in DOMAIN s.ours : \A e \in s.ours[sid].snap :
               Told(m, e) =>
                  \/ e \in s.ours[sid].pushed
                  \/ Pushing(o.replies, e)
                  \/ e \in o.sy.missed
                  \/ /\ AskedIn(o.replies, e)
                     /\ sid \in DOMAIN o.sy.ours /\ e \in o.sy.ours[sid].snap

LEMMA PushHandled ==
    ASSUME NEW r, NEW s, NEW S, NEW room, NEW c, NEW p, NEW d, NEW b,
           Ready(r, s, S, room, c, p, d, b), c[1].type = "GOSSIP_PUSH",
           NEW o \in HandleMessage(s, S, c[1], room)
    PROVE  /\ DOMAIN o = {"sy", "store", "replies", "ended", "error"}
           /\ \/ /\ o.error = "none"
                 /\ Handled(r, s, S, room, c[1], p, d, b, o) /\ Answered(s, c[1], d, b, o)
              \/ /\ o.error = "ResourceLimit" /\ Cardinality(o.store) = room
                 /\ Fits(o.store, room) /\ S \subseteq o.store /\ InStep(r, s, b, p, d)
<1> DEFINE m == c[1]
<1>1. m \in Messages
  BY DEF Ready, Drops
<1>2. m.entries \in Seq(Entries)
  BY <1>1, Fields
<1>3. o = Inserted(s, S, m.entries, room)[Len(m.entries)]
  BY Zenon DEF HandleMessage, HandlePush
<1> HIDE DEF m
<1>4. Stored(o, s, S, m.entries, room, Len(m.entries))
  BY <1>2, <1>3, InsertedIs, Zenon DEF Ready
<1>5. \A e : Carries(m, e) <=> \E j \in DOMAIN m.entries : m.entries[j] = e
  BY DEF Carries, m
<1>6. \A e : ~Asked(m, e)
  BY Zenon DEF Asked, m
<1>7. InStep(r, s, b, p, d)
  <2>1. c[1].type \notin Answers /\ c[1].type \notin Asks
    BY Zenon DEF Answers, Asks
  <2> QED
    BY <2>1, OtherTakenByOpener, OtherTakenByResponder, ZenonT(40) DEF Ready, InStep
<1>8. CASE o.error = "none"
  <2>1. \A j \in DOMAIN m.entries : m.entries[j] \in o.store
    BY <1>2, <1>4, <1>8 DEF Stored
  <2>2. d \o o.replies = d /\ o.replies \in Seq(Messages) /\ DOMAIN o.replies = {}
    BY <1>4 DEF Stored, Ready
  <2>3. Snapped(o.sy, o.store)
    BY <1>4, Zenon DEF Stored, Ready, Snapped
  <2>4. Sound(o.replies, o.store)
    BY <2>2, Zenon DEF Sound
  <2>5. Handled(r, s, S, room, m, p, d, b, o)
    <3>1. /\ IsSyncer(o.sy, r) /\ Fits(o.store, room) /\ S \subseteq o.store
          /\ o.sy = s /\ o.ended = {}
      BY <1>4, Zenon DEF Stored, Ready
    <3>2. InStep(r, o.sy, b, p, d \o o.replies)
      BY <1>7, <2>2, <3>1, Zenon
    <3>3. /\ \A e : Carries(m, e) => e \in o.store
          /\ \A e \in o.store : e \in S \/ Carries(m, e)
      <4>1. \A e : Carries(m, e) => e \in o.store
        BY <1>5, <2>1, Zenon
      <4>2. \A e \in o.store : e \in S \/ \E j \in DOMAIN m.entries : m.entries[j] = e
        BY <1>4, Zenon DEF Stored
      <4> QED
        BY <1>5, <4>1, <4>2, Zenon
    <3>4. DOMAIN o.sy.ours = DOMAIN s.ours \ o.ended
      BY <3>1, ZenonT(40)
    <3> QED
      BY <1>6, <2>2, <2>3, <2>4, <3>1, <3>2, <3>3, <3>4, Zenon DEF Handled
  <2>6. Answered(s, m, d, b, o)
    BY <1>4 DEF Answered, Stored, m
  <2> QED
    BY <1>4, <1>8, <2>5, <2>6, ZenonT(40) DEF Stored, m
<1> QED
  BY <1>4, <1>7, <1>8, ZenonT(40) DEF Stored

\* A reply of the engine, in a session the peer opened.
IsReply(w, sid, snap, T) ==
    \E done, ids, todo \in SUBSET Entries, missed \in Misses :
        /\ w = ReconReply(sid, done, ids, todo, missed)
        /\ w \in Messages /\ w.type = "RECON_REPLY"
        /\ \A e \in T : e \in snap \/ Told(w, e)

LEMMA RepliesAre ==
    ASSUME NEW sid \in Nat, NEW snap \in SUBSET Entries, NEW T \in SUBSET Entries,
           NEW w \in Replies(sid, snap, T)
    PROVE  IsReply(w, sid, snap, T)
<1>1. PICK q \in Rounds(T) :
        w = ReconReply(sid, q[1], snap \cap q[1], T \ (q[1] \cup q[2]), q[2] \ snap)
  BY Zenon DEF Replies
<1>2. q[1] \in SUBSET T /\ q[2] \in Hidden(T)
  BY <1>1 DEF Rounds
<1> DEFINE done == q[1]
           over == q[2]
           left == T \ (done \cup over)
           missed == over \ snap
<1>3. over \in SUBSET T /\ missed \in Misses
  BY <1>2 DEF Hidden, Misses
<1>4. w = ReconReply(sid, done, snap \cap done, left, missed)
  BY <1>1, Zenon
<1>5. \A e \in T : e \in snap \/ e \in left \/ e \in done \ (snap \cap done) \/ e \in missed
  BY <1>3, Zenon
<1>6. done \in SUBSET Entries /\ left \in SUBSET Entries /\ snap \cap done \in SUBSET Entries
  BY <1>2, Zenon
<1> HIDE DEF done, left, missed
<1>7. w \in Messages /\ w.type = "RECON_REPLY"
  BY <1>3, <1>4, <1>6, Made, Kinds
<1>8. w.todo = left /\ w.done = done /\ w.ids = snap \cap done /\ w.missed = missed
  BY <1>4 DEF ReconReply
<1>9. \A e \in T : e \in snap \/ Told(w, e)
  BY <1>5, <1>7, <1>8, Zenon DEF Told
<1> QED
  BY <1>3, <1>4, <1>6, <1>7, <1>9, ZenonT(40) DEF IsReply

LEMMA InitHandled ==
    ASSUME NEW r, NEW s, NEW S, NEW room, NEW c, NEW p, NEW d, NEW b,
           Ready(r, s, S, room, c, p, d, b), c[1].type = "RECON_INIT",
           NEW o \in HandleMessage(s, S, c[1], room)
    PROVE  /\ DOMAIN o = {"sy", "store", "replies", "ended", "error"}
           /\ o.error = "none"
           /\ Handled(r, s, S, room, c[1], p, d, b, o) /\ Answered(s, c[1], d, b, o)
<1> DEFINE m == c[1]
<1>1. m \in Messages /\ m.type = "RECON_INIT"
  BY DEF Ready, Drops
<1>2. m.sid \in Nat /\ m.snap \in SUBSET Entries
  BY <1>1, Fields
<1>3. PICK sid \in Sids(1 - r) :
        /\ DOMAIN p.ours = {sid} /\ DOMAIN s.theirs = {}
        /\ m = ReconInit(sid, p.ours[sid].snap)
        /\ Free(d, Answers) /\ Free(b, Asks)
  BY InitMet, Zenon DEF Ready, InStep
<1>4. o \in HandleInit(s, S, m)
  BY <1>1 DEF HandleMessage
<1> HIDE DEF m
<1>5. m.sid = sid /\ sid \in Nat /\ sid % 2 # r
  <2>1. m.sid = sid /\ sid \in Nat /\ sid % 2 = 1 - r
    BY <1>3, Kinds, Zenon DEF Sids
  <2> QED
    BY <2>1 DEF Ready
<1>6. CanOpen(s)
  <2>1. DOMAIN s.ours = {} \/ \E t : DOMAIN s.ours = {t}
    BY StageDomains, Zenon DEF Ready, InStep
  <2>2. Cardinality(DOMAIN s.ours) \in {0, 1} /\ Cardinality(DOMAIN s.theirs) = 0
    BY <1>3, <2>1, Small, FS_EmptySet, ZenonT(40)
  <2> QED
    BY <2>2, SyncerAssumption DEF CanOpen, OpenSessions
<1>7. PICK w \in Replies(m.sid, S, Difference(S, m.snap)) :
        o = Outcome([s EXCEPT !.theirs = With(@, m.sid, [snap |-> S])], S, <<w>>, {}, "none")
  BY <1>3, <1>4, <1>5, <1>6, ZenonT(40) DEF HandleInit, Ready, IsSyncer
<1>8. S \in SUBSET Entries /\ Difference(S, m.snap) \in SUBSET Entries
  BY <1>2 DEF Ready, Fits, Difference
<1>9. PICK done, ids, todo \in SUBSET Entries, missed \in Misses :
        /\ w = ReconReply(sid, done, ids, todo, missed)
        /\ w \in Messages /\ w.type = "RECON_REPLY"
        /\ \A e \in Difference(S, m.snap) : e \in S \/ Told(w, e)
  <2>1. w \in Replies(sid, S, Difference(S, m.snap))
    BY <1>5, <1>7, Zenon
  <2>2. IsReply(w, sid, S, Difference(S, m.snap))
    BY <1>5, <1>8, <2>1, RepliesAre
  <2> QED
    BY <2>2, Zenon DEF IsReply
<1>10. /\ DOMAIN o = {"sy", "store", "replies", "ended", "error"}
       /\ o.store = S /\ o.replies = <<w>> /\ o.ended = {} /\ o.error = "none"
       /\ o.sy = [s EXCEPT !.theirs = With(@, m.sid, [snap |-> S])]
  BY <1>7 DEF Outcome
<1>11. /\ DOMAIN o.sy = DOMAIN s /\ o.sy.role = s.role /\ o.sy.next_sid = s.next_sid
       /\ o.sy.missed = s.missed /\ o.sy.ours = s.ours /\ o.sy.theirs = With(s.theirs, sid, [snap |-> S])
  BY <1>5, <1>10, ZenonT(40) DEF Ready, IsSyncer
<1>12. DOMAIN o.sy.theirs = {sid} /\ o.sy.theirs[sid].snap = S
  BY <1>3, <1>11 DEF With
<1>13. o.replies \in Seq(Messages) /\ DOMAIN o.replies = {1} /\ o.replies[1] = w
  BY <1>9, <1>10
<1>14. InStep(r, o.sy, b, p, d \o o.replies)
  <2>1. AddsLast(d \o <<w>>, d, {}, w) /\ Adds(d \o <<w>>, d, {"RECON_REPLY"})
    BY <1>9, ConcatOne, Zenon DEF Ready
  <2>2. Stage(r, o.sy.ours, p.theirs, b, d)
    BY <1>1, <1>11, OtherTakenByOpener, ZenonT(40) DEF Ready, InStep, Answers, m
  <2>3. Stage(r, o.sy.ours, p.theirs, b, d \o <<w>>)
    BY <2>1, <2>2, OtherToResponder, ZenonT(40) DEF Asks
  <2>4. Stage(1 - r, p.ours, o.sy.theirs, d \o <<w>>, b)
    BY <1>3, <1>9, <1>12, <2>1, ReplySent, Zenon
  <2> QED
    BY <1>10, <2>3, <2>4, Zenon DEF InStep
<1>15. \A e : ~Carries(m, e) /\ ~Carries(w, e)
  BY <1>1, <1>9, Zenon DEF Carries
<1>16. \A e : Asked(m, e) => e \in S \/ Told(w, e)
  BY <1>1, <1>9, Zenon DEF Asked, Difference
<1>17. Snapped(o.sy, o.store) /\ IsSyncer(o.sy, r)
  BY <1>10, <1>11, <1>12, ZenonT(40) DEF Snapped, IsSyncer, Ready
<1>18. Sound(o.replies, o.store)
  BY <1>13, <1>15 DEF Sound
<1>19. Handled(r, s, S, room, m, p, d, b, o)
  BY <1>10, <1>11, <1>13, <1>14, <1>15, <1>16, <1>17, <1>18, ZenonT(40) DEF Handled, Ready, ToldIn
<1> QED
  BY <1>1, <1>10, <1>11, <1>19, ZenonT(40) DEF Answered, m

LEMMA AskHandled ==
    ASSUME NEW r, NEW s, NEW S, NEW room, NEW c, NEW p, NEW d, NEW b,
           Ready(r, s, S, room, c, p, d, b), c[1].type = "RECON_ASK",
           NEW o \in HandleMessage(s, S, c[1], room)
    PROVE  /\ DOMAIN o = {"sy", "store", "replies", "ended", "error"}
           /\ o.error = "none"
           /\ Handled(r, s, S, room, c[1], p, d, b, o) /\ Answered(s, c[1], d, b, o)
<1> DEFINE m == c[1]
<1>1. m \in Messages /\ m.type = "RECON_ASK"
  BY DEF Ready, Drops
<1>2. m.sid \in Nat /\ m.todo \in SUBSET Entries
  BY <1>1, Fields, SMTT(30)
<1>3. PICK sid \in Sids(1 - r) :
        /\ DOMAIN p.ours = {sid} /\ DOMAIN s.theirs = {sid} /\ m.sid = sid
        /\ Free(d, Answers) /\ Free(b, Asks)
  BY AskMet, Zenon DEF Ready, InStep
<1>4. o \in HandleAsk(s, S, m)
  BY <1>1 DEF HandleMessage
<1> HIDE DEF m
<1> DEFINE snap == s.theirs[sid].snap
<1>5. PICK w \in Replies(sid, snap, m.todo) : o = Outcome(s, S, <<w>>, {}, "none")
  BY <1>3, <1>4, ZenonT(40) DEF HandleAsk
<1>6. snap \in SUBSET S /\ S \in SUBSET Entries
  BY <1>3 DEF Ready, Fits, Snapped
<1>7. PICK done, ids, todo \in SUBSET Entries, missed \in Misses :
        /\ w = ReconReply(sid, done, ids, todo, missed)
        /\ w \in Messages /\ w.type = "RECON_REPLY"
        /\ \A e \in m.todo : e \in snap \/ Told(w, e)
  <2>1. sid \in Nat /\ snap \in SUBSET Entries
    BY <1>2, <1>3, <1>6, ZenonT(40)
  <2>2. IsReply(w, sid, snap, m.todo)
    BY <1>2, <1>5, <2>1, RepliesAre, ZenonT(40)
  <2> QED
    BY <2>2, Zenon DEF IsReply
<1>8. /\ DOMAIN o = {"sy", "store", "replies", "ended", "error"}
      /\ o.store = S /\ o.replies = <<w>> /\ o.ended = {} /\ o.error = "none" /\ o.sy = s
  BY <1>5, ZenonT(40) DEF Outcome
<1> HIDE DEF snap
<1>9. o.replies \in Seq(Messages) /\ DOMAIN o.replies = {1} /\ o.replies[1] = w
  BY <1>7, <1>8
<1>10. InStep(r, o.sy, b, p, d \o o.replies)
  <2>1. AddsLast(d \o <<w>>, d, {}, w) /\ Adds(d \o <<w>>, d, {"RECON_REPLY"})
    BY <1>7, ConcatOne, ZenonT(40) DEF Ready
  <2>2. Stage(r, s.ours, p.theirs, b, d)
    BY <1>1, OtherTakenByOpener, ZenonT(40) DEF Ready, InStep, Answers, m
  <2>3. Stage(r, s.ours, p.theirs, b, d \o <<w>>)
    BY <2>1, <2>2, OtherToResponder DEF Asks
  <2>4. Stage(1 - r, p.ours, s.theirs, d \o <<w>>, b)
    <3>1. AddsLast(d \o <<w>>, d, {}, ReconReply(sid, done, ids, todo, missed)) /\ {} \cap Answers = {}
      BY <1>7, <2>1, Zenon
    <3> QED
      BY <1>3, <1>7, <3>1, ReplySent, ZenonT(40)
  <2> QED
    BY <1>8, <2>3, <2>4, ZenonT(40) DEF InStep
<1>11. \A e : ~Carries(m, e) /\ ~Carries(w, e)
  BY <1>1, <1>7, Zenon DEF Carries
<1>12. \A e : Asked(m, e) => e \in S \/ Told(w, e)
  BY <1>1, <1>6, <1>7, Zenon DEF Asked
<1>13. Sound(o.replies, o.store)
  BY <1>9, <1>11, Zenon DEF Sound
<1>14. Handled(r, s, S, room, m, p, d, b, o)
  BY <1>8, <1>9, <1>10, <1>11, <1>12, <1>13, Zenon DEF Handled, Ready, ToldIn
<1> QED
  BY <1>1, <1>8, <1>14, ZenonT(40) DEF Answered, m

LEMMA DoneHandled ==
    ASSUME NEW r, NEW s, NEW S, NEW room, NEW c, NEW p, NEW d, NEW b,
           Ready(r, s, S, room, c, p, d, b), c[1].type = "RECON_DONE",
           NEW o \in HandleMessage(s, S, c[1], room)
    PROVE  /\ DOMAIN o = {"sy", "store", "replies", "ended", "error"}
           /\ o.error = "none"
           /\ Handled(r, s, S, room, c[1], p, d, b, o) /\ Answered(s, c[1], d, b, o)
<1> DEFINE m == c[1]
<1>1. m \in Messages /\ m.type = "RECON_DONE"
  BY DEF Ready, Drops
<1>2. o \in HandleDone(s, S, m)
  BY <1>1, Zenon DEF HandleMessage
<1>0. Stage(1 - r, p.ours, s.theirs, d, c) /\ Drops(b, c)
  BY SMTT(30) DEF Ready, InStep
<1>3. DOMAIN s.theirs = {m.sid}
  BY <1>0, <1>1, DoneMet, Zenon
<1>4. o = Quietly([s EXCEPT !.theirs = Less(@, m.sid)], S)
  BY <1>2, <1>3 DEF HandleDone
<1>5. /\ DOMAIN o = {"sy", "store", "replies", "ended", "error"}
      /\ o.store = S /\ o.replies = <<>> /\ o.ended = {} /\ o.error = "none"
      /\ o.sy = [s EXCEPT !.theirs = Less(@, m.sid)]
  BY <1>4 DEF Quietly, Outcome
<1>6. /\ DOMAIN o.sy = DOMAIN s /\ o.sy.role = s.role /\ o.sy.next_sid = s.next_sid
      /\ o.sy.missed = s.missed /\ o.sy.ours = s.ours /\ DOMAIN o.sy.theirs = {}
  BY <1>3, <1>5 DEF Ready, IsSyncer, Less
<1>7. o.replies \in Seq(Messages) /\ DOMAIN o.replies = {} /\ d \o o.replies = d
  BY <1>5 DEF Ready
<1>8. InStep(r, o.sy, b, p, d)
  <2>1. Stage(r, o.sy.ours, p.theirs, b, d)
    BY <1>1, <1>6, OtherTakenByOpener, ZenonT(40) DEF Ready, InStep, Answers
  <2>2. Stage(1 - r, p.ours, o.sy.theirs, d, b)
    BY <1>0, <1>1, <1>6, DoneMet, Zenon
  <2> QED
    BY <2>1, <2>2, ZenonT(40) DEF InStep
<1> HIDE DEF m
<1>9. \A e : ~Carries(m, e) /\ ~Asked(m, e)
  BY <1>1 DEF Carries, Asked
<1>10. Snapped(o.sy, o.store) /\ IsSyncer(o.sy, r) /\ Sound(o.replies, o.store)
  BY <1>5, <1>6, <1>7, ZenonT(40) DEF Snapped, IsSyncer, Ready, Sound
<1>11. Handled(r, s, S, room, m, p, d, b, o)
  BY <1>5, <1>6, <1>7, <1>8, <1>9, <1>10, ZenonT(40) DEF Handled, Ready
<1> QED
  BY <1>1, <1>5, <1>6, <1>11, ZenonT(40) DEF Answered, m

\* What is pushed and sent last in answer to a reply.
LEMMA Pushed ==
    ASSUME NEW have \in SUBSET Entries, IsFiniteSet(have), NEW last \in Messages,
           last.type # "GOSSIP_PUSH", NEW d \in Seq(Messages)
    PROVE  LET w == PushBatches(have) \o <<last>>
           IN  /\ w \in Seq(Messages) /\ Sound(w, have)
               /\ \A e \in have : Pushing(w, e)
               /\ \E i \in DOMAIN w : w[i] = last
               /\ AddsLast(d \o w, d, {"GOSSIP_PUSH"}, last)
               /\ Adds(d \o w, d, {"GOSSIP_PUSH", last.type})
<1>1. PICK q \in Seq(Messages) :
        /\ q = PushBatches(have)
        /\ \A i \in DOMAIN q : q[i].type = "GOSSIP_PUSH"
        /\ Sound(q, have) /\ \A e \in have : Pushing(q, e)
  BY PushesAre, Zenon
<1> DEFINE w == q \o <<last>>
<1>2. AddsLast(d \o w, d, {"GOSSIP_PUSH"}, last) /\ w \in Seq(Messages)
  BY <1>1, ConcatLast
<1>3. Adds(d \o w, d, {"GOSSIP_PUSH", last.type})
  <2> HIDE DEF w
  <2>1. Adds(d \o w, d, {"GOSSIP_PUSH"} \cup {last.type})
    BY <1>2, LastAdds
  <2>2. {"GOSSIP_PUSH"} \cup {last.type} = {"GOSSIP_PUSH", last.type}
    OBVIOUS
  <2> QED
    BY <2>1, <2>2, Zenon
<1>4. /\ DOMAIN w = 1..Len(q) + 1 /\ w[Len(q) + 1] = last /\ Len(q) \in Nat
      /\ \A i \in DOMAIN q : i \in DOMAIN w /\ w[i] = q[i]
      /\ \A i \in DOMAIN w : i \in DOMAIN q \/ i = Len(q) + 1
  BY <1>1
<1> HIDE DEF w
<1>5. \A e : ~Carries(last, e)
  BY Zenon DEF Carries
<1>6. Sound(w, have) /\ \A e \in have : Pushing(w, e)
  BY <1>1, <1>4, <1>5, ZenonT(40) DEF Sound, Pushing
<1>7. \E i \in DOMAIN w : w[i] = last
  BY <1>4, SMTT(30)
<1> QED
  BY <1>1, <1>2, <1>3, <1>6, <1>7, ZenonT(40) DEF w

LEMMA ReplyHandled ==
    ASSUME NEW r, NEW s, NEW S, NEW room, NEW c, NEW p, NEW d, NEW b,
           Ready(r, s, S, room, c, p, d, b), c[1].type = "RECON_REPLY",
           NEW o \in HandleMessage(s, S, c[1], room)
    PROVE  /\ DOMAIN o = {"sy", "store", "replies", "ended", "error"}
           /\ o.error = "none"
           /\ Handled(r, s, S, room, c[1], p, d, b, o) /\ Answered(s, c[1], d, b, o)
<1> DEFINE m == c[1]
<1>1. m \in Messages /\ m.type = "RECON_REPLY"
  BY DEF Ready, Drops
<1>2. /\ m.sid \in Nat /\ m.done \in SUBSET Entries
      /\ m.ids \in SUBSET Entries /\ m.todo \in SUBSET Entries /\ m.missed \in Misses
  BY <1>1, Fields, SMTT(30)
<1>3. PICK sid \in Sids(r) :
        /\ DOMAIN s.ours = {sid} /\ DOMAIN p.theirs = {sid} /\ m.sid = sid
        /\ Free(b, Answers) /\ Free(d, Asks)
  BY ReplyMet, ZenonT(40) DEF Ready, InStep
<1>4. o \in HandleReply(s, S, m)
  BY <1>1, Zenon DEF HandleMessage
<1>5. Stage(1 - r, p.ours, s.theirs, d, b)
  BY <1>1, OtherTakenByResponder, Zenon DEF Ready, InStep, Asks
<1> HIDE DEF m
<1> DEFINE session == s.ours[sid]
           have == Have(session, m)
<1>6. DOMAIN session = {"snap", "pushed"} /\ session.snap \subseteq S
  BY <1>3, Zenon DEF Ready, Snapped
<1>7. have \in SUBSET S /\ have \in SUBSET Entries /\ IsFiniteSet(have) /\ have \subseteq session.snap
  <2>1. have \in SUBSET S /\ have \subseteq session.snap
    BY <1>6, Zenon DEF Have
  <2>2. S \in SUBSET Entries /\ IsFiniteSet(S)
    BY Zenon DEF Ready, Fits
  <2> QED
    BY <2>1, <2>2, FS_Subset, ZenonT(40)
<1> HIDE DEF have, session
<1>8. \A e \in session.snap :
        Told(m, e) => e \in session.pushed \/ e \in have \/ e \in m.todo \/ e \in m.missed
  BY DEF Told, Have, have
<1>9. \A e : ~Carries(m, e) /\ ~Asked(m, e)
  BY <1>1, Zenon DEF Carries, Asked
<1>10. \A w : w \in Seq(Messages) /\ Sound(w, have) => Sound(w, S)
  BY <1>7, Zenon DEF Sound
<1> DEFINE missed == s.missed \cup m.missed
<1>11. missed \in Misses /\ s.missed \subseteq missed /\ m.missed \subseteq missed
  BY <1>2, MissesAre, ZenonT(40) DEF Ready, IsSyncer
<1>12. CASE m.todo # {}
  <2> DEFINE last == ReconAsk(sid, m.todo)
             w == PushBatches(have) \o <<last>>
  <2>1. last \in Messages /\ last.type = "RECON_ASK" /\ last.todo = m.todo
    BY <1>2, <1>3, Made, Kinds, SMTT(30)
  <2> HIDE DEF last
  <2>2. /\ w \in Seq(Messages) /\ Sound(w, have)
        /\ \A e \in have : Pushing(w, e)
        /\ \E i \in DOMAIN w : w[i] = last
        /\ AddsLast(d \o w, d, {"GOSSIP_PUSH"}, last)
        /\ Adds(d \o w, d, {"GOSSIP_PUSH", "RECON_ASK"})
    BY <1>7, <2>1, Pushed, Zenon DEF Ready
  <2>3. o = Outcome([s EXCEPT !.ours[sid].pushed = @ \cup have, !.missed = missed], S, w, {}, "none")
    BY <1>3, <1>4, <1>12, ZenonT(40) DEF HandleReply, have, session, last
  <2> HIDE DEF w
  <2>4. /\ DOMAIN o = {"sy", "store", "replies", "ended", "error"}
        /\ o.store = S /\ o.replies = w /\ o.ended = {} /\ o.error = "none"
        /\ o.sy = [s EXCEPT !.ours[sid].pushed = @ \cup have, !.missed = missed]
    BY <2>3 DEF Outcome
  <2>5. /\ DOMAIN o.sy = DOMAIN s /\ o.sy.role = s.role /\ o.sy.next_sid = s.next_sid
        /\ o.sy.theirs = s.theirs /\ o.sy.missed = missed /\ DOMAIN o.sy.ours = {sid}
        /\ o.sy.ours[sid] = [session EXCEPT !.pushed = @ \cup have]
    BY <1>3, <2>4, ZenonT(40) DEF Ready, IsSyncer, session
  <2>6. /\ DOMAIN o.sy.ours[sid] = {"snap", "pushed"} /\ o.sy.ours[sid].snap = session.snap
        /\ o.sy.ours[sid].pushed = session.pushed \cup have
    BY <1>6, <2>5
  <2>7. InStep(r, o.sy, b, p, d \o w)
    <3>1. Stage(r, o.sy.ours, p.theirs, b, d \o w)
      <4>1. AddsLast(d \o w, d, {"GOSSIP_PUSH"}, ReconAsk(sid, m.todo)) /\ {"GOSSIP_PUSH"} \cap Asks = {}
        BY <2>2 DEF last, Asks
      <4> QED
        BY <1>2, <1>3, <2>5, <4>1, AskSent, ZenonT(40)
    <3>2. Stage(1 - r, p.ours, o.sy.theirs, d \o w, b)
      <4>1. {"GOSSIP_PUSH", "RECON_ASK"} \cap Answers = {}
        BY DEF Answers
      <4> QED
        BY <1>5, <2>2, <2>5, <4>1, OtherToOpener, ZenonT(40)
    <3> QED
      BY <3>1, <3>2 DEF InStep
  <2>8. Snapped(o.sy, o.store) /\ IsSyncer(o.sy, r)
    BY <1>6, <1>11, <2>4, <2>5, <2>6, ZenonT(40) DEF Snapped, IsSyncer, Ready
  <2>9. Handled(r, s, S, room, m, p, d, b, o)
    BY <1>3, <1>9, <1>10, <2>2, <2>4, <2>5, <2>7, <2>8, ZenonT(40) DEF Handled, Ready
  <2>10. \A e \in m.todo : AskedIn(w, e)
    BY <2>1, <2>2 DEF Asked, AskedIn
  <2>11. Answered(s, m, d, b, o)
    BY <1>1, <1>3, <1>8, <1>11, <2>2, <2>4, <2>5, <2>6, <2>10, ZenonT(40) DEF Answered, session
  <2> QED
    BY <2>4, <2>9, <2>11, ZenonT(40) DEF m
<1>13. CASE m.todo = {}
  <2> DEFINE last == ReconDone(sid)
             w == PushBatches(have) \o <<last>>
  <2>1. last \in Messages /\ last.type = "RECON_DONE"
    BY <1>2, <1>3, Made, Kinds, ZenonT(40)
  <2> HIDE DEF last
  <2>2. /\ w \in Seq(Messages) /\ Sound(w, have)
        /\ \A e \in have : Pushing(w, e)
        /\ AddsLast(d \o w, d, {"GOSSIP_PUSH"}, last)
        /\ Adds(d \o w, d, {"GOSSIP_PUSH", "RECON_DONE"})
    BY <1>7, <2>1, Pushed, Zenon DEF Ready
  <2>3. o = Outcome([s EXCEPT !.ours = Less(@, sid), !.missed = missed], S, w, {sid}, "none")
    BY <1>3, <1>4, <1>13, ZenonT(40) DEF HandleReply, have, session, last
  <2> HIDE DEF w
  <2>4. /\ DOMAIN o = {"sy", "store", "replies", "ended", "error"}
        /\ o.store = S /\ o.replies = w /\ o.ended = {sid} /\ o.error = "none"
        /\ o.sy = [s EXCEPT !.ours = Less(@, sid), !.missed = missed]
    BY <2>3 DEF Outcome
  <2>5. /\ DOMAIN o.sy = DOMAIN s /\ o.sy.role = s.role /\ o.sy.next_sid = s.next_sid
        /\ o.sy.theirs = s.theirs /\ o.sy.missed = missed /\ DOMAIN o.sy.ours = {}
    BY <1>3, <2>4, ZenonT(40) DEF Ready, IsSyncer, Less
  <2>6. InStep(r, o.sy, b, p, d \o w)
    <3>1. Stage(r, o.sy.ours, p.theirs, b, d \o w)
      <4>1. AddsLast(d \o w, d, {"GOSSIP_PUSH"}, ReconDone(sid)) /\ {"GOSSIP_PUSH"} \cap Asks = {}
        BY <2>2, Zenon DEF last, Asks
      <4> QED
        BY <1>3, <2>5, <4>1, DoneSent, ZenonT(40)
    <3>2. Stage(1 - r, p.ours, o.sy.theirs, d \o w, b)
      <4>1. {"GOSSIP_PUSH", "RECON_DONE"} \cap Answers = {}
        BY DEF Answers
      <4> QED
        BY <1>5, <2>2, <2>5, <4>1, OtherToOpener, ZenonT(40)
    <3> QED
      BY <3>1, <3>2 DEF InStep
  <2>7. Snapped(o.sy, o.store) /\ IsSyncer(o.sy, r)
    BY <1>11, <2>4, <2>5, ZenonT(40) DEF Snapped, IsSyncer, Ready
  <2>8. Handled(r, s, S, room, m, p, d, b, o)
    BY <1>3, <1>9, <1>10, <2>2, <2>4, <2>5, <2>6, <2>7, ZenonT(40) DEF Handled, Ready
  <2>9. Answered(s, m, d, b, o)
    BY <1>1, <1>3, <1>8, <1>13, <1>11, <2>2, <2>4, <2>5, ZenonT(40) DEF Answered, session
  <2> QED
    BY <2>4, <2>8, <2>9, ZenonT(40) DEF m
<1> QED
  BY <1>12, <1>13, Zenon

LEMMA JoinedType ==
    ASSUME NEW v \in Seq(Messages), NEW w \in Seq(Messages)
    PROVE  v \o w \in Seq(Messages)
  OBVIOUS

LEMMA NothingJoined ==
    ASSUME NEW v \in Seq(Messages)
    PROVE  v \o <<>> = v /\ <<>> \in Seq(Messages) /\ DOMAIN <<>> = {}
  OBVIOUS

LEMMA Singleton ==
    ASSUME NEW m
    PROVE  DOMAIN <<m>> = {1} /\ <<m>>[1] = m
  OBVIOUS

\* All of them together.
LEMMA MessageHandled ==
    ASSUME NEW r, NEW s, NEW S, NEW room, NEW c, NEW p, NEW d, NEW b,
           Ready(r, s, S, room, c, p, d, b), c[1].type \notin {"HANDSHAKE", "ERROR"},
           NEW o \in HandleMessage(s, S, c[1], room)
    PROVE  /\ DOMAIN o = {"sy", "store", "replies", "ended", "error"}
           /\ \/ /\ o.error = "none"
                 /\ Handled(r, s, S, room, c[1], p, d, b, o) /\ Answered(s, c[1], d, b, o)
              \/ /\ o.error = "ResourceLimit" /\ Cardinality(o.store) = room
                 /\ Fits(o.store, room) /\ S \subseteq o.store /\ InStep(r, s, b, p, d)
<1>1. c[1] \in Messages
  BY SMTT(60) DEF Ready, Drops
<1>2. c[1].type \in {"GOSSIP_PUSH", "RECON_INIT", "RECON_ASK", "RECON_REPLY", "RECON_DONE"}
  BY <1>1, Fields, SMTT(30)
<1>3. CASE c[1].type = "GOSSIP_PUSH"
  BY <1>3, PushHandled, ZenonT(40)
<1>4. CASE c[1].type = "RECON_INIT"
  <2>1. /\ DOMAIN o = {"sy", "store", "replies", "ended", "error"} /\ o.error = "none"
        /\ Handled(r, s, S, room, c[1], p, d, b, o) /\ Answered(s, c[1], d, b, o)
    BY <1>4, InitHandled, ZenonT(40)
  <2> QED
    BY <2>1, Zenon
<1>5. CASE c[1].type = "RECON_ASK"
  <2>1. /\ DOMAIN o = {"sy", "store", "replies", "ended", "error"} /\ o.error = "none"
        /\ Handled(r, s, S, room, c[1], p, d, b, o) /\ Answered(s, c[1], d, b, o)
    BY <1>5, AskHandled, ZenonT(40)
  <2> QED
    BY <2>1, Zenon
<1>6. CASE c[1].type = "RECON_REPLY"
  <2>1. /\ DOMAIN o = {"sy", "store", "replies", "ended", "error"} /\ o.error = "none"
        /\ Handled(r, s, S, room, c[1], p, d, b, o) /\ Answered(s, c[1], d, b, o)
    BY <1>6, ReplyHandled, ZenonT(40)
  <2> QED
    BY <2>1, Zenon
<1>7. CASE c[1].type = "RECON_DONE"
  <2>1. /\ DOMAIN o = {"sy", "store", "replies", "ended", "error"} /\ o.error = "none"
        /\ Handled(r, s, S, room, c[1], p, d, b, o) /\ Answered(s, c[1], d, b, o)
    BY <1>7, DoneHandled, ZenonT(40)
  <2> QED
    BY <2>1, Zenon
<1> QED
  BY <1>2, <1>3, <1>4, <1>5, <1>6, <1>7, ZenonT(40)

-----------------------------------------------------------------------------
(* What taking a message from a channel, or adding some, does to what the  *)
(* channel carries.                                                        *)

LEMMA Taken ==
    ASSUME NEW b, NEW c, Drops(b, c)
    PROVE  /\ \A S : Sound(c, S) => Sound(b, S) /\ \A e : Carries(c[1], e) => e \in S
           /\ \A e : Pushing(c, e) => Carries(c[1], e) \/ Pushing(b, e)
           /\ \A e : AskedIn(c, e) => Asked(c[1], e) \/ AskedIn(b, e)
           /\ \A e : ToldIn(c, e) => Told(c[1], e) \/ ToldIn(b, e)
<1>1. /\ DOMAIN b = 1..Len(b) /\ DOMAIN c = 1..Len(b) + 1 /\ Len(b) \in Nat
  BY DEF Drops
<1>2. /\ \A i \in DOMAIN b : i + 1 \in DOMAIN c /\ b[i] = c[i + 1]
      /\ 1 \in DOMAIN c
  BY <1>1 DEF Drops
<1>3. \A i \in DOMAIN c : i = 1 \/ (i - 1 \in DOMAIN b /\ b[i - 1] = c[i])
  <2> SUFFICES ASSUME NEW i \in DOMAIN c, i # 1 PROVE i - 1 \in DOMAIN b /\ b[i - 1] = c[i]
    OBVIOUS
  <2>1. i - 1 \in DOMAIN b /\ (i - 1) + 1 = i
    BY <1>1
  <2> QED
    BY <1>2, <2>1
<1>4. \A S : Sound(c, S) => Sound(b, S) /\ \A e : Carries(c[1], e) => e \in S
  BY <1>2 DEF Sound
<1>5. \A e : Pushing(c, e) => Carries(c[1], e) \/ Pushing(b, e)
  BY <1>3 DEF Pushing
<1>6. \A e : AskedIn(c, e) => Asked(c[1], e) \/ AskedIn(b, e)
  BY <1>3, Zenon DEF AskedIn
<1>7. \A e : ToldIn(c, e) => Told(c[1], e) \/ ToldIn(b, e)
  BY <1>3 DEF ToldIn
<1> QED
  BY <1>4, <1>5, <1>6, <1>7

LEMMA Added ==
    ASSUME NEW c \in Seq(Messages), NEW w \in Seq(Messages)
    PROVE  /\ c \o w \in Seq(Messages)
           /\ \A S : Sound(c, S) /\ Sound(w, S) => Sound(c \o w, S)
           /\ \A e : Pushing(c, e) \/ Pushing(w, e) => Pushing(c \o w, e)
           /\ \A e : AskedIn(c, e) \/ AskedIn(w, e) => AskedIn(c \o w, e)
           /\ \A e : ToldIn(c, e) \/ ToldIn(w, e) => ToldIn(c \o w, e)
<1> DEFINE b == c \o w
<1>1. /\ b \in Seq(Messages) /\ Len(b) = Len(c) + Len(w) /\ DOMAIN b = 1..Len(b)
      /\ DOMAIN c = 1..Len(c) /\ DOMAIN w = 1..Len(w) /\ Len(c) \in Nat /\ Len(w) \in Nat
      /\ \A i \in 1..Len(c) : b[i] = c[i]
      /\ \A i \in 1..Len(w) : b[Len(c) + i] = w[i]
  OBVIOUS
<1> HIDE DEF b
<1>2. \A i \in DOMAIN c : i \in DOMAIN b /\ b[i] = c[i]
  BY <1>1
<1>3. \A i \in DOMAIN w : Len(c) + i \in DOMAIN b /\ b[Len(c) + i] = w[i]
  BY <1>1
<1>4. \A i \in DOMAIN b : \/ i \in DOMAIN c /\ b[i] = c[i]
                          \/ \E j \in DOMAIN w : b[i] = w[j]
  <2> SUFFICES ASSUME NEW i \in DOMAIN b, i \notin DOMAIN c PROVE \E j \in DOMAIN w : b[i] = w[j]
    BY <1>2
  <2>1. i - Len(c) \in DOMAIN w /\ Len(c) + (i - Len(c)) = i
    BY <1>1
  <2> QED
    BY <1>3, <2>1
<1>5. \A S : Sound(c, S) /\ Sound(w, S) => Sound(b, S)
  BY <1>4, Zenon DEF Sound
<1>6. \A e : Pushing(c, e) \/ Pushing(w, e) => Pushing(b, e)
  BY <1>2, <1>3 DEF Pushing
<1>7. \A e : AskedIn(c, e) \/ AskedIn(w, e) => AskedIn(b, e)
  BY <1>2, <1>3 DEF AskedIn
<1>8. \A e : ToldIn(c, e) \/ ToldIn(w, e) => ToldIn(b, e)
  BY <1>2, <1>3 DEF ToldIn
<1> QED
  BY <1>1, <1>5, <1>6, <1>7, <1>8, ZenonT(40) DEF b

LEMMA Regroup ==
    ASSUME NEW c \in Seq(Messages), NEW u \in Seq(Messages), NEW w \in Seq(Messages)
    PROVE  c \o (u \o w) = (c \o u) \o w
  OBVIOUS

LEMMA FreeMeans ==
    ASSUME NEW c
    PROVE  /\ Free(c, Answers) => \A e : ~ToldIn(c, e)
           /\ Free(c, Asks) => \A e : ~AskedIn(c, e)
  BY DEF Free, Answers, Asks, ToldIn, AskedIn, Told, Asked

-----------------------------------------------------------------------------
(* What is pushed, and what is yet to be, as a message is handled.         *)

LEMMA OursArrive ==
    ASSUME NEW r, NEW s, NEW S, NEW room, NEW c, NEW p, NEW d \in Seq(Messages), NEW b, NEW o, NEW P,
           Handled(r, s, S, room, c[1], p, d, b, o), Answered(s, c[1], d, b, o), Arrives(s, d, P)
    PROVE  Arrives(o.sy, d \o o.replies, P)
<1> DEFINE D == d \o o.replies
<1>1. \A e : Pushing(d, e) \/ Pushing(o.replies, e) => Pushing(D, e)
  BY Added, ZenonT(40) DEF Handled
<1> HIDE DEF D
<1>2. ASSUME NEW sid \in DOMAIN o.sy.ours, NEW e \in o.sy.ours[sid].pushed
      PROVE  (sid \in DOMAIN s.ours /\ e \in s.ours[sid].pushed) \/ Pushing(o.replies, e)
  BY <1>2, Zenon DEF Answered
<1>3. Arrives(o.sy, D, P)
  BY <1>1, <1>2, ZenonT(40) DEF Arrives
<1> QED
  BY <1>3, SMTT(30) DEF D

LEMMA TheirsArrive ==
    ASSUME NEW r, NEW s, NEW S, NEW room, NEW c, NEW p, NEW d, NEW b, NEW o,
           Handled(r, s, S, room, c[1], p, d, b, o), Drops(b, c), Arrives(p, c, S)
    PROVE  Arrives(p, b, o.store)
<1>1. /\ \A e : Pushing(c, e) => Carries(c[1], e) \/ Pushing(b, e)
      /\ \A e : Carries(c[1], e) => e \in o.store
      /\ S \subseteq o.store
  BY Taken, Zenon DEF Handled
<1> QED
  BY <1>1, SMTT(30) DEF Arrives

LEMMA OursCovered ==
    ASSUME NEW r, NEW s, NEW S, NEW room, NEW c, NEW p, NEW d \in Seq(Messages), NEW b, NEW o, NEW P,
           Handled(r, s, S, room, c[1], p, d, b, o), Answered(s, c[1], d, b, o), Drops(b, c),
           Sound(c, P), Arrives(s, d, P), Covered(s, c, d, S, P)
    PROVE  Covered(o.sy, b, d \o o.replies, o.store, P)
<1> DEFINE D == d \o o.replies
<1>1. /\ \A e : Pushing(d, e) \/ Pushing(o.replies, e) => Pushing(D, e)
      /\ \A e : AskedIn(d, e) \/ AskedIn(o.replies, e) => AskedIn(D, e)
  BY Added, ZenonT(40) DEF Handled
<1> HIDE DEF D
<1>2. \A e \in o.store : e \in S \/ e \in P
  BY Taken, Zenon DEF Handled
<1>3. \A e : ToldIn(c, e) => Told(c[1], e) \/ ToldIn(b, e)
  BY Taken, SMTT(30)
<1>4. ASSUME NEW e \in S, e \notin P, ~Pushing(D, e), e \notin o.sy.missed
      PROVE  Due(o.sy, b, D, e)
  <2>0. e \notin s.missed
    BY <1>4, ZenonT(40) DEF Answered
  <2>1. Due(s, c, d, e)
    BY <1>1, <1>4, <2>0, ZenonT(40) DEF Covered
  <2>2. PICK sid \in DOMAIN s.ours : e \in s.ours[sid].snap
    BY <2>1, SMTT(30) DEF Due
  <2>3. CASE c[1].type # "RECON_REPLY"
    <3>1. ~Told(c[1], e) /\ o.sy.ours = s.ours
      BY <2>3, ZenonT(40) DEF Told, Answered
    <3> QED
      BY <1>1, <1>3, <2>1, <3>1, ZenonT(40) DEF Due
  <2>4. CASE c[1].type = "RECON_REPLY"
    <3>1. ~ToldIn(b, e) /\ ~AskedIn(d, e)
      BY <2>4, FreeMeans, ZenonT(40) DEF Answered
    <3>2. Told(c[1], e)
      BY <1>3, <2>1, <3>1, ZenonT(40) DEF Due
    <3>3. e \notin s.ours[sid].pushed
      BY <1>1, <1>4, SMTT(30) DEF Arrives
    <3>4. /\ AskedIn(o.replies, e)
          /\ sid \in DOMAIN o.sy.ours /\ e \in o.sy.ours[sid].snap
      BY <1>1, <1>4, <2>2, <2>4, <3>2, <3>3, ZenonT(40) DEF Answered
    <3> QED
      BY <1>1, <3>4, ZenonT(40) DEF Due
  <2> QED
    BY <2>3, <2>4, Zenon
<1>5. Covered(o.sy, b, D, o.store, P)
  BY <1>2, <1>4, Zenon DEF Covered
<1> QED
  BY <1>5, SMTT(30) DEF D

LEMMA TheirsCovered ==
    ASSUME NEW r, NEW s, NEW S, NEW room, NEW c, NEW p, NEW d \in Seq(Messages), NEW b, NEW o, NEW P,
           Handled(r, s, S, room, c[1], p, d, b, o), Drops(b, c), Covered(p, d, c, P, S)
    PROVE  Covered(p, d \o o.replies, b, P, o.store)
<1> DEFINE D == d \o o.replies
<1>1. \A e : ToldIn(d, e) \/ ToldIn(o.replies, e) => ToldIn(D, e)
  BY Added, ZenonT(40) DEF Handled
<1> HIDE DEF D
<1>2. /\ \A e : Pushing(c, e) => e \in o.store \/ Pushing(b, e)
      /\ \A e : AskedIn(c, e) => Asked(c[1], e) \/ AskedIn(b, e)
      /\ S \subseteq o.store
      /\ \A e : Asked(c[1], e) => e \in S \/ ToldIn(o.replies, e)
  BY Taken, ZenonT(40) DEF Handled
<1>3. Covered(p, D, b, P, o.store)
  BY <1>1, <1>2, Zenon DEF Covered, Due
<1> QED
  BY <1>3, SMTT(30) DEF D

-----------------------------------------------------------------------------
(***************************************************************************)
(* A call to onBytes at x: acc is what has come of it, c the messages left *)
(* and p and d the peer and what was on its way there when the call began, *)
(* or those of a peer that is gone.                                        *)
(***************************************************************************)
RoomAt(x) == net.room[NodeOf(x)]

Live(x, acc, c, p, d) ==
    LET S == acc.store
        P == store[NodeOf(Peer(x))]
        D == d \o acc.out
    IN  /\ acc.error = "none" /\ acc.state \in {"handshake", "up"}
        /\ ends[x].state = "up" => acc.state = "up"
        /\ IsSyncer(acc.sy, x[2]) /\ Snapped(acc.sy, S) /\ InStep(x[2], acc.sy, c, p, D)
        /\ DOMAIN acc.sy.ours =
              IF active[x] = None \/ active[x] \in acc.ended THEN {} ELSE {active[x]}
        /\ Sound(c, P)
        /\ Open(ends, Peer(x)) =>
              /\ Arrives(acc.sy, D, P) /\ Arrives(p, c, S)
              /\ acc.state = "up" /\ ~acc.established /\ x \notin pending
                    => Covered(acc.sy, c, D, S, P)
              /\ ends[Peer(x)].state = "up" /\ Peer(x) \notin pending
                    => Covered(p, D, c, P, S)

Shut(x, acc, p, d) ==
    /\ acc.state = "closed" /\ acc.error \in {"none", "ResourceLimit"}
    /\ acc.error = "ResourceLimit" => Cardinality(acc.store) = RoomAt(x)
    /\ \E s, c : c \in Seq(Messages) /\ InStep(x[2], s, c, p, d \o acc.out)

InCall(x, acc, c, p, d) ==
    /\ DOMAIN acc = {"state", "sy", "store", "out", "ended", "established", "error"}
    /\ Fits(acc.store, RoomAt(x)) /\ store[NodeOf(x)] \subseteq acc.store
    /\ acc.out \in Seq(Messages) /\ Sound(acc.out, acc.store)
    /\ Live(x, acc, c, p, d) \/ Shut(x, acc, p, d)

\* What a call begins with, at the peer.
Faces(x, p, d) ==
    /\ d \in Seq(Messages)
    /\ InStep(x[2], ends[x].sy, chan[x], p, d)
    /\ Open(ends, Peer(x)) => p = ends[Peer(x)].sy /\ d = chan[Peer(x)]

LEMMA EndFacts ==
    ASSUME NEW x \in Ends
    PROVE  /\ x[1] \in Links /\ x[2] \in {0, 1} /\ x = <<x[1], x[2]>>
           /\ Peer(x) \in Ends /\ Peer(Peer(x)) = x /\ Peer(x) # x
           /\ Peer(x)[2] = 1 - x[2] /\ 1 - (1 - x[2]) = x[2]
  BY DEF Ends, Peer, Initiator, Responder

LEMMA NodeFacts ==
    ASSUME NEW x \in Ends, net \in Networks
    PROVE  NodeOf(x) \in Nodes /\ RoomAt(x) \in Nat
<1>1. net.topology[x[1]] \in Nodes \X Nodes
  BY EndFacts, NetworksAssumption, ZenonT(40)
<1>2. x[2] + 1 = 1 \/ x[2] + 1 = 2
  BY EndFacts
<1>3. NodeOf(x) \in Nodes
  BY <1>1, <1>2, ZenonT(40) DEF NodeOf
<1> QED
  BY <1>3, NetworksAssumption, Zenon DEF RoomAt

-----------------------------------------------------------------------------
(* One message of a call, by what it is.                                   *)

LEMMA HandshakeTaken ==
    ASSUME NEW x \in Ends, NEW acc, NEW c, NEW b, NEW p, NEW d, d \in Seq(Messages),
           InCall(x, acc, c, p, d), Live(x, acc, c, p, d), Drops(b, c), c[1].type = "HANDSHAKE",
           NEW a \in Body(acc, c[1], RoomAt(x))
    PROVE  InCall(x, a, b, p, d)
<1>1. acc.state # "closed"
  BY Zenon DEF Live
<1>2. a = [acc EXCEPT !.state = "up", !.established = TRUE]
  BY <1>1 DEF Body
<1>3. /\ DOMAIN a = DOMAIN acc /\ a.state = "up" /\ a.established = TRUE /\ a.sy = acc.sy
      /\ a.store = acc.store /\ a.out = acc.out /\ a.ended = acc.ended /\ a.error = acc.error
  BY <1>2, SMTT(30) DEF InCall
<1>4. InStep(x[2], acc.sy, b, p, d \o acc.out)
  <2>1. c[1].type \notin Answers /\ c[1].type \notin Asks
    BY ZenonT(40) DEF Answers, Asks
  <2> QED
    BY <2>1, OtherTakenByOpener, OtherTakenByResponder, ZenonT(40) DEF Live, InStep
<1>5. /\ \A S : Sound(c, S) => Sound(b, S)
      /\ \A e : Pushing(c, e) => Pushing(b, e)
      /\ \A e : AskedIn(c, e) => AskedIn(b, e)
  BY Taken, ZenonT(40) DEF Carries, Asked
<1>6. \A S : Arrives(p, c, S) => Arrives(p, b, S)
  BY <1>5, ZenonT(40) DEF Arrives
<1>7. \A S, P, D : Covered(p, D, c, P, S) => Covered(p, D, b, P, S)
  BY <1>5, ZenonT(40) DEF Covered, Due
<1>8. Live(x, a, b, p, d)
  BY <1>3, <1>4, <1>5, <1>6, <1>7, ZenonT(40) DEF Live
<1> QED
  BY <1>3, <1>8, ZenonT(40) DEF InCall

LEMMA ErrorTaken ==
    ASSUME NEW x \in Ends, NEW acc, NEW c, NEW b, NEW p, NEW d, d \in Seq(Messages),
           \E s0, c0 : c0 \in Seq(Messages) /\ InStep(x[2], s0, c0, p, d),
           InCall(x, acc, c, p, d), Live(x, acc, c, p, d), c[1].type = "ERROR",
           NEW a \in Body(acc, c[1], RoomAt(x))
    PROVE  InCall(x, a, b, p, d)
<1>1. acc.state # "closed"
  BY Zenon DEF Live
<1>2. a = [acc EXCEPT !.state = "closed", !.out = <<>>]
  BY <1>1 DEF Body
<1>3. /\ DOMAIN a = DOMAIN acc /\ a.state = "closed" /\ a.out = <<>>
      /\ a.store = acc.store /\ a.error = acc.error
  BY <1>2, SMTT(30) DEF InCall
<1>4. d \o a.out = d /\ a.out \in Seq(Messages) /\ DOMAIN a.out = {}
  BY <1>3, NothingJoined, Zenon
<1>5. Shut(x, a, p, d)
  BY <1>3, <1>4, ZenonT(40) DEF Shut, Live
<1> QED
  BY <1>3, <1>4, <1>5, ZenonT(40) DEF InCall, Sound

LEMMA BeReady ==
    ASSUME NEW x \in Ends, NEW acc, NEW c, NEW b, NEW p, NEW d, d \in Seq(Messages),
           net \in Networks,
           InCall(x, acc, c, p, d), Live(x, acc, c, p, d), Drops(b, c)
    PROVE  /\ Ready(x[2], acc.sy, acc.store, RoomAt(x), c, p, d \o acc.out, b)
           /\ d \o acc.out \in Seq(Messages)
<1>1. d \o acc.out \in Seq(Messages)
  <2>1. acc.out \in Seq(Messages)
    BY ZenonT(40) DEF InCall
  <2> QED
    BY <2>1, JoinedType, Zenon
<1> QED
  BY <1>1, EndFacts, NodeFacts, ZenonT(40) DEF Ready, InCall, Live

LEMMA MessageTaken ==
    ASSUME NEW x \in Ends, NEW acc, NEW c, NEW b, NEW p, NEW d, d \in Seq(Messages),
           net \in Networks,
           InCall(x, acc, c, p, d), Live(x, acc, c, p, d), Drops(b, c),
           c[1].type \notin {"HANDSHAKE", "ERROR"},
           NEW a \in Body(acc, c[1], RoomAt(x))
    PROVE  InCall(x, a, b, p, d)
<1> DEFINE m == c[1]
           D == d \o acc.out
           room == RoomAt(x)
           P == store[NodeOf(Peer(x))]
<1>1. acc.state # "closed" /\ acc.state \in {"handshake", "up"}
  BY ZenonT(40) DEF Live
<1>2. PICK o \in HandleMessage(acc.sy, acc.store, m, room) :
        a = [acc EXCEPT !.sy = o.sy,
                        !.store = o.store,
                        !.state = IF o.error = "none" THEN @ ELSE "closed",
                        !.out = @ \o (IF o.error = "none" THEN o.replies ELSE <<ErrorMsg>>),
                        !.ended = @ \cup o.ended,
                        !.error = o.error]
  BY <1>1, ZenonT(40) DEF Body
<1>3. Ready(x[2], acc.sy, acc.store, room, c, p, D, b) /\ D \in Seq(Messages)
  BY BeReady, Zenon
<1>4. /\ DOMAIN a = DOMAIN acc /\ a.sy = o.sy /\ a.store = o.store
      /\ a.state = (IF o.error = "none" THEN acc.state ELSE "closed")
      /\ a.out = acc.out \o (IF o.error = "none" THEN o.replies ELSE <<ErrorMsg>>)
      /\ a.ended = acc.ended \cup o.ended /\ a.error = o.error
      /\ a.established = acc.established
  BY <1>2, Zenon DEF InCall
<1>5. \/ /\ o.error = "none"
         /\ Handled(x[2], acc.sy, acc.store, room, m, p, D, b, o) /\ Answered(acc.sy, m, D, b, o)
      \/ /\ o.error = "ResourceLimit" /\ Cardinality(o.store) = room
         /\ Fits(o.store, room) /\ acc.store \subseteq o.store
         /\ InStep(x[2], acc.sy, b, p, D)
  BY <1>2, <1>3, MessageHandled, ZenonT(40)
<1>6. acc.out \in Seq(Messages)
  BY ZenonT(40) DEF InCall
<1> HIDE DEF room
<1>7. CASE /\ o.error = "none"
           /\ Handled(x[2], acc.sy, acc.store, room, m, p, D, b, o)
           /\ Answered(acc.sy, m, D, b, o)
  <2>1. /\ a.out = acc.out \o o.replies /\ o.replies \in Seq(Messages)
        /\ a.out \in Seq(Messages) /\ a.error = "none" /\ a.state = acc.state
    <3>1. o.replies \in Seq(Messages)
      BY <1>7, ZenonT(40) DEF Handled
    <3>2. a.out = acc.out \o o.replies /\ a.error = "none" /\ a.state = acc.state
      BY <1>4, <1>7, ZenonT(40)
    <3>3. acc.out \o o.replies \in Seq(Messages)
      BY <1>6, <3>1, JoinedType, Zenon
    <3> QED
      BY <3>1, <3>2, <3>3, Zenon
  <2>2. d \o a.out = D \o o.replies
    <3>1. d \o (acc.out \o o.replies) = (d \o acc.out) \o o.replies
      BY <1>6, <2>1, Regroup, ZenonT(40)
    <3> QED
      BY <2>1, <3>1, Zenon
  <2>3. Fits(a.store, room) /\ store[NodeOf(x)] \subseteq a.store /\ acc.store \subseteq a.store
    BY <1>4, <1>7, ZenonT(40) DEF Handled, InCall
  <2>4. Sound(a.out, a.store)
    <3>1. Sound(acc.out, a.store)
      BY <2>3, ZenonT(40) DEF InCall, Sound
    <3>2. Sound(o.replies, a.store)
      BY <1>4, <1>7, ZenonT(40) DEF Handled
    <3> QED
      BY <1>6, <2>1, <3>1, <3>2, Added, ZenonT(40)
  <2>5. /\ IsSyncer(a.sy, x[2]) /\ Snapped(a.sy, a.store)
        /\ InStep(x[2], a.sy, b, p, d \o a.out)
    BY <1>4, <1>7, <2>2, ZenonT(40) DEF Handled
  <2>6. DOMAIN a.sy.ours = IF active[x] = None \/ active[x] \in a.ended THEN {} ELSE {active[x]}
    <3>1. DOMAIN a.sy.ours = DOMAIN acc.sy.ours \ o.ended /\ a.ended = acc.ended \cup o.ended
      BY <1>4, <1>7, ZenonT(40) DEF Handled
    <3> QED
      BY <3>1, ZenonT(40) DEF Live
  <2>7. Sound(b, P) /\ Sound(c, P)
    BY Taken, ZenonT(40) DEF Live
  <2> HIDE DEF D, P, m
  <2>8. ASSUME Open(ends, Peer(x))
        PROVE  /\ Arrives(a.sy, d \o a.out, P) /\ Arrives(p, b, a.store)
               /\ a.state = "up" /\ ~a.established /\ x \notin pending
                     => Covered(a.sy, b, d \o a.out, a.store, P)
               /\ ends[Peer(x)].state = "up" /\ Peer(x) \notin pending
                     => Covered(p, d \o a.out, b, P, a.store)
    <3>1. /\ Arrives(acc.sy, D, P) /\ Arrives(p, c, acc.store)
          /\ acc.state = "up" /\ ~acc.established /\ x \notin pending
                => Covered(acc.sy, c, D, acc.store, P)
          /\ ends[Peer(x)].state = "up" /\ Peer(x) \notin pending
                => Covered(p, D, c, P, acc.store)
      BY <2>8, ZenonT(40) DEF Live, D, P
    <3>2. Arrives(o.sy, D \o o.replies, P)
      BY <1>3, <1>7, <3>1, OursArrive, ZenonT(40) DEF m
    <3>3. Arrives(p, b, o.store)
      BY <1>7, <3>1, TheirsArrive, ZenonT(40) DEF m
    <3>4. Covered(acc.sy, c, D, acc.store, P) => Covered(o.sy, b, D \o o.replies, o.store, P)
      BY <1>3, <1>7, <2>7, <3>1, OursCovered, ZenonT(40) DEF m
    <3>5. Covered(p, D, c, P, acc.store) => Covered(p, D \o o.replies, b, P, o.store)
      BY <1>3, <1>7, TheirsCovered, ZenonT(40) DEF m
    <3> QED
      BY <1>4, <2>1, <2>2, <3>1, <3>2, <3>3, <3>4, <3>5, ZenonT(40)
  <2>9. Live(x, a, b, p, d)
    BY <1>1, <2>1, <2>5, <2>6, <2>7, <2>8, ZenonT(40) DEF Live, P
  <2> QED
    BY <1>4, <2>1, <2>3, <2>4, <2>9, ZenonT(40) DEF InCall, room
<1>8. CASE /\ o.error = "ResourceLimit" /\ Cardinality(o.store) = room
           /\ Fits(o.store, room) /\ acc.store \subseteq o.store
           /\ InStep(x[2], acc.sy, b, p, D)
  <2> DEFINE w == <<ErrorMsg>>
  <2>1. /\ a.out = acc.out \o w /\ a.error = "ResourceLimit" /\ a.state = "closed"
    BY <1>4, <1>8, ZenonT(40)
  <2>2. w \in Seq(Messages) /\ ErrorMsg.type = "ERROR" /\ Adds(D \o w, D, {"ERROR"})
    <3>1. ErrorMsg \in Messages /\ ErrorMsg.type = "ERROR"
      BY Made, Zenon DEF ErrorMsg
    <3> QED
      BY <1>3, <3>1, ConcatOne, ZenonT(40)
  <2>3. DOMAIN w = {1} /\ w[1] = ErrorMsg
    BY Singleton, Zenon
  <2>4. Sound(w, a.store)
    BY <2>2, <2>3 DEF Sound, Carries
  <2> HIDE DEF w
  <2>5. d \o a.out = D \o w /\ a.out \in Seq(Messages)
    <3>1. d \o (acc.out \o w) = (d \o acc.out) \o w
      BY <1>6, <2>2, Regroup, ZenonT(40)
    <3>2. a.out \in Seq(Messages)
      BY <1>6, <2>1, <2>2, JoinedType, Zenon
    <3> QED
      BY <2>1, <3>1, <3>2, ZenonT(40)
  <2>6. InStep(x[2], acc.sy, b, p, D \o w)
    <3>1. {"ERROR"} \cap Asks = {} /\ {"ERROR"} \cap Answers = {}
      BY Zenon DEF Asks, Answers
    <3> QED
      BY <1>8, <2>2, <3>1, OtherToOpener, OtherToResponder, ZenonT(40) DEF InStep
  <2>7. b \in Seq(Messages)
    BY Zenon DEF Drops
  <2>8. Shut(x, a, p, d)
    BY <1>4, <1>8, <2>1, <2>5, <2>6, <2>7, ZenonT(40) DEF Shut, room
  <2>9. Sound(a.out, a.store)
    <3>1. Sound(acc.out, a.store)
      BY <1>4, <1>8, ZenonT(40) DEF InCall, Sound
    <3> QED
      BY <1>6, <2>1, <2>2, <2>4, <3>1, Added, ZenonT(40)
  <2> QED
    BY <1>4, <1>8, <2>5, <2>8, <2>9, ZenonT(40) DEF InCall, room
<1> QED
  BY <1>5, <1>7, <1>8, ZenonT(40)

LEMMA BodyTaken ==
    ASSUME NEW x \in Ends, NEW acc, NEW c, NEW b, NEW p, NEW d, d \in Seq(Messages),
           net \in Networks,
           \E s0, c0 : c0 \in Seq(Messages) /\ InStep(x[2], s0, c0, p, d),
           InCall(x, acc, c, p, d), Drops(b, c),
           NEW a \in Body(acc, c[1], RoomAt(x))
    PROVE  InCall(x, a, b, p, d)
<1>1. CASE Live(x, acc, c, p, d)
  BY <1>1, HandshakeTaken, ErrorTaken, MessageTaken, ZenonT(40)
<1>2. CASE Shut(x, acc, p, d)
  <2>1. a = acc
    BY <1>2 DEF Body, Shut
  <2> QED
    BY <1>2, <2>1, Zenon DEF InCall
<1> QED
  BY <1>1, <1>2, ZenonT(40) DEF InCall

-----------------------------------------------------------------------------
(* All the messages of a call.                                             *)

Rest(c, k) == SubSeq(c, k + 1, Len(c))

LEMMA RestFacts ==
    ASSUME NEW c \in Seq(Messages)
    PROVE  /\ Rest(c, 0) = c
           /\ \A k \in 0..Len(c) : Rest(c, k) \in Seq(Messages)
           /\ \A k \in 1..Len(c) : Drops(Rest(c, k), Rest(c, k - 1)) /\ Rest(c, k - 1)[1] = c[k]
<1>1. Rest(c, 0) = c
  BY DEF Rest
<1>2. \A k \in 0..Len(c) :
        /\ Rest(c, k) \in Seq(Messages) /\ Len(Rest(c, k)) = Len(c) - k
        /\ \A i \in 1..Len(c) - k : Rest(c, k)[i] = c[k + i]
  BY SMTT(30) DEF Rest
<1>3. ASSUME NEW k \in 1..Len(c)
      PROVE  Drops(Rest(c, k), Rest(c, k - 1)) /\ Rest(c, k - 1)[1] = c[k]
  <2>1. k \in 0..Len(c) /\ k - 1 \in 0..Len(c) /\ Len(c) \in Nat
    OBVIOUS
  <2> DEFINE u == Rest(c, k)
             v == Rest(c, k - 1)
  <2>2. /\ u \in Seq(Messages) /\ Len(u) = Len(c) - k
        /\ \A i \in 1..Len(c) - k : u[i] = c[k + i]
    BY <1>2, <2>1, ZenonT(40)
  <2>3. /\ v \in Seq(Messages) /\ Len(v) = Len(c) - (k - 1)
        /\ \A i \in 1..Len(c) - (k - 1) : v[i] = c[(k - 1) + i]
    BY <1>2, <2>1, Zenon
  <2> HIDE DEF u, v
  <2>4. v[1] = c[k]
    <3>1. 1 \in 1..Len(c) - (k - 1) /\ (k - 1) + 1 = k
      BY <2>1
    <3> QED
      BY <2>3, <3>1, ZenonT(40)
  <2>5. \A i \in 1..Len(u) : u[i] = v[i + 1]
    <3> SUFFICES ASSUME NEW i \in 1..Len(u) PROVE u[i] = v[i + 1]
      OBVIOUS
    <3>1. i \in 1..Len(c) - k /\ i + 1 \in 1..Len(c) - (k - 1) /\ (k - 1) + (i + 1) = k + i
      BY <2>1, <2>2
    <3> QED
      BY <2>2, <2>3, <3>1, ZenonT(40)
  <2> QED
    BY <2>1, <2>2, <2>3, <2>4, <2>5, SMTT(30) DEF Drops, u, v
<1> QED
  BY <1>1, <1>2, <1>3, ZenonT(40)

Onto(x, i, F) == UNION {Body(acc, chan[x][i], net.room[NodeOf(x)]) : acc \in F}

AreBodies(f, x, k) ==
    f = [i \in 0..k |-> IF i = 0 THEN {Begun(x)} ELSE Onto(x, i, f[i - 1])]

LEMMA BodiesExist ==
    ASSUME NEW x, chan[x] \in Seq(Messages)
    PROVE  AreBodies(Bodies(x), x, Len(chan[x]))
<1> DEFINE Has(k) == \E f : AreBodies(f, x, k)
           Lacks == {k \in 0..Len(chan[x]) : ~Has(k)}
<1>1. Len(chan[x]) \in Nat /\ Len(chan[x]) \in 0..Len(chan[x])
  OBVIOUS
<1>2. Has(0)
  <2>1. AreBodies([i \in 0..0 |-> {Begun(x)}], x, 0)
    BY DEF AreBodies
  <2> QED
    BY <2>1
<1>3. ASSUME NEW m \in 1..Len(chan[x]), Has(m - 1)
      PROVE  Has(m)
  <2>1. PICK f : AreBodies(f, x, m - 1)
    BY <1>3
  <2>2. m \in Nat /\ m > 0
    BY <1>1
  <2>3. \A n \in 0..m - 1 : f[n] = IF n = 0 THEN {Begun(x)} ELSE Onto(x, n, f[n - 1])
    BY <2>1, Zenon DEF AreBodies
  <2> DEFINE g == [n \in 0..m |-> IF n = m THEN Onto(x, m, f[m - 1]) ELSE f[n]]
  <2>4. \A n \in 0..m : g[n] = IF n = 0 THEN {Begun(x)} ELSE Onto(x, n, g[n - 1])
    <3> SUFFICES ASSUME NEW n \in 0..m
                 PROVE  g[n] = IF n = 0 THEN {Begun(x)} ELSE Onto(x, n, g[n - 1])
      OBVIOUS
    <3>1. CASE n = m
      <4>1. g[n] = Onto(x, m, f[m - 1]) /\ n # 0 /\ m - 1 \in 0..m /\ m - 1 # m
        BY <2>2, <3>1
      <4>2. g[m - 1] = f[m - 1]
        BY <4>1
      <4> QED
        BY <3>1, <4>1, <4>2, Zenon
    <3>2. CASE n # m
      <4>1. n \in 0..m - 1 /\ g[n] = f[n]
        BY <2>2, <3>2
      <4>2. n # 0 => g[n - 1] = f[n - 1]
        <5>1. n # 0 => n - 1 \in 0..m /\ n - 1 # m
          BY <2>2, <4>1
        <5> QED
          BY <5>1
      <4> QED
        BY <2>3, <4>1, <4>2, Zenon
    <3> QED
      BY <3>1, <3>2
  <2>5. AreBodies(g, x, m)
    <3>1. g = [n \in 0..m |-> g[n]]
      OBVIOUS
    <3> HIDE DEF g
    <3>2. g = [n \in 0..m |-> IF n = 0 THEN {Begun(x)} ELSE Onto(x, n, g[n - 1])]
      BY <2>4, <3>1, Zenon
    <3> QED
      BY <3>2, Zenon DEF AreBodies
  <2> QED
    BY <2>5
<1> HIDE DEF Has
<1>4. Has(Len(chan[x]))
  <2> SUFFICES ASSUME Lacks # {} PROVE FALSE
    BY <1>1
  <2>1. Lacks \in SUBSET Nat
    BY <1>1
  <2>2. PICK m \in Lacks : \A n \in Lacks : m <= n
    BY <2>1, Least, Zenon
  <2>3. m # 0
    BY <1>2, <2>2
  <2>4. m \in 1..Len(chan[x]) /\ m - 1 \in 0..Len(chan[x]) /\ m - 1 \notin Lacks
    BY <1>1, <2>2, <2>3
  <2> QED
    BY <1>3, <2>2, <2>4, ZenonT(40)
<1>5. Bodies(x) = CHOOSE f : AreBodies(f, x, Len(chan[x]))
  BY SMTT(30) DEF Bodies, AreBodies, Onto
<1> QED
  BY <1>4, <1>5, ZenonT(40) DEF Has

LEMMA CallBegins ==
    ASSUME MeshInv, NEW x \in Ends, Open(ends, x), NEW p, NEW d, Faces(x, p, d)
    PROVE  InCall(x, Begun(x), chan[x], p, d)
<1> DEFINE a == Begun(x)
<1>1. /\ DOMAIN a = {"state", "sy", "store", "out", "ended", "established", "error"}
      /\ a.state = ends[x].state /\ a.sy = ends[x].sy /\ a.store = store[NodeOf(x)]
      /\ a.out = <<>> /\ a.ended = {} /\ a.established = FALSE /\ a.error = "none"
  BY ZenonT(40) DEF Begun
<1> HIDE DEF a
<1>2. a.out \in Seq(Messages) /\ DOMAIN a.out = {} /\ d \o a.out = d
  BY <1>1, SMTT(60) DEF Faces
<1>3. /\ EndInv(ends, chan, active, x) /\ DataInv(store, ends, chan, pending, x)
      /\ DataInv(store, ends, chan, pending, Peer(x))
  BY EndFacts DEF MeshInv, LinksInv
<1>4. Fits(a.store, RoomAt(x)) /\ Sound(a.out, a.store)
  <2>1. NodeOf(x) \in Nodes
    BY NodeFacts, Zenon DEF MeshInv
  <2> QED
    BY <1>1, <1>2, <2>1, ZenonT(40) DEF MeshInv, StoreInv, Fits, Sound, RoomAt
<1>5. Peer(Peer(x)) = x
  BY EndFacts, SMTT(30)
<1>6. Live(x, a, chan[x], p, d)
  <2>1. /\ a.error = "none" /\ a.state \in {"handshake", "up"} /\ IsSyncer(a.sy, x[2])
        /\ InStep(x[2], a.sy, chan[x], p, d)
        /\ DOMAIN a.sy.ours =
              IF active[x] = None \/ active[x] \in a.ended THEN {} ELSE {active[x]}
    BY <1>1, <1>3, ZenonT(40) DEF Open, EndInv, Faces
  <2>2. Snapped(a.sy, a.store) /\ Sound(chan[x], store[NodeOf(Peer(x))])
    BY <1>1, <1>3, ZenonT(40) DEF DataInv
  <2>3. ASSUME Open(ends, Peer(x))
        PROVE  LET P == store[NodeOf(Peer(x))]
               IN  /\ Arrives(a.sy, d, P) /\ Arrives(p, chan[x], a.store)
                   /\ a.state = "up" /\ ~a.established /\ x \notin pending
                         => Covered(a.sy, chan[x], d, a.store, P)
                   /\ ends[Peer(x)].state = "up" /\ Peer(x) \notin pending
                         => Covered(p, d, chan[x], P, a.store)
    BY <1>1, <1>3, <1>5, <2>3, ZenonT(40) DEF DataInv, Faces
  <2> QED
    BY <1>1, <1>2, <2>1, <2>2, <2>3, ZenonT(40) DEF Live
<1> QED
  BY <1>1, <1>2, <1>4, <1>6, ZenonT(40) DEF InCall, a

LEMMA CallRuns ==
    ASSUME MeshInv, NEW x \in Ends, Open(ends, x), NEW p, NEW d, Faces(x, p, d),
           NEW k \in 0..Len(chan[x]), NEW acc \in Bodies(x)[k]
    PROVE  InCall(x, acc, Rest(chan[x], k), p, d)
<1>1. chan[x] \in Seq(Messages) /\ net \in Networks
  BY ZenonT(40) DEF MeshInv, LinksInv, EndInv
<1>2. PICK f : f = Bodies(x) /\ AreBodies(f, x, Len(chan[x]))
  BY <1>1, BodiesExist, Zenon
<1> DEFINE c == chan[x]
           Good(i) == \A a \in f[i] : InCall(x, a, Rest(c, i), p, d)
           Bad == {i \in 0..Len(c) : ~Good(i)}
<1>3. \A i \in 0..Len(c) :
        f[i] = IF i = 0 THEN {Begun(x)} ELSE Onto(x, i, f[i - 1])
  BY <1>2, Zenon DEF AreBodies
<1>4. c \in Seq(Messages) /\ Len(c) \in Nat
  BY <1>1, Within, Zenon
<1>5. Good(0)
  <2>1. f[0] = {Begun(x)}
    BY <1>1, <1>3, Within, ZenonT(40)
  <2>2. Rest(c, 0) = c
    BY <1>4, RestFacts, ZenonT(40)
  <2> QED
    BY <2>1, <2>2, CallBegins, ZenonT(40)
<1>6. ASSUME NEW i \in 1..Len(c), Good(i - 1)
      PROVE  Good(i)
  <2> SUFFICES ASSUME NEW a \in f[i] PROVE InCall(x, a, Rest(c, i), p, d)
    BY ZenonT(40)
  <2>1. i \in 0..Len(c) /\ i # 0
    BY <1>1, Within, ZenonT(40)
  <2>2. PICK b \in f[i - 1] : a \in Body(b, c[i], RoomAt(x))
    <3>1. a \in Onto(x, i, f[i - 1])
      BY <1>3, <2>1, ZenonT(40)
    <3> QED
      BY <3>1, Zenon DEF Onto, RoomAt
  <2>3. Drops(Rest(c, i), Rest(c, i - 1)) /\ Rest(c, i - 1)[1] = c[i]
    BY <1>4, RestFacts, ZenonT(40)
  <2>4. InCall(x, b, Rest(c, i - 1), p, d)
    BY <1>6, <2>2, ZenonT(40)
  <2>5. d \in Seq(Messages) /\ \E s0, c0 : c0 \in Seq(Messages) /\ InStep(x[2], s0, c0, p, d)
    BY <1>1, ZenonT(40) DEF Faces
  <2>6. a \in Body(b, Rest(c, i - 1)[1], RoomAt(x))
    BY <2>2, <2>3, ZenonT(40)
  <2> QED
    BY <1>1, <2>3, <2>4, <2>5, <2>6, BodyTaken, ZenonT(40)
<1> HIDE DEF Good, c
<1>7. Bad = {}
  <2> SUFFICES ASSUME Bad # {} PROVE FALSE
    BY Zenon
  <2>1. Bad \in SUBSET Nat
    BY <1>4
  <2>2. PICK m \in Bad : \A n \in Bad : m <= n
    BY <2>1, Least, Zenon
  <2>3. m # 0
    BY <1>5, <2>2, ZenonT(40)
  <2>4. m \in 1..Len(c) /\ m - 1 \in 0..Len(c) /\ m - 1 \notin Bad
    BY <1>4, <2>2, <2>3
  <2> QED
    BY <1>6, <2>2, <2>4, ZenonT(40)
<1> QED
  BY <1>2, <1>7, ZenonT(40) DEF Good, c
=============================================================================
