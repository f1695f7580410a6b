----------------------------- MODULE MeshProofs -----------------------------
(***************************************************************************)
(* The invariants of module Mesh, for every network, number of entries and *)
(* interleaving.                                                           *)
(***************************************************************************)
EXTENDS SyncProofs

-----------------------------------------------------------------------------
(* Small facts the steps below rest on.                                    *)

LEMMA OtherRole ==
    ASSUME NEW r \in {0, 1}
    PROVE  1 - r # r
  OBVIOUS

LEMMA Squeezed ==
    ASSUME NEW a \in Nat, NEW b \in Nat, a <= b, NEW m, a = m, b <= m
    PROVE  b = m
  OBVIOUS

LEMMA OneMoreFits ==
    ASSUME NEW a \in Nat, NEW m \in Nat, a < m
    PROVE  a + 1 <= m
  OBVIOUS

\* With no session, and nothing on its way, all is at the peer, but for what the
\* last session passed over.
LEMMA NothingDue ==
    ASSUME NEW s, NEW S, NEW P, DOMAIN s.ours = {}, Covered(s, <<>>, <<>>, S, P)
    PROVE  S \ P \subseteq s.missed
  BY DEF Covered, Pushing, Due

-----------------------------------------------------------------------------
(* Starting the sessions that are due.                                     *)

\* s, with role r, is left alone or opens a session on the store S, and the
\* channel d from there becomes d2.
Opens(r, s, s2, d, d2, S) ==
    \/ s2 = s /\ d2 = d
    \/ \E sid \in Sids(r) :
          /\ DOMAIN s.ours = {} /\ DOMAIN s2.ours = {sid}
          /\ s2.ours[sid] = [snap |-> S, pushed |-> {}]
          /\ s2.theirs = s.theirs
          /\ AddsLast(d2, d, {}, ReconInit(sid, s2.ours[sid].snap))

LEMMA OneOpens ==
    ASSUME NEW r, NEW s, NEW s2, NEW c, NEW p, NEW d, NEW d2, NEW S,
           InStep(r, s, c, p, d), Opens(r, s, s2, d, d2, S)
    PROVE  InStep(r, s2, c, p, d2)
<1>1. CASE s2 = s /\ d2 = d
  BY <1>1
<1>2. CASE \E sid \in Sids(r) :
          /\ DOMAIN s.ours = {} /\ DOMAIN s2.ours = {sid}
          /\ s2.ours[sid] = [snap |-> S, pushed |-> {}]
          /\ s2.theirs = s.theirs
          /\ AddsLast(d2, d, {}, ReconInit(sid, s2.ours[sid].snap))
  <2>1. PICK sid \in Sids(r) :
          /\ DOMAIN s.ours = {} /\ DOMAIN s2.ours = {sid}
          /\ s2.ours[sid] = [snap |-> S, pushed |-> {}]
          /\ s2.theirs = s.theirs
          /\ AddsLast(d2, d, {}, ReconInit(sid, s2.ours[sid].snap))
    BY <1>2
  <2>2. Stage(r, s2.ours, p.theirs, c, d2)
    <3>1. {} \cap Asks = {}
      OBVIOUS
    <3> QED
      BY <2>1, <3>1, InitSent, Zenon DEF InStep
  <2>3. Stage(1 - r, p.ours, s2.theirs, d2, c)
    <3>1. Adds(d2, d, {} \cup {"RECON_INIT"})
      BY <2>1, LastAdds, Kinds
    <3>2. ({} \cup {"RECON_INIT"}) \cap Answers = {}
      BY DEF Answers
    <3> QED
      BY <2>1, <3>1, <3>2, OtherToOpener, ZenonT(40) DEF InStep
  <2> QED
    BY <2>2, <2>3 DEF InStep
<1> QED
  BY <1>1, <1>2 DEF Opens

LEMMA Turned ==
    ASSUME NEW r \in {0, 1}, NEW s, NEW c, NEW p, NEW d
    PROVE  InStep(r, s, c, p, d) <=> InStep(1 - r, p, d, s, c)
<1>1. 1 - (1 - r) = r
  OBVIOUS
<1> QED
  BY <1>1 DEF InStep

\* What a channel that has got the first message of a session carries.
LEMMA InitCarries ==
    ASSUME NEW c, NEW b, NEW sid, NEW snap, AddsLast(b, c, {}, ReconInit(sid, snap))
    PROVE  /\ \A S : Sound(c, S) => Sound(b, S)
           /\ \A e : Pushing(c, e) => Pushing(b, e)
           /\ \A e : AskedIn(c, e) => AskedIn(b, e)
           /\ \A e : ToldIn(c, e) => ToldIn(b, e)
           /\ \A e \in snap : AskedIn(b, e)
<1>1. /\ DOMAIN b = 1..Len(b) /\ DOMAIN c = 1..Len(c) /\ Len(b) \in Nat /\ Len(c) \in Nat
      /\ Len(b) = Len(c) + 1
      /\ \A i \in 1..Len(c) : b[i] = c[i]
      /\ b[Len(b)] = ReconInit(sid, snap)
  BY DEF AddsLast
<1>2. /\ \A i \in DOMAIN c : i \in DOMAIN b /\ b[i] = c[i]
      /\ \A i \in DOMAIN b : i = Len(b) \/ i \in DOMAIN c
      /\ Len(b) \in DOMAIN b
  BY <1>1
<1>3. \A e : ~Carries(b[Len(b)], e)
  BY <1>1, Kinds DEF Carries
<1>4. \A e \in snap : Asked(b[Len(b)], e)
  BY <1>1, Kinds DEF Asked
<1>5. \A S : Sound(c, S) => Sound(b, S)
  BY <1>2, <1>3 DEF Sound
<1>6. \A e : Pushing(c, e) => Pushing(b, e)
  BY <1>2 DEF Pushing
<1>7. \A e : AskedIn(c, e) => AskedIn(b, e)
  BY <1>2 DEF AskedIn
<1>8. \A e : ToldIn(c, e) => ToldIn(b, e)
  BY <1>2 DEF ToldIn
<1>9. \A e \in snap : AskedIn(b, e)
  BY <1>2, <1>4, ZenonT(40) DEF AskedIn
<1> QED
  BY <1>5, <1>6, <1>7, <1>8, <1>9, ZenonT(40)

LEMMA OpensCarries ==
    ASSUME NEW r, NEW s, NEW s2, NEW d, NEW d2, NEW S, Opens(r, s, s2, d, d2, S)
    PROVE  /\ \A T : Sound(d, T) => Sound(d2, T)
           /\ \A e : Pushing(d, e) => Pushing(d2, e)
           /\ \A e : AskedIn(d, e) => AskedIn(d2, e)
           /\ \A e : ToldIn(d, e) => ToldIn(d2, e)
           /\ s2 # s => \A e \in S : AskedIn(d2, e)
  BY InitCarries DEF Opens

\* One end of a link, when its sessions and its peer's have been started.
LEMMA OpensData ==
    ASSUME NEW r, NEW q, NEW s, NEW s2, NEW c, NEW c2, NEW p, NEW p2, NEW d, NEW d2,
           NEW S, NEW P, Opens(r, s, s2, d, d2, S), Opens(q, p, p2, c, c2, P)
    PROVE  /\ Snapped(s, S) => Snapped(s2, S)
           /\ Sound(c, P) => Sound(c2, P)
           /\ Arrives(s, d, P) => Arrives(s2, d2, P)
           /\ s2 # s \/ Covered(s, c, d, S, P) => Covered(s2, c2, d2, S, P)
<1>1. /\ \A T : Sound(c, T) => Sound(c2, T)
      /\ \A e : ToldIn(c, e) => ToldIn(c2, e)
  BY OpensCarries
<1>2. /\ \A e : Pushing(d, e) => Pushing(d2, e)
      /\ \A e : AskedIn(d, e) => AskedIn(d2, e)
      /\ s2 # s => \A e \in S : AskedIn(d2, e)
  BY OpensCarries
<1>3. CASE s2 = s
  <2>1. Snapped(s, S) => Snapped(s2, S)
    BY <1>3
  <2>2. Arrives(s, d, P) => Arrives(s2, d2, P)
    BY <1>2, <1>3, ZenonT(40) DEF Arrives
  <2>3. Covered(s, c, d, S, P) => Covered(s2, c2, d2, S, P)
    BY <1>1, <1>2, <1>3, ZenonT(40) DEF Covered, Due
  <2> QED
    BY <1>1, <1>3, <2>1, <2>2, <2>3, ZenonT(40)
<1>4. CASE s2 # s
  <2>1. PICK sid \in Sids(r) :
          /\ DOMAIN s2.ours = {sid} /\ s2.ours[sid] = [snap |-> S, pushed |-> {}]
          /\ s2.theirs = s.theirs
    BY <1>4, Zenon DEF Opens
  <2>2. /\ DOMAIN s2.ours[sid] = {"snap", "pushed"}
        /\ s2.ours[sid].snap = S /\ s2.ours[sid].pushed = {}
    BY <2>1
  <2>3. Snapped(s, S) => Snapped(s2, S)
    BY <2>1, <2>2 DEF Snapped
  <2>4. Arrives(s2, d2, P)
    BY <2>1, <2>2 DEF Arrives
  <2>5. Covered(s2, c2, d2, S, P)
    BY <1>2, <1>4, <2>1, <2>2, ZenonT(40) DEF Covered, Due
  <2> QED
    BY <1>1, <2>3, <2>4, <2>5, ZenonT(40)
<1> QED
  BY <1>3, <1>4, ZenonT(40)

LEMMA OpensSnapped ==
    ASSUME NEW r, NEW s, NEW s2, NEW d, NEW d2, NEW S, Opens(r, s, s2, d, d2, S), Snapped(s, S)
    PROVE  Snapped(s2, S)
  BY OpensData

LEMMA OpensSound ==
    ASSUME NEW r, NEW s, NEW s2, NEW d, NEW d2, NEW S, NEW T,
           Opens(r, s, s2, d, d2, S), Sound(d, T)
    PROVE  Sound(d2, T)
  BY OpensCarries

LEMMA OpensArrives ==
    ASSUME NEW r, NEW s, NEW s2, NEW d, NEW d2, NEW S, NEW P,
           Opens(r, s, s2, d, d2, S), Arrives(s, d, P)
    PROVE  Arrives(s2, d2, P)
<1>1. Opens(r, s, s, d, d, P)
  BY DEF Opens
<1> QED
  BY <1>1, OpensData

LEMMA OpensCovered ==
    ASSUME NEW r, NEW s, NEW s2, NEW c, NEW d, NEW d2, NEW S, NEW P,
           Opens(r, s, s2, d, d2, S), s2 # s \/ Covered(s, c, d, S, P)
    PROVE  Covered(s2, c, d2, S, P)
<1>1. Opens(r, s, s, c, c, P)
  BY DEF Opens
<1> QED
  BY <1>1, OpensData

LEMMA PeerOpensCovered ==
    ASSUME NEW q, NEW s, NEW c, NEW c2, NEW p, NEW p2, NEW d, NEW S, NEW P,
           Opens(q, p, p2, c, c2, P), Covered(s, c, d, S, P)
    PROVE  Covered(s, c2, d, S, P)
<1>1. Opens(q, s, s, d, d, S)
  BY DEF Opens
<1> QED
  BY <1>1, OpensData

-----------------------------------------------------------------------------
\* What Drain finds.
Before(n, st, es, ch, pend, act) ==
    /\ net \in Networks /\ n \in Nodes /\ StoreInv(st) /\ LinksInv(st, es, ch, pend, act)
    /\ \A x \in pend : x \in Ends /\ es[x].state = "up" /\ (NodeOf(x) # n => act[x] # None)

LEMMA SessionOpens ==
    ASSUME NEW r \in {0, 1}, NEW s, IsSyncer(s, r), DOMAIN s.ours = {}, NEW S \in SUBSET Entries
    PROVE  LET s2 == OpenSession(s, S)
           IN  /\ IsSyncer(s2, r) /\ s2 # s
               /\ s.next_sid \in Nat /\ DOMAIN s2.ours = {s.next_sid}
               /\ ReconInit(s.next_sid, S) \in Messages
               /\ \A d \in Seq(Messages) :
                     Opens(r, s, s2, d, Append(d, ReconInit(s.next_sid, S)), S)
<1> DEFINE s2 == OpenSession(s, S)
           sid == s.next_sid
           m == ReconInit(sid, S)
<1>1. sid \in Sids(r) /\ sid \in Nat /\ sid + 2 \in Sids(r)
  BY DEF IsSyncer, Sids
<1>2. /\ DOMAIN s2 = DOMAIN s /\ s2.role = s.role /\ s2.theirs = s.theirs
      /\ s2.next_sid = sid + 2 /\ s2.missed = {} /\ s2.ours = With(s.ours, sid, [snap |-> S, pushed |-> {}])
  BY DEF OpenSession, IsSyncer
<1> HIDE DEF s2
<1>3. DOMAIN s2.ours = {sid} /\ s2.ours[sid] = [snap |-> S, pushed |-> {}]
  BY <1>2 DEF With
<1>4. m \in Messages /\ s2.ours[sid].snap = S
  BY <1>1, <1>3, Made
<1>5. IsSyncer(s2, r) /\ s2 # s
  BY <1>1, <1>2, <1>3, MissesAre, ZenonT(40) DEF IsSyncer
<1> HIDE DEF m
<1>6. ASSUME NEW d \in Seq(Messages)
      PROVE  AddsLast(Append(d, m), d, {}, m)
  BY <1>4 DEF AddsLast
<1>7. \A d \in Seq(Messages) : Opens(r, s, s2, d, Append(d, m), S)
  BY <1>1, <1>2, <1>3, <1>4, <1>6, Zenon DEF Opens, m
<1> QED
  BY <1>1, <1>3, <1>4, <1>5, <1>7, ZenonT(40) DEF s2, m

\* What Drain does to the end x and to what is on its way from it to its peer y.
Starts(n, st, es, ch, pend, act, x, y) ==
    /\ ends'[x].state = es[x].state /\ DOMAIN ends'[x] = {"state", "sy"}
    /\ IsSyncer(ends'[x].sy, x[2])
    /\ \/ /\ ends'[x].sy = es[x].sy /\ chan'[y] = ch[y] /\ active'[x] = act[x]
          /\ x \in pending' <=> x \in pend
       \/ /\ ends'[x].sy # es[x].sy /\ es[x].state = "up" /\ x \notin pending'
          /\ NodeOf(x) = n /\ active'[x] \in Nat /\ DOMAIN ends'[x].sy.ours = {active'[x]}
          /\ IF es[y].state = "closed"
             THEN chan'[y] = ch[y]
             ELSE Opens(x[2], es[x].sy, ends'[x].sy, ch[y], chan'[y], st[NodeOf(x)])
          /\ \A d \in Seq(Messages) : \E d2 \in Seq(Messages) :
                Opens(x[2], es[x].sy, ends'[x].sy, d, d2, st[NodeOf(x)])
    /\ x \in pending' => active'[x] # None

LEMMA Started ==
    ASSUME NEW n, NEW st, NEW es, NEW ch, NEW pend, NEW act,
           Before(n, st, es, ch, pend, act), Drain(n, st, es, ch, pend, act),
           NEW x \in Ends, NEW y \in Ends, y = Peer(x)
    PROVE  Starts(n, st, es, ch, pend, act, x, y)
<1> DEFINE go == Startable(n, es, pend, act)
<1>1. Peer(y) = x /\ x[2] \in {0, 1}
  BY EndFacts, ZenonT(40)
<1>2. /\ EndInv(es, ch, act, x) /\ EndInv(es, ch, act, y) /\ StepInv(es, ch, x)
  BY <1>1 DEF Before, LinksInv
<1>3. /\ ends'[x] = IF x \in go THEN [es[x] EXCEPT !.sy = OpenSession(@, st[n])] ELSE es[x]
      /\ chan'[y] = IF x \in go /\ es[y].state # "closed"
                    THEN Append(ch[y], ReconInit(es[x].sy.next_sid, st[n])) ELSE ch[y]
      /\ pending' = pend \ go
      /\ active'[x] = IF x \in go THEN es[x].sy.next_sid ELSE act[x]
  BY <1>1, ZenonT(40) DEF Drain
<1>4. DOMAIN es[x] = {"state", "sy"} /\ IsSyncer(es[x].sy, x[2])
  BY <1>2 DEF EndInv
<1>5. CASE x \notin go
  <2>1. x \in pend => act[x] # None
    <3> SUFFICES ASSUME x \in pend, act[x] = None PROVE FALSE
      OBVIOUS
    <3>1. NodeOf(x) = n /\ es[x].state = "up"
      BY DEF Before
    <3>2. \E p, d : InStep(x[2], es[x].sy, ch[x], p, d)
      BY <1>2, <3>1, ZenonT(40) DEF StepInv, Open
    <3>3. DOMAIN es[x].sy.ours = {}
      BY <1>2, ZenonT(40) DEF EndInv
    <3>4. DOMAIN es[x].sy.theirs = {} \/ \E t : DOMAIN es[x].sy.theirs = {t}
      BY <3>2, StageDomains, Zenon DEF InStep
    <3>5. Cardinality(DOMAIN es[x].sy.ours) = 0 /\ Cardinality(DOMAIN es[x].sy.theirs) \in {0, 1}
      BY <3>3, <3>4, Small, FS_EmptySet, ZenonT(40)
    <3>6. CanOpen(es[x].sy)
      BY <3>5, SyncerAssumption, SMTT(30) DEF CanOpen, OpenSessions
    <3> QED
      BY <1>5, <3>1, <3>6, ZenonT(40) DEF Startable
  <2> QED
    BY <1>3, <1>4, <1>5, <2>1, ZenonT(40) DEF Starts
<1>6. CASE x \in go
  <2>1. NodeOf(x) = n /\ act[x] = None /\ es[x].state = "up"
    BY <1>6, ZenonT(40) DEF Startable
  <2>2. DOMAIN es[x].sy.ours = {}
    BY <1>2, <2>1, ZenonT(40) DEF EndInv
  <2>3. st[n] \in SUBSET Entries
    BY DEF Before, StoreInv
  <2> DEFINE s == es[x].sy
             s2 == OpenSession(s, st[n])
             m == ReconInit(s.next_sid, st[n])
  <2>4. /\ IsSyncer(s2, x[2]) /\ s2 # s /\ s.next_sid \in Nat /\ DOMAIN s2.ours = {s.next_sid}
        /\ m \in Messages
        /\ \A d \in Seq(Messages) : Opens(x[2], s, s2, d, Append(d, m), st[n])
    BY <1>1, <1>4, <2>2, <2>3, SessionOpens, ZenonT(40)
  <2>5. ends'[x].sy = s2 /\ ends'[x].state = es[x].state /\ DOMAIN ends'[x] = {"state", "sy"}
    BY <1>3, <1>4, <1>6, ZenonT(40)
  <2>6. active'[x] = s.next_sid /\ x \notin pending'
    BY <1>3, <1>6, ZenonT(40)
  <2>7. chan'[y] = IF es[y].state # "closed" THEN Append(ch[y], m) ELSE ch[y]
    BY <1>3, <1>6, ZenonT(40)
  <2> HIDE DEF s2, m
  <2>8. ch[y] \in Seq(Messages)
    BY <1>2 DEF EndInv
  <2>9. \A d \in Seq(Messages) : Append(d, m) \in Seq(Messages)
    BY <2>4
  <2>10. \A d \in Seq(Messages) : \E d2 \in Seq(Messages) :
           Opens(x[2], s, s2, d, d2, st[n])
    BY <2>4, <2>9, Zenon
  <2>11. IF es[y].state = "closed"
         THEN chan'[y] = ch[y]
         ELSE Opens(x[2], s, s2, ch[y], chan'[y], st[n])
    BY <2>4, <2>7, <2>8, ZenonT(40)
  <2> QED
    BY <2>1, <2>4, <2>5, <2>6, <2>10, <2>11, ZenonT(40) DEF Starts
<1> QED
  BY <1>5, <1>6, ZenonT(40)

\* The same in the terms of Opens.
Drains(st, es, ch, pend, x, y) ==
    /\ es[y].state = "closed" => chan'[y] = ch[y]
    /\ es[y].state # "closed" =>
          Opens(x[2], es[x].sy, ends'[x].sy, ch[y], chan'[y], st[NodeOf(x)])
    /\ \A d \in Seq(Messages) : \E d2 \in Seq(Messages) :
          Opens(x[2], es[x].sy, ends'[x].sy, d, d2, st[NodeOf(x)])
    /\ ends'[x].sy # es[x].sy => es[x].state = "up" /\ x \notin pending'
    /\ ends'[x].sy = es[x].sy => chan'[y] = ch[y] /\ (x \in pending' <=> x \in pend)
    /\ ends'[x].state = es[x].state

LEMMA LinkDrained ==
    ASSUME NEW n, NEW st, NEW es, NEW ch, NEW pend, NEW act,
           Before(n, st, es, ch, pend, act), Drain(n, st, es, ch, pend, act),
           NEW x \in Ends, NEW y \in Ends, y = Peer(x)
    PROVE  Drains(st, es, ch, pend, x, y)
<1>1. Starts(n, st, es, ch, pend, act, x, y)
  BY Started, ZenonT(40)
<1>2. CASE ends'[x].sy = es[x].sy
  BY <1>1, <1>2, ZenonT(40) DEF Starts, Drains, Opens
<1>3. CASE ends'[x].sy # es[x].sy
  BY <1>1, <1>3, ZenonT(40) DEF Starts, Drains
<1> QED
  BY <1>2, <1>3

LEMMA EndDrained ==
    ASSUME NEW n, NEW st, NEW es, NEW ch, NEW pend, NEW act,
           Before(n, st, es, ch, pend, act), Drain(n, st, es, ch, pend, act), NEW x \in Ends
    PROVE  EndInv(ends', chan', active', x)
<1> DEFINE y == Peer(x)
<1>1. y \in Ends /\ Peer(y) = x
  BY EndFacts
<1>2. EndInv(es, ch, act, x) /\ EndInv(es, ch, act, y)
  BY <1>1, ZenonT(40) DEF Before, LinksInv
<1> DEFINE Fate(u, v) == Starts(n, st, es, ch, pend, act, u, v) /\ Drains(st, es, ch, pend, u, v)
<1>0. Fate(x, y) /\ Fate(y, x)
  BY <1>1, Started, LinkDrained, ZenonT(40)
<1>3. /\ ends'[x].state = es[x].state /\ DOMAIN ends'[x] = {"state", "sy"}
      /\ IsSyncer(ends'[x].sy, x[2]) /\ ends'[y].state = es[y].state
  BY <1>0, ZenonT(40) DEF Starts
<1>4. /\ active'[x] \in {None} \cup Nat
      /\ DOMAIN ends'[x].sy.ours = IF active'[x] = None THEN {} ELSE {active'[x]}
  <2>1. CASE ends'[x].sy = es[x].sy /\ active'[x] = act[x]
    BY <1>2, <2>1, ZenonT(40) DEF EndInv
  <2>2. CASE active'[x] \in Nat /\ DOMAIN ends'[x].sy.ours = {active'[x]}
    BY <2>2 DEF None
  <2> QED
    BY <1>0, <2>1, <2>2, ZenonT(40) DEF Starts
<1>5. chan'[x] \in Seq(Messages) /\ (~Open(es, x) => chan'[x] = ch[x])
  <2>1. CASE es[x].state = "closed" \/ (ends'[y].sy = es[y].sy /\ chan'[x] = ch[x])
    <3>1. chan'[x] = ch[x]
      BY <1>0, <1>1, <2>1, ZenonT(40) DEF Drains
    <3> QED
      BY <1>2, <3>1, ZenonT(40) DEF EndInv
  <2>2. CASE es[x].state # "closed" /\ ends'[y].sy # es[y].sy
    <3>1. Opens(y[2], es[y].sy, ends'[y].sy, ch[x], chan'[x], st[NodeOf(y)])
      BY <1>0, <1>1, <2>2, ZenonT(40) DEF Drains
    <3>2. chan'[x] \in Seq(Messages)
      BY <2>2, <3>1, ZenonT(40) DEF Opens, AddsLast
    <3>3. es[y].state = "up"
      BY <1>0, <1>1, <2>2, ZenonT(40) DEF Drains
    <3>4. Open(es, x)
      BY <1>1, <1>2, <2>2, <3>3, ZenonT(40) DEF EndInv, Open
    <3> QED
      BY <3>2, <3>4, ZenonT(40)
  <2>3. CASE ends'[y].sy = es[y].sy /\ chan'[x] # ch[x]
    BY <1>0, <2>3, ZenonT(40) DEF Drains
  <2> QED
    BY <2>1, <2>2, <2>3, ZenonT(40)
<1>6. ~Open(ends', x) => ends'[x].sy = NewSyncer(x[2]) /\ chan'[x] = <<>>
  <2> SUFFICES ASSUME ~Open(es, x) PROVE ends'[x].sy = NewSyncer(x[2]) /\ chan'[x] = <<>>
    BY <1>3, ZenonT(40) DEF Open
  <2>1. ends'[x].sy = es[x].sy
    BY <1>0, ZenonT(40) DEF Drains, Open
  <2> QED
    BY <1>2, <1>5, <2>1, ZenonT(40) DEF EndInv
<1> QED
  BY <1>2, <1>3, <1>4, <1>5, <1>6, ZenonT(40) DEF EndInv

LEMMA StepDrained ==
    ASSUME NEW n, NEW st, NEW es, NEW ch, NEW pend, NEW act,
           Before(n, st, es, ch, pend, act), Drain(n, st, es, ch, pend, act), NEW x \in Ends
    PROVE  StepInv(ends', chan', x)
<1> DEFINE y == Peer(x)
<1>1. y \in Ends /\ Peer(y) = x /\ y[2] = 1 - x[2] /\ x[2] \in {0, 1}
  BY EndFacts, ZenonT(40)
<1>0. Drains(st, es, ch, pend, x, y) /\ Drains(st, es, ch, pend, y, x)
  BY <1>1, LinkDrained, ZenonT(40)
<1>2. ends'[x].state = es[x].state /\ ends'[y].state = es[y].state /\ StepInv(es, ch, x)
  BY <1>0, <1>1, ZenonT(40) DEF Before, LinksInv, Drains
<1>3. SUFFICES ASSUME Open(es, x)
               PROVE  IF Open(es, y)
                      THEN InStep(x[2], ends'[x].sy, chan'[x], ends'[y].sy, chan'[y])
                      ELSE \E p, d : d \in Seq(Messages) /\ InStep(x[2], ends'[x].sy, chan'[x], p, d)
  BY <1>2, ZenonT(40) DEF StepInv, Open
<1>4. es[x].state # "closed"
  BY <1>3, ZenonT(40) DEF Open
<1>5. Opens(1 - x[2], es[y].sy, ends'[y].sy, ch[x], chan'[x], st[NodeOf(y)])
  <2>1. Opens(y[2], es[y].sy, ends'[y].sy, ch[x], chan'[x], st[NodeOf(y)])
    BY <1>0, <1>4, ZenonT(40) DEF Drains
  <2> QED
    BY <1>1, <2>1, ZenonT(40)
<1>6. CASE Open(es, y)
  <2>1. InStep(x[2], es[x].sy, ch[x], es[y].sy, ch[y])
    BY <1>2, <1>3, <1>6, ZenonT(40) DEF StepInv
  <2>2. Opens(x[2], es[x].sy, ends'[x].sy, ch[y], chan'[y], st[NodeOf(x)])
    BY <1>0, <1>6, ZenonT(40) DEF Drains, Open
  <2> QED
    <3>1. InStep(x[2], ends'[x].sy, ch[x], es[y].sy, chan'[y])
      BY <2>1, <2>2, OneOpens, ZenonT(40)
    <3>2. InStep(1 - x[2], es[y].sy, chan'[y], ends'[x].sy, ch[x])
      BY <1>1, <3>1, Turned, ZenonT(40)
    <3>3. InStep(1 - x[2], ends'[y].sy, chan'[y], ends'[x].sy, chan'[x])
      BY <1>5, <3>2, OneOpens, ZenonT(40)
    <3>4. InStep(x[2], ends'[x].sy, chan'[x], ends'[y].sy, chan'[y])
      BY <1>1, <3>3, Turned, ZenonT(40)
    <3> QED
      BY <1>6, <3>4, ZenonT(40)
<1>7. CASE ~Open(es, y)
  <2>1. PICK p, d : d \in Seq(Messages) /\ InStep(x[2], es[x].sy, ch[x], p, d)
    BY <1>2, <1>3, <1>7, ZenonT(40) DEF StepInv
  <2>2. PICK d2 \in Seq(Messages) : Opens(x[2], es[x].sy, ends'[x].sy, d, d2, st[NodeOf(x)])
    BY <1>0, <2>1, ZenonT(40) DEF Drains
  <2>3. InStep(x[2], ends'[x].sy, ch[x], p, d2)
    BY <2>1, <2>2, OneOpens, ZenonT(40)
  <2>4. es[y].state # "up"
    BY <1>7 DEF Open
  <2>5. ends'[y].sy = es[y].sy
    BY <1>0, <2>4, ZenonT(40) DEF Drains
  <2>6. chan'[x] = ch[x]
    BY <1>0, <2>5, ZenonT(40) DEF Drains
  <2> QED
    BY <1>7, <2>2, <2>3, <2>6, ZenonT(40)
<1> QED
  BY <1>6, <1>7, ZenonT(40)

LEMMA DataDrained ==
    ASSUME NEW n, NEW st, NEW es, NEW ch, NEW pend, NEW act,
           Before(n, st, es, ch, pend, act), Drain(n, st, es, ch, pend, act), NEW x \in Ends
    PROVE  DataInv(store', ends', chan', pending', x)
<1> DEFINE y == Peer(x)
           S == st[NodeOf(x)]
           P == st[NodeOf(y)]
<1>1. y \in Ends /\ Peer(y) = x
  BY EndFacts
<1>0. Drains(st, es, ch, pend, x, y) /\ Drains(st, es, ch, pend, y, x)
  BY <1>1, LinkDrained, ZenonT(40)
<1>2. /\ ends'[x].state = es[x].state /\ ends'[y].state = es[y].state
      /\ DataInv(st, es, ch, pend, x) /\ EndInv(es, ch, act, x)
  BY <1>0, <1>1, ZenonT(40) DEF Before, LinksInv, Drains
<1>3. /\ Snapped(es[x].sy, S) /\ Sound(ch[x], P)
      /\ Open(es, y) => Arrives(es[x].sy, ch[y], P)
      /\ es[x].state = "up" /\ Open(es, y) /\ x \notin pend => Covered(es[x].sy, ch[x], ch[y], S, P)
  BY <1>2, Zenon DEF DataInv
<1>4. es[x].state = "closed" => chan'[x] = ch[x]
  BY <1>0, ZenonT(40) DEF Drains
<1>5. es[x].state # "closed" => Opens(y[2], es[y].sy, ends'[y].sy, ch[x], chan'[x], P)
  BY <1>0, ZenonT(40) DEF Drains
<1>6. Snapped(ends'[x].sy, S)
  <2>1. <<>> \in Seq(Messages)
    OBVIOUS
  <2>2. PICK d2 \in Seq(Messages) : Opens(x[2], es[x].sy, ends'[x].sy, <<>>, d2, S)
    BY <1>0, <2>1, ZenonT(40) DEF Drains
  <2> QED
    BY <1>3, <2>2, OpensSnapped, ZenonT(40)
<1>9. Sound(chan'[x], P)
  BY <1>3, <1>4, <1>5, OpensSound, ZenonT(40)
<1>10. ASSUME Open(es, y)
       PROVE  /\ Arrives(ends'[x].sy, chan'[y], P)
              /\ es[x].state = "up" /\ x \notin pending'
                    => Covered(ends'[x].sy, chan'[x], chan'[y], S, P)
  <2>1. Opens(x[2], es[x].sy, ends'[x].sy, ch[y], chan'[y], S)
    BY <1>0, <1>10, ZenonT(40) DEF Drains, Open
  <2>2. Arrives(ends'[x].sy, chan'[y], P)
    BY <1>3, <1>10, <2>1, OpensArrives, ZenonT(40)
  <2>3. ASSUME es[x].state = "up", x \notin pending'
        PROVE  Covered(ends'[x].sy, chan'[x], chan'[y], S, P)
    <3>1. Opens(y[2], es[y].sy, ends'[y].sy, ch[x], chan'[x], P)
      BY <1>5, <2>3, ZenonT(40)
    <3>2. ends'[x].sy # es[x].sy \/ Covered(es[x].sy, ch[x], ch[y], S, P)
      BY <1>0, <1>3, <1>10, <2>3, ZenonT(40) DEF Drains
    <3>3. Covered(ends'[x].sy, ch[x], chan'[y], S, P)
      BY <2>1, <3>2, OpensCovered, ZenonT(40)
    <3> QED
      BY <3>1, <3>3, PeerOpensCovered, ZenonT(40)
  <2> QED
    BY <2>2, <2>3, ZenonT(40)
<1>11. store' = st
  BY SMTT(30) DEF Drain
<1> QED
  BY <1>2, <1>6, <1>9, <1>10, <1>11, ZenonT(40) DEF DataInv, Open

LEMMA Drained ==
    ASSUME NEW n, NEW st, NEW es, NEW ch, NEW pend, NEW act,
           Before(n, st, es, ch, pend, act), Drain(n, st, es, ch, pend, act)
    PROVE  /\ store' = st /\ StoreInv(store')
           /\ DOMAIN ends' = Ends /\ DOMAIN chan' = Ends /\ DOMAIN active' = Ends
           /\ LinksInv(store', ends', chan', pending', active')
           /\ PendingInv(ends', pending', active')
<1>1. /\ store' = st /\ pending' \subseteq pend
      /\ DOMAIN ends' = Ends /\ DOMAIN chan' = Ends /\ DOMAIN active' = Ends
  BY Zenon DEF Drain
<1>2. StoreInv(store')
  BY <1>1, Zenon DEF Before
<1>3. PendingInv(ends', pending', active')
  <2> SUFFICES ASSUME NEW x \in pending'
               PROVE  x \in Ends /\ ends'[x].state = "up" /\ active'[x] # None
    BY DEF PendingInv
  <2>1. x \in Ends /\ es[x].state = "up"
    BY <1>1, ZenonT(40) DEF Before
  <2> QED
    <3>1. Peer(x) \in Ends
      BY <2>1, EndFacts
    <3>2. Starts(n, st, es, ch, pend, act, x, Peer(x))
      BY <2>1, <3>1, Started, ZenonT(40)
    <3> QED
      BY <2>1, <3>2, ZenonT(40) DEF Starts
<1> QED
  BY <1>1, <1>2, <1>3, EndDrained, StepDrained, DataDrained, ZenonT(40) DEF LinksInv

-----------------------------------------------------------------------------
(* The actions.  Each one leaves the state to Drain, which leaves it as    *)
(* the invariant says.                                                     *)

LEMMA Rebuilt ==
    ASSUME NEW n, NEW st, NEW es, NEW ch, NEW pend, NEW act,
           Before(n, st, es, ch, pend, act), Drain(n, st, es, ch, pend, act), net' = net,
           faults' \subseteq {"ResourceLimit"},
           "ResourceLimit" \in faults' => \E k \in Nodes : Cardinality(st[k]) = net.room[k]
    PROVE  MeshInv'
<1>1. /\ store' = st /\ StoreInv(store')
      /\ DOMAIN ends' = Ends /\ DOMAIN chan' = Ends /\ DOMAIN active' = Ends
      /\ LinksInv(store', ends', chan', pending', active')
      /\ PendingInv(ends', pending', active')
  BY Drained, ZenonT(40)
<1>2. StoreInv(store)'
  BY <1>1, ZenonT(40) DEF StoreInv
<1>3. LinksInv(store, ends, chan, pending, active)'
  <2>1. ASSUME NEW x \in Ends PROVE DataInv(store, ends, chan, pending, x)'
    <3>1. DataInv(store', ends', chan', pending', x)
      BY <1>1, ZenonT(40) DEF LinksInv
    <3> QED
      BY <3>1, Zenon DEF DataInv, NodeOf, Open
  <2>2. ASSUME NEW x \in Ends
        PROVE  EndInv(ends, chan, active, x)' /\ StepInv(ends, chan, x)'
    <3>1. EndInv(ends', chan', active', x) /\ StepInv(ends', chan', x)
      BY <1>1 DEF LinksInv
    <3> QED
      BY <3>1, ZenonT(40) DEF EndInv, StepInv, Open
  <2> QED
    BY <2>1, <2>2, ZenonT(40) DEF LinksInv
<1>4. PendingInv(ends, pending, active)'
  BY <1>1, ZenonT(40) DEF PendingInv
<1> QED
  BY <1>1, <1>2, <1>3, <1>4, ZenonT(40) DEF MeshInv, Before

\* A link that a step leaves alone, in stores that grow: what is new at one of
\* its ends is pending there.
LEMMA Untouched ==
    ASSUME NEW st, NEW es, NEW ch, NEW pend, NEW act,
           NEW st2, NEW es2, NEW ch2, NEW pend2, NEW act2, NEW x \in Ends,
           EndInv(es, ch, act, x), StepInv(es, ch, x), DataInv(st, es, ch, pend, x),
           es2[x] = es[x], es2[Peer(x)] = es[Peer(x)],
           ch2[x] = ch[x], ch2[Peer(x)] = ch[Peer(x)], act2[x] = act[x],
           st[NodeOf(x)] \subseteq st2[NodeOf(x)],
           st[NodeOf(Peer(x))] \subseteq st2[NodeOf(Peer(x))],
           x \in pend => x \in pend2,
           es[x].state = "up" /\ st2[NodeOf(x)] # st[NodeOf(x)] => x \in pend2
    PROVE  EndInv(es2, ch2, act2, x) /\ StepInv(es2, ch2, x) /\ DataInv(st2, es2, ch2, pend2, x)
<1>1. /\ Open(es2, x) <=> Open(es, x)
      /\ Open(es2, Peer(x)) <=> Open(es, Peer(x))
  BY Zenon DEF Open
<1>2. EndInv(es2, ch2, act2, x)
  BY <1>1, Zenon DEF EndInv
<1>3. StepInv(es2, ch2, x)
  BY <1>1, SMTT(30) DEF StepInv
<1>4. DataInv(st2, es2, ch2, pend2, x)
  <2> DEFINE S == st[NodeOf(x)]
             P == st[NodeOf(Peer(x))]
             S2 == st2[NodeOf(x)]
             P2 == st2[NodeOf(Peer(x))]
  <2>1. /\ Snapped(es[x].sy, S) => Snapped(es[x].sy, S2)
        /\ Sound(ch[x], P) => Sound(ch[x], P2)
        /\ Arrives(es[x].sy, ch[Peer(x)], P) => Arrives(es[x].sy, ch[Peer(x)], P2)
    <3>1. Snapped(es[x].sy, S) => Snapped(es[x].sy, S2)
      BY Zenon DEF Snapped
    <3>2. Sound(ch[x], P) => Sound(ch[x], P2)
      BY Zenon DEF Sound
    <3>3. Arrives(es[x].sy, ch[Peer(x)], P) => Arrives(es[x].sy, ch[Peer(x)], P2)
      BY Zenon DEF Arrives
    <3> QED
      BY <3>1, <3>2, <3>3, Zenon
  <2>2. Covered(es[x].sy, ch[x], ch[Peer(x)], S, P) /\ S2 = S
          => Covered(es[x].sy, ch[x], ch[Peer(x)], S2, P2)
    BY Zenon DEF Covered
  <2> QED
    BY <1>1, <2>1, <2>2, ZenonT(40) DEF DataInv
<1> QED
  BY <1>2, <1>3, <1>4, ZenonT(40)

\* A full store stays full.
LEMMA StaysFull ==
    ASSUME NEW st2, StoreInv(store), StoreInv(st2), net \in Networks,
           \A k \in Nodes : store[k] \subseteq st2[k],
           \E k \in Nodes : Cardinality(store[k]) = net.room[k]
    PROVE  \E k \in Nodes : Cardinality(st2[k]) = net.room[k]
<1>1. PICK k \in Nodes : Cardinality(store[k]) = net.room[k]
  BY Zenon
<1>2. /\ IsFiniteSet(st2[k]) /\ Cardinality(st2[k]) <= net.room[k]
      /\ store[k] \in SUBSET st2[k] /\ IsFiniteSet(store[k])
  BY Zenon DEF StoreInv
<1>3. Cardinality(store[k]) <= Cardinality(st2[k])
  BY <1>2, FS_Subset, ZenonT(40)
<1>4. Cardinality(store[k]) \in Nat /\ Cardinality(st2[k]) \in Nat
  BY <1>2, FS_CardinalityType, ZenonT(40)
<1> QED
  BY <1>1, <1>2, <1>3, <1>4, Squeezed, ZenonT(40)

LEMMA TickKeeps ==
    ASSUME MeshInv, NEW n \in Nodes, Tick(n)
    PROVE  MeshInv'
<1>1. Before(n, store, ends, chan, pending, active)
  BY SMTT(30) DEF MeshInv, Before, PendingInv
<1> QED
  BY <1>1, Rebuilt, ZenonT(40) DEF Tick, MeshInv

LEMMA CreateEntryKeeps ==
    ASSUME MeshInv, NEW n \in Nodes, NEW e \in Entries, CreateEntry(n, e)
    PROVE  MeshInv'
<1> DEFINE st == [store EXCEPT ![n] = @ \cup {e}]
           pend == pending \cup UpAt(n)
<1>1. /\ st \in [Nodes -> SUBSET Entries] /\ st[n] = store[n] \cup {e}
      /\ \A k \in Nodes : k # n => st[k] = store[k]
      /\ \A k \in Nodes : store[k] \subseteq st[k]
  BY Zenon DEF MeshInv, StoreInv
<1> HIDE DEF st
<1>2. StoreInv(st)
  <2>1. IsFiniteSet(store[n]) /\ Cardinality(store[n]) < net.room[n] /\ e \notin store[n]
    BY Zenon DEF MeshInv, StoreInv, CreateEntry
  <2>2. IsFiniteSet(st[n]) /\ Cardinality(st[n]) = Cardinality(store[n]) + 1
    <3>1. /\ IsFiniteSet(store[n] \cup {e})
          /\ Cardinality(store[n] \cup {e}) = Cardinality(store[n]) + 1
      BY <2>1, FS_AddElement, ZenonT(40)
    <3> QED
      BY <1>1, <3>1, ZenonT(40)
  <2>3. Cardinality(store[n]) \in Nat /\ net.room[n] \in Nat
    BY <2>1, FS_CardinalityType, NetworksAssumption, ZenonT(40) DEF MeshInv
  <2>4. Cardinality(st[n]) <= net.room[n]
    BY <2>1, <2>2, <2>3, OneMoreFits, ZenonT(40)
  <2> QED
    BY <1>1, <2>2, <2>4, ZenonT(40) DEF MeshInv, StoreInv
<1>3. LinksInv(st, ends, chan, pend, active)
  <2> SUFFICES ASSUME NEW x \in Ends
               PROVE  /\ EndInv(ends, chan, active, x) /\ StepInv(ends, chan, x)
                      /\ DataInv(st, ends, chan, pend, x)
    BY Zenon DEF LinksInv
  <2>1. NodeOf(x) \in Nodes /\ NodeOf(Peer(x)) \in Nodes
    BY EndFacts, NodeFacts, ZenonT(40) DEF MeshInv
  <2>2. ends[x].state = "up" /\ st[NodeOf(x)] # store[NodeOf(x)] => x \in pend
    BY <1>1, <2>1, ZenonT(40) DEF UpAt, IsUp
  <2>3. store[NodeOf(x)] \subseteq st[NodeOf(x)] /\ store[NodeOf(Peer(x))] \subseteq st[NodeOf(Peer(x))]
    BY <1>1, <2>1, ZenonT(40)
  <2>4. /\ EndInv(ends, chan, active, x) /\ StepInv(ends, chan, x)
        /\ DataInv(store, ends, chan, pending, x) /\ (x \in pending => x \in pend)
    BY Zenon DEF MeshInv, LinksInv
  <2> HIDE DEF pend
  <2> QED
    BY <2>2, <2>3, <2>4, Untouched, Zenon
<1>4. Before(n, st, ends, chan, pend, active)
  BY <1>2, <1>3, ZenonT(40) DEF Before, MeshInv, PendingInv, UpAt, IsUp
<1>5. "ResourceLimit" \in faults => \E k \in Nodes : Cardinality(st[k]) = net.room[k]
  BY <1>1, <1>2, StaysFull, ZenonT(40) DEF MeshInv
<1>6. Drain(n, st, ends, chan, pend, active) /\ net' = net /\ faults' = faults
  BY Zenon DEF CreateEntry, st
<1> HIDE DEF pend
<1> QED
  BY <1>4, <1>5, <1>6, Rebuilt, ZenonT(40) DEF MeshInv

\* Ends that have just begun, or have ended.
LEMMA NewFacts ==
    ASSUME NEW r \in {0, 1}
    PROVE  /\ IsSyncer(NewSyncer(r), r)
           /\ DOMAIN NewSyncer(r).ours = {} /\ DOMAIN NewSyncer(r).theirs = {}
           /\ \A S : Snapped(NewSyncer(r), S)
           /\ \A d, S : Arrives(NewSyncer(r), d, S)
<1>1. /\ DOMAIN NewSyncer(r) = {"role", "ours", "theirs", "next_sid", "missed"}
      /\ NewSyncer(r).role = r /\ NewSyncer(r).next_sid = r /\ NewSyncer(r).missed = {}
      /\ NewSyncer(r).ours = NoSessions /\ NewSyncer(r).theirs = NoSessions
  BY DEF NewSyncer
<1>2. DOMAIN NoSessions = {}
  BY DEF NoSessions
<1>3. r \in Sids(r)
  BY DEF Sids
<1> QED
  BY <1>1, <1>2, <1>3, MissesAre, ZenonT(40) DEF IsSyncer, Snapped, Arrives

LEMMA EmptyChannel ==
    /\ <<>> \in Seq(Messages) /\ \A T : Free(<<>>, T)
    /\ \A S : Sound(<<>>, S)
  BY SMTT(30) DEF Free, Sound

LEMMA OnTransportClosedKeeps ==
    ASSUME MeshInv, NEW x \in Ends, OnTransportClosed(x)
    PROVE  MeshInv'
<1> DEFINE n == NodeOf(x)
           y == Peer(x)
           es == [ends EXCEPT ![x] = [state |-> "closed", sy |-> NewSyncer(x[2])]]
           ch == [chan EXCEPT ![x] = <<>>]
           pend == pending \ {x}
           act == [active EXCEPT ![x] = None]
<1>1. /\ y \in Ends /\ Peer(y) = x /\ y # x /\ x[2] \in {0, 1} /\ y[2] = 1 - x[2]
      /\ n \in Nodes /\ Open(ends, x)
  BY EndFacts, NodeFacts, ZenonT(40) DEF MeshInv, OnTransportClosed, Open
<1>2. /\ es[x].state = "closed" /\ es[x].sy = NewSyncer(x[2]) /\ DOMAIN es[x] = {"state", "sy"}
      /\ ch[x] = <<>> /\ act[x] = None
      /\ \A z \in Ends : z # x => es[z] = ends[z] /\ ch[z] = chan[z] /\ act[z] = active[z]
  BY Zenon DEF MeshInv
<1>3. Drain(n, store, es, ch, pend, act) /\ net' = net /\ faults' = faults
  BY DEF OnTransportClosed
<1> HIDE DEF es, ch, act, n, y
<1>4. ~Open(es, x)
  BY <1>2, ZenonT(40) DEF Open
<1>5. \A z \in Ends : EndInv(ends, chan, active, z) /\ StepInv(ends, chan, z)
                        /\ DataInv(store, ends, chan, pending, z)
  BY DEF MeshInv, LinksInv
<1>6. /\ IsSyncer(NewSyncer(x[2]), x[2]) /\ DOMAIN NewSyncer(x[2]).ours = {}
      /\ \A S : Snapped(NewSyncer(x[2]), S)
      /\ \A d, S : Arrives(NewSyncer(x[2]), d, S)
  BY <1>1, NewFacts, ZenonT(40)
<1>7. ends[y].state # "idle"
  BY <1>1, <1>5, ZenonT(40) DEF EndInv, Open, y
<1>8. /\ EndInv(es, ch, act, x) /\ StepInv(es, ch, x) /\ DataInv(store, es, ch, pend, x)
  <2>1. EndInv(es, ch, act, x)
    BY <1>1, <1>2, <1>6, <1>7, EmptyChannel DEF EndInv, y
  <2>2. StepInv(es, ch, x)
    BY <1>4, ZenonT(40) DEF StepInv
  <2>3. DataInv(store, es, ch, pend, x)
    BY <1>2, <1>6, EmptyChannel, ZenonT(40) DEF DataInv
  <2> QED
    BY <2>1, <2>2, <2>3, ZenonT(40)
<1>9. /\ EndInv(es, ch, act, y) /\ StepInv(es, ch, y) /\ DataInv(store, es, ch, pend, y)
  <2>1. es[y] = ends[y] /\ ch[y] = chan[y] /\ act[y] = active[y]
    BY <1>1, <1>2, ZenonT(40)
  <2>2. Open(es, y) <=> Open(ends, y)
    BY <2>1, ZenonT(40) DEF Open
  <2>3. EndInv(es, ch, act, y)
    BY <1>1, <1>2, <1>5, <1>7, <2>1, <2>2, ZenonT(40) DEF EndInv
  <2>4. StepInv(es, ch, y)
    <3>1. Open(es, y) => InStep(y[2], ends[y].sy, chan[y], ends[x].sy, chan[x])
      BY <1>1, <1>5, <2>2, Zenon DEF StepInv
    <3>2. chan[x] \in Seq(Messages)
      BY <1>5, Zenon DEF EndInv
    <3> QED
      BY <1>1, <1>4, <2>1, <3>1, <3>2, ZenonT(40) DEF StepInv
  <2>5. DataInv(store, es, ch, pend, y)
    BY <1>1, <1>4, <1>5, <2>1, ZenonT(40) DEF DataInv
  <2> QED
    BY <2>3, <2>4, <2>5, ZenonT(40)
<1>10. LinksInv(store, es, ch, pend, act)
  <2>1. ASSUME NEW z \in Ends, z # x, z # y
        PROVE  EndInv(es, ch, act, z) /\ StepInv(es, ch, z) /\ DataInv(store, es, ch, pend, z)
    <3>1. Peer(z) \in Ends /\ Peer(z) # x /\ Peer(z) # y
      BY <2>1, EndFacts, ZenonT(40) DEF y
    <3>2. /\ es[z] = ends[z] /\ ch[z] = chan[z] /\ act[z] = active[z]
          /\ es[Peer(z)] = ends[Peer(z)] /\ ch[Peer(z)] = chan[Peer(z)]
      BY <1>2, <2>1, <3>1, ZenonT(40)
    <3>3. z \in pending => z \in pend
      BY <2>1, ZenonT(40)
    <3> HIDE DEF pend
    <3> QED
      BY <1>5, <3>2, <3>3, Untouched, ZenonT(40)
  <2> QED
    BY <1>8, <1>9, <2>1, ZenonT(40) DEF LinksInv
<1>11. Before(n, store, es, ch, pend, act)
  <2>1. ASSUME NEW z \in pend
        PROVE  z \in Ends /\ es[z].state = "up" /\ (NodeOf(z) # n => act[z] # None)
    BY <1>2, <2>1, SMTT(30) DEF MeshInv, PendingInv
  <2> QED
    BY <1>1, <1>10, <2>1, ZenonT(40) DEF Before, MeshInv
<1>12. /\ faults' \subseteq {"ResourceLimit"}
       /\ "ResourceLimit" \in faults' => \E k \in Nodes : Cardinality(store[k]) = net.room[k]
  BY <1>3, Zenon DEF MeshInv
<1> HIDE DEF pend
<1> QED
  BY <1>3, <1>11, <1>12, Rebuilt, ZenonT(40)

LEMMA EstablishKeeps ==
    ASSUME MeshInv, NEW l \in Links, Establish(l)
    PROVE  MeshInv'
<1> DEFINE x == <<l, Initiator>>
           y == <<l, Responder>>
           n == NodeOf(x)
           es == [ends EXCEPT ![x].state = "up", ![y].state = "handshake"]
           ch == [chan EXCEPT ![y] = <<Final>>]
           pend == pending \cup {x}
<1>1. /\ x \in Ends /\ y \in Ends /\ Peer(x) = y /\ Peer(y) = x /\ y # x
      /\ x[2] = 0 /\ y[2] = 1
  BY DEF Ends, Peer, Initiator, Responder
<1>2. n \in Nodes /\ ends[x].state = "idle" /\ ends[y].state = "idle"
  BY <1>1, NodeFacts, ZenonT(40) DEF Establish, MeshInv
<1>3. Drain(n, store, es, ch, pend, active) /\ net' = net /\ faults' = faults
  BY Zenon DEF Establish
<1> HIDE DEF x, y, n
<1>4. \A z \in Ends : EndInv(ends, chan, active, z) /\ StepInv(ends, chan, z)
                        /\ DataInv(store, ends, chan, pending, z)
  BY Zenon DEF MeshInv, LinksInv
<1>5. /\ ends[x].sy = NewSyncer(0) /\ chan[x] = <<>> /\ DOMAIN ends[x] = {"state", "sy"}
      /\ ends[y].sy = NewSyncer(1) /\ chan[y] = <<>> /\ DOMAIN ends[y] = {"state", "sy"}
  BY <1>1, <1>2, <1>4, ZenonT(40) DEF EndInv, Open
<1>6. /\ es[x].state = "up" /\ es[x].sy = NewSyncer(0) /\ DOMAIN es[x] = {"state", "sy"}
      /\ es[y].state = "handshake" /\ es[y].sy = NewSyncer(1) /\ DOMAIN es[y] = {"state", "sy"}
      /\ ch[x] = <<>> /\ ch[y] = <<Final>>
      /\ \A z \in Ends : z # x /\ z # y => es[z] = ends[z] /\ ch[z] = chan[z]
  BY <1>1, <1>5, ZenonT(40) DEF MeshInv
<1> HIDE DEF es, ch
<1>7. /\ <<Final>> \in Seq(Messages) /\ Free(<<Final>>, Asks) /\ Free(<<Final>>, Answers)
      /\ \A S : Sound(<<Final>>, S)
  <2>1. Final \in Messages /\ Final.type = "HANDSHAKE"
    BY Made DEF Final
  <2>2. DOMAIN <<Final>> = {1} /\ <<Final>>[1] = Final
    OBVIOUS
  <2>3. Free(<<Final>>, Asks) /\ Free(<<Final>>, Answers)
    BY <2>1, <2>2, ZenonT(40) DEF Free, Asks, Answers
  <2>4. \A S : Sound(<<Final>>, S)
    BY <2>1, <2>2, ZenonT(40) DEF Sound, Carries
  <2> QED
    <3>1. <<Final>> \in Seq(Messages)
      BY <2>1
    <3> QED
      BY <2>3, <2>4, <3>1, ZenonT(40)
<1>8. \A r \in {0, 1} :
        /\ IsSyncer(NewSyncer(r), r)
        /\ DOMAIN NewSyncer(r).ours = {} /\ DOMAIN NewSyncer(r).theirs = {}
        /\ \A S : Snapped(NewSyncer(r), S)
        /\ \A d, S : Arrives(NewSyncer(r), d, S)
  BY NewFacts, ZenonT(40)
<1>9. Open(es, x) /\ Open(es, y)
  BY <1>6, Zenon DEF Open
<1>10. ASSUME NEW z \in {x, y}
       PROVE  /\ active[z] \in {None} \cup Nat
              /\ DOMAIN es[z].sy.ours = IF active[z] = None THEN {} ELSE {active[z]}
  <2>1. EndInv(ends, chan, active, z) /\ es[z].sy = ends[z].sy
    BY <1>1, <1>4, <1>5, <1>6, ZenonT(40)
  <2> QED
    BY <2>1, ZenonT(40) DEF EndInv
<1>11. EndInv(es, ch, active, x) /\ EndInv(es, ch, active, y)
  BY <1>1, <1>6, <1>7, <1>8, <1>9, <1>10, EmptyChannel, ZenonT(40) DEF EndInv
<1>12. StepInv(es, ch, x) /\ StepInv(es, ch, y)
  <2>1. InStep(0, NewSyncer(0), <<>>, NewSyncer(1), <<Final>>)
    <3>1. Idle(NewSyncer(0).ours, NewSyncer(1).theirs, <<>>, <<Final>>)
      BY <1>7, <1>8, EmptyChannel, ZenonT(40) DEF Idle
    <3>2. Idle(NewSyncer(1).ours, NewSyncer(0).theirs, <<Final>>, <<>>)
      BY <1>7, <1>8, EmptyChannel, ZenonT(40) DEF Idle
    <3> QED
      BY <3>1, <3>2, ZenonT(40) DEF InStep, Stage
  <2>2. InStep(1 - 0, NewSyncer(1), <<Final>>, NewSyncer(0), <<>>)
    BY <2>1, Turned, ZenonT(40)
  <2>3. 1 - 0 = 1
    BY SMTT(30)
  <2> QED
    BY <1>1, <1>6, <1>9, <2>1, <2>2, <2>3, ZenonT(40) DEF StepInv
<1>13. DataInv(store, es, ch, pend, x) /\ DataInv(store, es, ch, pend, y)
  <2>1. 0 \in {0, 1} /\ 1 \in {0, 1}
    BY Zenon
  <2>2. /\ \A S : Snapped(es[x].sy, S) /\ Snapped(es[y].sy, S)
        /\ \A d, S : Arrives(es[x].sy, d, S) /\ Arrives(es[y].sy, d, S)
    <3>1. es[x].sy = NewSyncer(0) /\ es[y].sy = NewSyncer(1)
      BY <1>6, Zenon
    <3>2. \A S : Snapped(NewSyncer(0), S) /\ Snapped(NewSyncer(1), S)
      BY <1>8, <2>1, Zenon
    <3>3. \A d, S : Arrives(NewSyncer(0), d, S) /\ Arrives(NewSyncer(1), d, S)
      BY <1>8, <2>1, Zenon
    <3> QED
      BY <3>1, <3>2, <3>3, Zenon
  <2>3. \A S : Sound(ch[x], S) /\ Sound(ch[y], S)
    BY <1>6, <1>7, EmptyChannel, ZenonT(40)
  <2>4. x \in pend /\ es[y].state # "up"
    BY <1>6, Zenon
  <2> QED
    BY <2>2, <2>3, <2>4, ZenonT(40) DEF DataInv
<1>14. LinksInv(store, es, ch, pend, active)
  <2>1. ASSUME NEW z \in Ends, z # x, z # y
        PROVE  EndInv(es, ch, active, z) /\ StepInv(es, ch, z) /\ DataInv(store, es, ch, pend, z)
    <3>1. Peer(z) \in Ends /\ Peer(z) # x /\ Peer(z) # y
      BY <1>1, <2>1, EndFacts, ZenonT(40)
    <3>2. /\ es[z] = ends[z] /\ ch[z] = chan[z]
          /\ es[Peer(z)] = ends[Peer(z)] /\ ch[Peer(z)] = chan[Peer(z)]
      BY <1>6, <2>1, <3>1, ZenonT(40)
    <3>3. z \in pending => z \in pend
      BY Zenon
    <3> HIDE DEF pend
    <3> QED
      BY <1>4, <3>2, <3>3, Untouched, ZenonT(40)
  <2> QED
    BY <1>11, <1>12, <1>13, <2>1, ZenonT(40) DEF LinksInv
<1>15. Before(n, store, es, ch, pend, active)
  <2>1. ASSUME NEW z \in pend
        PROVE  z \in Ends /\ es[z].state = "up" /\ (NodeOf(z) # n => active[z] # None)
    <3>1. CASE z = x
      BY <1>1, <1>6, <3>1, ZenonT(40) DEF n
    <3>2. CASE z # x
      <4>1. z \in Ends /\ ends[z].state = "up" /\ active[z] # None
        BY <2>1, <3>2, ZenonT(40) DEF MeshInv, PendingInv
      <4>2. z # y
        BY <1>2, <4>1, ZenonT(40)
      <4> QED
        BY <1>6, <3>2, <4>1, <4>2, ZenonT(40)
    <3> QED
      BY <3>1, <3>2, ZenonT(40)
  <2> QED
    BY <1>2, <1>14, <2>1, ZenonT(40) DEF Before, MeshInv
<1> HIDE DEF pend
<1> QED
  BY <1>3, <1>15, Rebuilt, Zenon DEF MeshInv

\* What is known of an end and of its peer.
LEMMA LinkFacts ==
    ASSUME MeshInv, NEW x \in Ends
    PROVE  LET y == Peer(x)
           IN  /\ y \in Ends /\ Peer(y) = x /\ y # x /\ x[2] \in {0, 1} /\ y[2] = 1 - x[2]
               /\ NodeOf(x) \in Nodes /\ NodeOf(y) \in Nodes
               /\ EndInv(ends, chan, active, x) /\ EndInv(ends, chan, active, y)
               /\ StepInv(ends, chan, x) /\ StepInv(ends, chan, y)
               /\ DataInv(store, ends, chan, pending, x) /\ DataInv(store, ends, chan, pending, y)
               /\ chan[x] \in Seq(Messages) /\ chan[y] \in Seq(Messages)
               /\ Open(ends, x) => ends[y].state # "idle"
<1>1. /\ Peer(x) \in Ends /\ Peer(Peer(x)) = x /\ Peer(x) # x /\ x[2] \in {0, 1}
      /\ Peer(x)[2] = 1 - x[2] /\ NodeOf(x) \in Nodes /\ NodeOf(Peer(x)) \in Nodes
  BY EndFacts, NodeFacts, ZenonT(40) DEF MeshInv
<1>2. \A z \in Ends : EndInv(ends, chan, active, z) /\ StepInv(ends, chan, z)
                        /\ DataInv(store, ends, chan, pending, z)
  BY Zenon DEF MeshInv, LinksInv
<1>3. /\ EndInv(ends, chan, active, x) /\ EndInv(ends, chan, active, Peer(x))
      /\ StepInv(ends, chan, x) /\ StepInv(ends, chan, Peer(x))
      /\ DataInv(store, ends, chan, pending, x) /\ DataInv(store, ends, chan, pending, Peer(x))
  BY <1>1, <1>2, ZenonT(40)
<1>4. chan[x] \in Seq(Messages) /\ chan[Peer(x)] \in Seq(Messages)
  BY <1>3, ZenonT(40) DEF EndInv
<1>5. Open(ends, x) => ends[Peer(x)].state # "idle"
  BY <1>3, ZenonT(40) DEF EndInv, Open
<1> QED
  BY <1>1, <1>3, <1>4, <1>5, ZenonT(40)

-----------------------------------------------------------------------------
(* A call of onBytes.                                                      *)

\* What a call at x leaves for Drain: acc is what came of it, c is left of what
\* was on its way to x, and p and d are the peer and what is on its way there.
AfterCall(x, acc, c, p, d, st, es, ch, pend, act) ==
    LET n == NodeOf(x)
        y == Peer(x)
        down == acc.state = "closed"
    IN  /\ Open(ends, x) /\ c \in Seq(Messages)
        /\ Faces(x, p, d) /\ InCall(x, acc, c, p, d)
        /\ st \in [Nodes -> SUBSET Entries] /\ st[n] = acc.store
        /\ \A j \in Nodes : (j # n => st[j] = store[j]) /\ store[j] \subseteq st[j]
        /\ es[x].state = acc.state /\ es[x].sy = (IF down THEN NewSyncer(x[2]) ELSE acc.sy)
        /\ DOMAIN es[x] = {"state", "sy"}
        /\ ch[x] = IF down THEN <<>> ELSE c
        /\ ch[y] = IF ends[y].state = "closed" THEN <<>> ELSE chan[y] \o acc.out
        /\ act[x] = IF down \/ active[x] \in acc.ended THEN None ELSE active[x]
        /\ \A z \in Ends :
              /\ z # x => es[z] = ends[z] /\ act[z] = active[z] /\ (z \in pending => z \in pend)
              /\ z # x /\ z # y => ch[z] = chan[z]
        /\ down => x \notin pend
        /\ ~down /\ (x \in pending \/ (acc.established /\ acc.state = "up")) => x \in pend
        /\ \A z \in UpAt(n) : z # x /\ acc.store # store[n] => z \in pend
        /\ \A z \in pend : \/ z \in pending
                           \/ z = x /\ acc.state = "up"
                           \/ z \in UpAt(n) /\ z # x

LEMMA CallLeaves ==
    ASSUME MeshInv, NEW x \in Ends, NEW k \in 1..Len(chan[x]), OnBytes(x, k)
    PROVE  \E acc, c, p, d, st, es, ch, pend, act :
             /\ AfterCall(x, acc, c, p, d, st, es, ch, pend, act)
             /\ Drain(NodeOf(x), st, es, ch, pend, act) /\ net' = net
             /\ faults' = faults \cup ({acc.error} \ {"none"})
<1> DEFINE n == NodeOf(x)
           y == Peer(x)
           c == Rest(chan[x], k)
<1>1. /\ y \in Ends /\ Peer(y) = x /\ y # x /\ n \in Nodes /\ Open(ends, x)
      /\ chan[x] \in Seq(Messages) /\ chan[y] \in Seq(Messages) /\ ends[y].state # "idle"
  BY LinkFacts, Zenon DEF OnBytes, Open
<1>2. StepInv(ends, chan, x) /\ EndInv(ends, chan, active, y)
  BY LinkFacts, ZenonT(40)
<1>3. PICK p, d : Faces(x, p, d)
  <2>1. CASE Open(ends, y)
    BY <1>1, <1>2, <2>1, ZenonT(40) DEF StepInv, Faces
  <2>2. CASE ~Open(ends, y)
    BY <1>1, <1>2, <2>2, ZenonT(40) DEF StepInv, Faces
  <2> QED
    BY <2>1, <2>2, ZenonT(40)
<1>4. PICK acc \in Bodies(x)[k] :
        LET down == acc.state = "closed"
        IN  /\ Drain(n, [store EXCEPT ![n] = acc.store],
                     [ends EXCEPT ![x] = [state |-> acc.state,
                                          sy |-> IF down THEN NewSyncer(x[2]) ELSE acc.sy]],
                     [chan EXCEPT ![x] = IF down THEN <<>> ELSE SubSeq(@, k + 1, Len(@)),
                                  ![Peer(x)] = IF ends[Peer(x)].state = "closed"
                                               THEN <<>> ELSE @ \o acc.out],
                     (pending \cup Requested(x, acc)) \ (IF down THEN {x} ELSE {}),
                     Freed(x, acc))
            /\ faults' = faults \cup ({acc.error} \ {"none"})
  BY Zenon DEF OnBytes
<1>5. InCall(x, acc, c, p, d) /\ c \in Seq(Messages)
  <2>1. k \in 0..Len(chan[x])
    BY <1>1, Within, ZenonT(40)
  <2>2. acc \in Bodies(x)[k]
    BY <1>4, ZenonT(40)
  <2> QED
    BY <1>1, <1>3, <2>1, <2>2, CallRuns, RestFacts, ZenonT(40)
<1> DEFINE down == acc.state = "closed"
           st == [store EXCEPT ![n] = acc.store]
           es == [ends EXCEPT ![x] = [state |-> acc.state,
                                      sy |-> IF down THEN NewSyncer(x[2]) ELSE acc.sy]]
           ch == [chan EXCEPT ![x] = IF down THEN <<>> ELSE SubSeq(@, k + 1, Len(@)),
                              ![Peer(x)] = IF ends[Peer(x)].state = "closed"
                                           THEN <<>> ELSE @ \o acc.out]
           pend == (pending \cup Requested(x, acc)) \ (IF down THEN {x} ELSE {})
           act == Freed(x, acc)
<1>6. /\ Drain(n, st, es, ch, pend, act) /\ net' = net
      /\ faults' = faults \cup ({acc.error} \ {"none"})
  BY <1>4, ZenonT(40) DEF OnBytes
<1>7. /\ st \in [Nodes -> SUBSET Entries] /\ st[n] = acc.store
      /\ \A j \in Nodes : (j # n => st[j] = store[j]) /\ store[j] \subseteq st[j]
  BY <1>1, <1>5, Zenon DEF MeshInv, StoreInv, InCall, Fits
<1>8. /\ es[x].state = acc.state /\ es[x].sy = (IF down THEN NewSyncer(x[2]) ELSE acc.sy)
      /\ DOMAIN es[x] = {"state", "sy"}
      /\ \A z \in Ends : z # x => es[z] = ends[z]
  BY SMTT(30) DEF MeshInv
<1>9. /\ ch[x] = IF down THEN <<>> ELSE c
      /\ ch[y] = IF ends[y].state = "closed" THEN <<>> ELSE chan[y] \o acc.out
      /\ \A z \in Ends : z # x /\ z # y => ch[z] = chan[z]
  BY <1>1, Zenon DEF MeshInv, Rest
<1>10. /\ act[x] = IF down \/ active[x] \in acc.ended THEN None ELSE active[x]
       /\ \A z \in Ends : z # x => act[z] = active[z]
  BY Zenon DEF MeshInv, Freed
<1>11. /\ down => x \notin pend
       /\ \A z \in pending : z # x => z \in pend
       /\ ~down /\ (x \in pending \/ (acc.established /\ acc.state = "up")) => x \in pend
       /\ \A z \in UpAt(n) : z # x /\ acc.store # store[n] => z \in pend
       /\ \A z \in pend : \/ z \in pending
                          \/ z = x /\ acc.state = "up"
                          \/ z \in UpAt(n) /\ z # x
  BY SMTT(30) DEF Requested
<1> HIDE DEF c, st, es, ch, pend, act
<1>12. AfterCall(x, acc, c, p, d, st, es, ch, pend, act)
  BY <1>1, <1>3, <1>5, <1>7, <1>8, <1>9, <1>10, <1>11, ZenonT(40) DEF AfterCall
<1> QED
  BY <1>6, <1>12, ZenonT(40)

\* The links of other nodes, and those that this node has to others.
LEMMA OtherLinksKept ==
    ASSUME MeshInv, NEW x \in Ends,
           NEW acc, NEW c, NEW p, NEW d, NEW st, NEW es, NEW ch, NEW pend, NEW act,
           AfterCall(x, acc, c, p, d, st, es, ch, pend, act),
           NEW z \in Ends, z # x, z # Peer(x)
    PROVE  EndInv(es, ch, act, z) /\ StepInv(es, ch, z) /\ DataInv(st, es, ch, pend, z)
<1>1. Peer(z) \in Ends /\ Peer(z) # x /\ Peer(z) # Peer(x)
  BY EndFacts, SMTT(30)
<1>2. /\ es[z] = ends[z] /\ ch[z] = chan[z] /\ act[z] = active[z]
      /\ es[Peer(z)] = ends[Peer(z)] /\ ch[Peer(z)] = chan[Peer(z)]
      /\ z \in pending => z \in pend
  BY <1>1, ZenonT(40) DEF AfterCall
<1>3. /\ NodeOf(z) \in Nodes /\ NodeOf(Peer(z)) \in Nodes
      /\ EndInv(ends, chan, active, z) /\ StepInv(ends, chan, z)
      /\ DataInv(store, ends, chan, pending, z)
  BY LinkFacts, ZenonT(40)
<1>4. ends[z].state = "up" /\ st[NodeOf(z)] # store[NodeOf(z)] => z \in pend
  <2>1. \A j \in Nodes : j # NodeOf(x) => st[j] = store[j]
    BY ZenonT(40) DEF AfterCall
  <2>2. \A w \in UpAt(NodeOf(x)) : w # x /\ st[NodeOf(x)] # store[NodeOf(x)] => w \in pend
    BY ZenonT(40) DEF AfterCall
  <2> QED
    BY <1>3, <2>1, <2>2, ZenonT(40) DEF UpAt, IsUp
<1>5. store[NodeOf(z)] \subseteq st[NodeOf(z)] /\ store[NodeOf(Peer(z))] \subseteq st[NodeOf(Peer(z))]
  BY <1>3, ZenonT(40) DEF AfterCall
<1> QED
  BY <1>2, <1>3, <1>4, <1>5, Untouched, ZenonT(40)

\* What the peer has of the call: the frames it wrote.
LEMMA PeerKept ==
    ASSUME MeshInv, NEW x \in Ends,
           NEW acc, NEW c, NEW p, NEW d, NEW st, NEW es, NEW ch, NEW pend, NEW act,
           AfterCall(x, acc, c, p, d, st, es, ch, pend, act)
    PROVE  LET y == Peer(x)
           IN  /\ EndInv(es, ch, act, y) /\ Snapped(ends[y].sy, st[NodeOf(y)])
               /\ Sound(ch[y], acc.store)
<1> DEFINE y == Peer(x)
<1>1. /\ y \in Ends /\ Peer(y) = x /\ y # x /\ NodeOf(y) \in Nodes
      /\ EndInv(ends, chan, active, y) /\ DataInv(store, ends, chan, pending, y)
      /\ chan[y] \in Seq(Messages) /\ Open(ends, x) /\ ends[y].state # "idle"
  BY LinkFacts, ZenonT(40) DEF AfterCall
<1>2. /\ InCall(x, acc, c, p, d) /\ es[y] = ends[y] /\ act[y] = active[y]
      /\ es[x].state = acc.state /\ store[NodeOf(y)] \subseteq st[NodeOf(y)]
      /\ ch[y] = IF ends[y].state = "closed" THEN <<>> ELSE chan[y] \o acc.out
  BY <1>1, ZenonT(40) DEF AfterCall
<1>3. /\ acc.out \in Seq(Messages) /\ Sound(acc.out, acc.store)
      /\ store[NodeOf(x)] \subseteq acc.store /\ es[x].state # "idle"
  BY <1>2, ZenonT(40) DEF InCall, Live, Shut
<1> HIDE DEF y
<1>4. Sound(chan[y] \o acc.out, acc.store) /\ chan[y] \o acc.out \in Seq(Messages)
  <2>1. Sound(chan[y], store[NodeOf(x)])
    BY <1>1, Zenon DEF DataInv
  <2>2. Sound(chan[y], acc.store)
    BY <1>3, <2>1, ZenonT(40) DEF Sound
  <2> QED
    BY <1>1, <1>3, <2>2, Added, ZenonT(40)
<1>5. Sound(ch[y], acc.store) /\ ch[y] \in Seq(Messages)
  BY <1>2, <1>4, EmptyChannel, ZenonT(40)
<1>6. EndInv(es, ch, act, y)
  <2>1. ~Open(ends, y) => ends[y].state = "closed"
    BY <1>1, ZenonT(40) DEF EndInv, Open
  <2> QED
    BY <1>1, <1>2, <1>3, <1>5, <2>1, ZenonT(40) DEF EndInv, Open
<1>7. Snapped(ends[y].sy, st[NodeOf(y)])
  <2>1. Snapped(ends[y].sy, store[NodeOf(y)])
    BY <1>1, Zenon DEF DataInv
  <2> QED
    BY <1>2, <2>1, ZenonT(40) DEF Snapped
<1> QED
  BY <1>5, <1>6, <1>7, ZenonT(40) DEF y

\* The link of the call, when the call leaves it open.
LEMMA LiveInStep ==
    ASSUME MeshInv, NEW x \in Ends,
           NEW acc, NEW c, NEW p, NEW d, NEW st, NEW es, NEW ch, NEW pend, NEW act,
           AfterCall(x, acc, c, p, d, st, es, ch, pend, act), Live(x, acc, c, p, d)
    PROVE  EndInv(es, ch, act, x) /\ StepInv(es, ch, x) /\ StepInv(es, ch, Peer(x))
<1> DEFINE y == Peer(x)
<1>1. /\ y \in Ends /\ Peer(y) = x /\ y # x /\ x[2] \in {0, 1} /\ y[2] = 1 - x[2]
      /\ EndInv(ends, chan, active, x) /\ Open(ends, x) /\ ends[y].state # "idle"
  BY LinkFacts, ZenonT(40) DEF AfterCall
<1>2. /\ acc.error = "none" /\ acc.state \in {"handshake", "up"}
      /\ IsSyncer(acc.sy, x[2]) /\ InStep(x[2], acc.sy, c, p, d \o acc.out)
      /\ DOMAIN acc.sy.ours = IF active[x] = None \/ active[x] \in acc.ended THEN {} ELSE {active[x]}
  BY ZenonT(40) DEF Live
<1>3. /\ es[x].sy = acc.sy /\ es[x].state = acc.state /\ DOMAIN es[x] = {"state", "sy"}
      /\ ch[x] = c /\ c \in Seq(Messages) /\ es[y] = ends[y]
      /\ act[x] = IF active[x] \in acc.ended THEN None ELSE active[x]
      /\ ch[y] = IF ends[y].state = "closed" THEN <<>> ELSE chan[y] \o acc.out
      /\ Faces(x, p, d) /\ InCall(x, acc, c, p, d)
  BY <1>1, <1>2, ZenonT(40) DEF AfterCall
<1>4. Open(es, x) /\ (Open(es, y) <=> Open(ends, y))
  BY <1>2, <1>3, ZenonT(40) DEF Open
<1> HIDE DEF y
<1>5. EndInv(es, ch, act, x)
  <2>1. /\ act[x] \in {None} \cup Nat
        /\ DOMAIN es[x].sy.ours = IF act[x] = None THEN {} ELSE {act[x]}
    BY <1>1, <1>2, <1>3, ZenonT(40) DEF EndInv
  <2> QED
    BY <1>1, <1>2, <1>3, <1>4, <2>1, ZenonT(40) DEF EndInv, y
<1>6. CASE Open(ends, y)
  <2>1. p = es[y].sy /\ d \o acc.out = ch[y]
    BY <1>3, <1>6, ZenonT(40) DEF Faces, Open, y
  <2>2. InStep(x[2], es[x].sy, ch[x], es[y].sy, ch[y])
    <3>1. InStep(x[2], acc.sy, c, p, d \o acc.out) /\ es[x].sy = acc.sy /\ ch[x] = c
      BY <1>2, <1>3, Zenon
    <3> QED
      BY <2>1, <3>1, Zenon
  <2>3. InStep(y[2], es[y].sy, ch[y], es[x].sy, ch[x])
    BY <1>1, <2>2, Turned, ZenonT(40)
  <2> QED
    BY <1>1, <1>4, <1>5, <1>6, <2>2, <2>3, ZenonT(40) DEF StepInv, y
<1>7. CASE ~Open(ends, y)
  <2>1. d \o acc.out \in Seq(Messages)
    BY <1>3, Added, Zenon DEF Faces, InCall
  <2> QED
    BY <1>2, <1>3, <1>4, <1>5, <1>7, <2>1, ZenonT(40) DEF StepInv, y
<1> QED
  BY <1>6, <1>7, ZenonT(40)

LEMMA LiveCovered ==
    ASSUME MeshInv, NEW x \in Ends,
           NEW acc, NEW c, NEW p, NEW d, NEW st, NEW es, NEW ch, NEW pend, NEW act,
           AfterCall(x, acc, c, p, d, st, es, ch, pend, act), Live(x, acc, c, p, d)
    PROVE  DataInv(st, es, ch, pend, x) /\ DataInv(st, es, ch, pend, Peer(x))
<1> DEFINE y == Peer(x)
           P == store[NodeOf(y)]
           P2 == st[NodeOf(y)]
           D == d \o acc.out
<1>1. /\ y \in Ends /\ Peer(y) = x /\ y # x /\ y[2] \in {0, 1} /\ NodeOf(y) \in Nodes
      /\ EndInv(ends, chan, active, y)
  BY LinkFacts, ZenonT(40)
<1>2. /\ acc.state \in {"handshake", "up"} /\ Snapped(acc.sy, acc.store) /\ Sound(c, P)
      /\ Open(ends, y) =>
            /\ Arrives(acc.sy, D, P) /\ Arrives(p, c, acc.store)
            /\ acc.state = "up" /\ ~acc.established /\ x \notin pending
                  => Covered(acc.sy, c, D, acc.store, P)
            /\ ends[y].state = "up" /\ y \notin pending
                  => Covered(p, D, c, P, acc.store)
  BY ZenonT(40) DEF Live
<1>3. /\ es[x].sy = acc.sy /\ es[x].state = acc.state /\ ch[x] = c
      /\ es[y] = ends[y] /\ P \subseteq P2 /\ (P2 = P \/ P2 = acc.store)
      /\ st[NodeOf(x)] = acc.store
      /\ x \notin pend => x \notin pending /\ ~(acc.established /\ acc.state = "up")
      /\ y \notin pend => y \notin pending
  BY <1>1, <1>2, ZenonT(40) DEF AfterCall
<1>4. Open(ends, y) => p = ends[y].sy /\ D = ch[y]
  BY <1>1, ZenonT(40) DEF AfterCall, Faces, Open
<1>5. Open(es, x) /\ (Open(es, y) <=> Open(ends, y))
  BY <1>2, <1>3, ZenonT(40) DEF Open
<1>6. Snapped(ends[y].sy, P2) /\ Sound(ch[y], acc.store)
  BY PeerKept, Zenon
<1>7. P2 = st[NodeOf(Peer(x))] /\ P2 = st[NodeOf(y)]
  BY Zenon
<1>8. ~Open(ends, y) => \A w, S : Arrives(ends[y].sy, w, S)
  <2>1. ~Open(ends, y) => ends[y].sy = NewSyncer(y[2])
    BY <1>1, ZenonT(40) DEF EndInv
  <2> QED
    BY <1>1, <2>1, NewFacts, ZenonT(40)
<1> HIDE DEF D, P, P2
<1>9. DataInv(st, es, ch, pend, x)
  <2>1. Sound(c, P2)
    BY <1>2, <1>3, ZenonT(40) DEF Sound
  <2>2. Open(ends, y) => Arrives(acc.sy, D, P2)
    BY <1>2, <1>3, ZenonT(40) DEF Arrives
  <2>3. Open(ends, y) /\ acc.state = "up" /\ x \notin pend => Covered(acc.sy, c, D, acc.store, P2)
    BY <1>2, <1>3, ZenonT(40) DEF Covered
  <2> QED
    BY <1>2, <1>3, <1>4, <1>5, <1>7, <2>1, <2>2, <2>3, ZenonT(40) DEF DataInv
<1>10. DataInv(st, es, ch, pend, y)
  <2>1. Open(ends, y) /\ ends[y].state = "up" /\ y \notin pend => Covered(p, D, c, P2, acc.store)
    BY <1>2, <1>3, ZenonT(40) DEF Covered
  <2>2. Arrives(ends[y].sy, c, acc.store)
    BY <1>2, <1>4, <1>8, ZenonT(40)
  <2>3. ends[y].state = "up" => Open(ends, y)
    BY SMTT(30) DEF Open
  <2> HIDE DEF y
  <2> QED
    BY <1>1, <1>3, <1>4, <1>6, <1>7, <2>1, <2>2, <2>3, ZenonT(40) DEF DataInv
<1> QED
  BY <1>9, <1>10, ZenonT(40)

\* The link of the call, when the call closes it.
LEMMA ShutKept ==
    ASSUME MeshInv, NEW x \in Ends,
           NEW acc, NEW c, NEW p, NEW d, NEW st, NEW es, NEW ch, NEW pend, NEW act,
           AfterCall(x, acc, c, p, d, st, es, ch, pend, act), Shut(x, acc, p, d), NEW z \in {x, Peer(x)}
    PROVE  EndInv(es, ch, act, z) /\ StepInv(es, ch, z) /\ DataInv(st, es, ch, pend, z)
<1> DEFINE y == Peer(x)
<1>1. /\ y \in Ends /\ Peer(y) = x /\ y # x /\ x[2] \in {0, 1} /\ y[2] = 1 - x[2]
      /\ Open(ends, x) /\ ends[y].state # "idle"
  BY LinkFacts, ZenonT(40) DEF AfterCall
<1>2. /\ es[x].state = "closed" /\ es[x].sy = NewSyncer(x[2]) /\ DOMAIN es[x] = {"state", "sy"}
      /\ ch[x] = <<>> /\ act[x] = None /\ es[y] = ends[y] /\ st[NodeOf(x)] = acc.store
      /\ ch[y] = IF ends[y].state = "closed" THEN <<>> ELSE chan[y] \o acc.out
      /\ Faces(x, p, d)
  BY <1>1, ZenonT(40) DEF AfterCall, Shut
<1>3. ~Open(es, x) /\ (Open(es, y) <=> Open(ends, y))
  BY <1>2, ZenonT(40) DEF Open
<1>4. /\ IsSyncer(NewSyncer(x[2]), x[2]) /\ DOMAIN NewSyncer(x[2]).ours = {}
      /\ \A S : Snapped(NewSyncer(x[2]), S)
      /\ \A w, S : Arrives(NewSyncer(x[2]), w, S)
  BY <1>1, NewFacts, ZenonT(40)
<1>5. EndInv(es, ch, act, y) /\ Snapped(ends[y].sy, st[NodeOf(y)]) /\ Sound(ch[y], acc.store)
  BY PeerKept, ZenonT(40)
<1> HIDE DEF y
<1>6. EndInv(es, ch, act, x)
  <2>1. ch[x] \in Seq(Messages) /\ act[x] \in {None} \cup Nat
    BY <1>2, EmptyChannel, ZenonT(40)
  <2>2. /\ es[x].state \in {"idle", "handshake", "up", "closed"}
        /\ es[x].state # "idle" /\ es[Peer(x)].state # "idle"
    BY <1>1, <1>2, ZenonT(40) DEF y
  <2>3. IsSyncer(es[x].sy, x[2]) /\ DOMAIN es[x].sy.ours = {}
    BY <1>2, <1>4, ZenonT(40)
  <2> QED
    BY <1>2, <2>1, <2>2, <2>3, ZenonT(40) DEF EndInv
<1>7. StepInv(es, ch, x)
  BY <1>3, Zenon DEF StepInv
<1>8. DataInv(st, es, ch, pend, x)
  BY <1>2, <1>4, EmptyChannel, ZenonT(40) DEF DataInv
<1>9. StepInv(es, ch, y)
  <2> SUFFICES ASSUME Open(ends, y)
               PROVE  \E q, w : w \in Seq(Messages) /\ InStep(y[2], es[y].sy, ch[y], q, w)
    BY <1>1, <1>3, ZenonT(40) DEF StepInv
  <2>1. p = es[y].sy /\ d \o acc.out = ch[y]
    BY <1>2, Zenon DEF Faces, Open, y
  <2>2. PICK s, w : w \in Seq(Messages) /\ InStep(x[2], s, w, p, d \o acc.out)
    BY SMTT(30) DEF Shut
  <2>3. InStep(y[2], es[y].sy, ch[y], s, w)
    BY <1>1, <2>1, <2>2, Turned, ZenonT(40)
  <2> QED
    BY <2>2, <2>3, ZenonT(40)
<1>10. DataInv(st, es, ch, pend, y)
  BY <1>1, <1>2, <1>3, <1>5, ZenonT(40) DEF DataInv
<1> QED
  BY <1>5, <1>6, <1>7, <1>8, <1>9, <1>10, ZenonT(40) DEF y

\* What the call leaves is what Drain expects.
LEMMA CallKept ==
    ASSUME MeshInv, NEW x \in Ends,
           NEW acc, NEW c, NEW p, NEW d, NEW st, NEW es, NEW ch, NEW pend, NEW act,
           AfterCall(x, acc, c, p, d, st, es, ch, pend, act)
    PROVE  Before(NodeOf(x), st, es, ch, pend, act)
<1>1. InCall(x, acc, c, p, d) /\ NodeOf(x) \in Nodes
  BY LinkFacts, ZenonT(40) DEF AfterCall
<1>2. LinksInv(st, es, ch, pend, act)
  <2> SUFFICES ASSUME NEW z \in Ends
               PROVE  EndInv(es, ch, act, z) /\ StepInv(es, ch, z) /\ DataInv(st, es, ch, pend, z)
    BY DEF LinksInv
  <2>1. CASE z # x /\ z # Peer(x)
    BY <2>1, OtherLinksKept, ZenonT(40)
  <2>2. CASE z \in {x, Peer(x)} /\ Live(x, acc, c, p, d)
    BY <2>2, LiveInStep, LiveCovered, PeerKept, ZenonT(40)
  <2>3. CASE z \in {x, Peer(x)} /\ Shut(x, acc, p, d)
    BY <2>3, ShutKept, ZenonT(40)
  <2> QED
    BY <1>1, <2>1, <2>2, <2>3, ZenonT(40) DEF InCall
<1>3. StoreInv(st)
  <2>1. Fits(acc.store, net.room[NodeOf(x)])
    BY <1>1, ZenonT(40) DEF InCall, RoomAt
  <2> QED
    BY <2>1, ZenonT(40) DEF MeshInv, StoreInv, Fits, AfterCall
<1>4. ASSUME NEW z \in pend
      PROVE  z \in Ends /\ es[z].state = "up" /\ (NodeOf(z) # NodeOf(x) => act[z] # None)
  <2>1. CASE z \in UpAt(NodeOf(x)) /\ z # x
    BY <2>1, ZenonT(40) DEF AfterCall, UpAt, IsUp
  <2>2. CASE z \in pending /\ z # x
    <3>1. z \in Ends /\ ends[z].state = "up" /\ active[z] # None
      BY <2>2, ZenonT(40) DEF MeshInv, PendingInv
    <3>2. es[z] = ends[z] /\ act[z] = active[z]
      BY <2>2, <3>1, ZenonT(40) DEF AfterCall
    <3> QED
      BY <3>1, <3>2, Zenon
  <2>3. CASE z = x /\ acc.state = "up"
    BY <2>3, Zenon DEF AfterCall
  <2>4. CASE z \in pending /\ z = x
    <3>1. acc.state # "closed" /\ ends[x].state = "up"
      BY <1>4, <2>4, ZenonT(40) DEF AfterCall, MeshInv, PendingInv
    <3>2. acc.state = "up"
      BY <1>1, <3>1, ZenonT(40) DEF InCall, Live, Shut
    <3> QED
      BY <2>4, <3>2, ZenonT(40) DEF AfterCall
  <2> QED
    BY <1>4, <2>1, <2>2, <2>3, <2>4, ZenonT(40) DEF AfterCall
<1> QED
  BY <1>1, <1>2, <1>3, <1>4, ZenonT(40) DEF Before, MeshInv

LEMMA OnBytesKeeps ==
    ASSUME MeshInv, NEW x \in Ends, NEW k \in 1..Len(chan[x]), OnBytes(x, k)
    PROVE  MeshInv'
<1>1. PICK acc, c, p, d, st, es, ch, pend, act :
        /\ AfterCall(x, acc, c, p, d, st, es, ch, pend, act)
        /\ Drain(NodeOf(x), st, es, ch, pend, act) /\ net' = net
        /\ faults' = faults \cup ({acc.error} \ {"none"})
  BY CallLeaves, ZenonT(40)
<1>2. Before(NodeOf(x), st, es, ch, pend, act) /\ NodeOf(x) \in Nodes
  BY <1>1, CallKept, LinkFacts, ZenonT(40)
<1>3. /\ acc.error \in {"none", "ResourceLimit"}
      /\ acc.error = "ResourceLimit" => Cardinality(st[NodeOf(x)]) = net.room[NodeOf(x)]
  BY <1>1, ZenonT(40) DEF AfterCall, InCall, Live, Shut, RoomAt
<1>4. "ResourceLimit" \in faults => \E j \in Nodes : Cardinality(st[j]) = net.room[j]
  <2>1. StoreInv(st) /\ \A j \in Nodes : store[j] \subseteq st[j]
    BY <1>1, <1>2, ZenonT(40) DEF Before, AfterCall
  <2> QED
    BY <2>1, StaysFull, ZenonT(40) DEF MeshInv
<1>5. /\ faults' \subseteq {"ResourceLimit"}
      /\ "ResourceLimit" \in faults' => \E j \in Nodes : Cardinality(st[j]) = net.room[j]
  BY <1>1, <1>2, <1>3, <1>4, ZenonT(40) DEF MeshInv
<1> QED
  BY <1>1, <1>2, <1>5, Rebuilt, ZenonT(40)

-----------------------------------------------------------------------------
(* The invariant holds, and what it says of the runs' invariants.          *)

LEMMA InitHolds ==
    ASSUME Init
    PROVE  MeshInv
<1>1. ASSUME NEW x \in Ends
      PROVE  EndInv(ends, chan, active, x) /\ StepInv(ends, chan, x)
                /\ DataInv(store, ends, chan, pending, x)
  <2>1. Peer(x) \in Ends /\ x[2] \in {0, 1}
    BY EndFacts, ZenonT(40)
  <2>2. /\ ends[x] = Fresh(x) /\ ends[Peer(x)] = Fresh(Peer(x))
        /\ chan[x] = <<>> /\ active[x] = None
    BY <2>1, ZenonT(40) DEF Init
  <2>3. /\ DOMAIN ends[x] = {"state", "sy"} /\ ends[x].state = "idle"
        /\ ends[x].sy = NewSyncer(x[2]) /\ ends[Peer(x)].state = "idle"
    BY <2>2 DEF Fresh
  <2>4. ~Open(ends, x) /\ ~Open(ends, Peer(x))
    BY <2>3, ZenonT(40) DEF Open
  <2>5. EndInv(ends, chan, active, x)
    BY <2>1, <2>2, <2>3, <2>4, NewFacts, EmptyChannel, ZenonT(40) DEF EndInv
  <2> QED
    BY <2>1, <2>2, <2>3, <2>4, <2>5, NewFacts, EmptyChannel, ZenonT(40) DEF StepInv, DataInv
<1>2. StoreInv(store) /\ net \in Networks
  BY NetworksAssumption, ZenonT(40) DEF Init, StoreInv
<1>3. LinksInv(store, ends, chan, pending, active)
  BY <1>1, ZenonT(40) DEF LinksInv
<1> QED
  BY <1>2, <1>3, ZenonT(40) DEF Init, MeshInv, PendingInv

LEMMA NextKeeps ==
    ASSUME MeshInv, [Next]_vars
    PROVE  MeshInv'
<1>1. CASE UNCHANGED vars
  <2>1. /\ net' = net /\ store' = store /\ ends' = ends /\ chan' = chan
        /\ pending' = pending /\ active' = active /\ faults' = faults
    BY <1>1 DEF vars
  <2> QED
    BY <2>1, ZenonT(40) DEF MeshInv, StoreInv, LinksInv, EndInv, StepInv, DataInv, PendingInv, NodeOf
<1>2. CASE \E l \in Links : Establish(l)
  BY <1>2, EstablishKeeps, ZenonT(40)
<1>3. CASE \E n \in Nodes, e \in Entries : CreateEntry(n, e)
  BY <1>3, CreateEntryKeeps, ZenonT(40)
<1>4. CASE \E x \in Ends : \E k \in 1..Len(chan[x]) : OnBytes(x, k)
  BY <1>4, OnBytesKeeps, ZenonT(40)
<1>5. CASE \E x \in Ends : OnTransportClosed(x)
  BY <1>5, OnTransportClosedKeeps, ZenonT(40)
<1>6. CASE \E n \in Nodes : Tick(n)
  BY <1>6, TickKeeps
<1> QED
  BY <1>1, <1>2, <1>3, <1>4, <1>5, <1>6, ZenonT(40) DEF Next

LEMMA InvariantHolds ==
    Spec => []MeshInv
  BY InitHolds, NextKeeps, PTL DEF Spec

LEMMA FaultFree ==
    ASSUME MeshInv
    PROVE  NoSyncFaults
<1>1. ASSUME NEW x \in Ends
      PROVE  /\ ends[x].state \in {"idle", "handshake", "up", "closed"}
             /\ ends[x].sy.next_sid \in Nat
             /\ \A sid \in DOMAIN ends[x].sy.ours : sid \in Nat /\ sid % 2 = x[2]
             /\ \A sid \in DOMAIN ends[x].sy.theirs : sid \in Nat /\ sid % 2 # x[2]
             /\ active[x] \in {None} \cup Nat
  <2>1. EndInv(ends, chan, active, x) /\ StepInv(ends, chan, x) /\ x[2] \in {0, 1}
    BY EndFacts, ZenonT(40) DEF MeshInv, LinksInv
  <2>2. CASE ~Open(ends, x)
    BY <2>1, <2>2, NewFacts, ZenonT(40) DEF EndInv, IsSyncer, Sids
  <2>3. CASE Open(ends, x)
    <3>1. PICK p, d : InStep(x[2], ends[x].sy, chan[x], p, d)
      BY <2>1, <2>3, ZenonT(40) DEF StepInv
    <3>2. DOMAIN ends[x].sy.ours = {} \/ \E s \in Sids(x[2]) : DOMAIN ends[x].sy.ours = {s}
      <4>1. Stage(x[2], ends[x].sy.ours, p.theirs, chan[x], d)
        BY <3>1 DEF InStep
      <4> QED
        BY <4>1, StageDomains, Zenon
    <3> DEFINE r == 1 - x[2]
               theirs == ends[x].sy.theirs
    <3>3. DOMAIN theirs = {} \/ \E s \in Sids(r) : DOMAIN theirs = {s}
      <4>1. Stage(r, p.ours, theirs, d, chan[x])
        BY <3>1, ZenonT(40) DEF InStep
      <4> HIDE DEF r, theirs
      <4> QED
        BY <4>1, StageDomains, Zenon
    <3>4. \A sid \in DOMAIN ends[x].sy.ours : sid \in Nat /\ sid % 2 = x[2]
      BY <3>2, ZenonT(40) DEF Sids
    <3>5. \A sid \in DOMAIN ends[x].sy.theirs : sid \in Nat /\ sid % 2 = 1 - x[2]
      BY <3>3, ZenonT(40) DEF Sids
    <3>6. 1 - x[2] # x[2]
      BY <2>1, OtherRole, ZenonT(40)
    <3>7. /\ ends[x].state \in {"idle", "handshake", "up", "closed"}
          /\ ends[x].sy.next_sid \in Nat /\ active[x] \in {None} \cup Nat
      BY <2>1, ZenonT(40) DEF EndInv, IsSyncer, Sids
    <3> QED
      BY <3>4, <3>5, <3>6, <3>7, ZenonT(40)
  <2> QED
    BY <2>2, <2>3, ZenonT(40)
<1>2. TypeOK
  BY <1>1, Zenon DEF TypeOK, MeshInv, StoreInv, PendingInv
<1> QED
  BY <1>2, ZenonT(40) DEF NoSyncFaults, MeshInv

LEMMA Agreed ==
    ASSUME MeshInv
    PROVE  SettledLinksAgree
<1>1. ASSUME NEW x \in Ends, ends[x].state = "up", ends[Peer(x)].state = "up",
             chan[x] = <<>>, chan[Peer(x)] = <<>>, active[x] = None
      PROVE  StoreAt(x) \ StoreAt(Peer(x)) \subseteq Missed(x) /\ Missed(x) \in Misses
  <2>1. EndInv(ends, chan, active, x) /\ DataInv(store, ends, chan, pending, x) /\ x \notin pending
    BY <1>1, ZenonT(40) DEF MeshInv, LinksInv, PendingInv
  <2>2. Covered(ends[x].sy, <<>>, <<>>, StoreAt(x), StoreAt(Peer(x)))
    BY <1>1, <2>1, ZenonT(40) DEF DataInv, StoreAt, Open
  <2>3. DOMAIN ends[x].sy.ours = {}
    BY <1>1, <2>1, ZenonT(40) DEF EndInv
  <2>4. Missed(x) \in Misses
    BY <2>1, ZenonT(40) DEF EndInv, IsSyncer, Missed
  <2> QED
    BY <2>2, <2>3, <2>4, NothingDue, ZenonT(40) DEF Missed
<1> SUFFICES ASSUME NEW l \in Links, BothUp(l), chan[<<l, Initiator>>] = <<>>, chan[<<l, Responder>>] = <<>>,
                    active[<<l, Initiator>>] = None, active[<<l, Responder>>] = None
             PROVE  LET x == <<l, Initiator>>
                        y == <<l, Responder>>
                    IN  /\ StoreAt(x) \ StoreAt(y) \subseteq Missed(x)
                        /\ StoreAt(y) \ StoreAt(x) \subseteq Missed(y)
                        /\ ~FrameLimited => StoreAt(x) = StoreAt(y)
  BY DEF SettledLinksAgree
<1> DEFINE x == <<l, Initiator>>
           y == <<l, Responder>>
<1>2. x \in Ends /\ y \in Ends /\ Peer(x) = y /\ Peer(y) = x
  BY DEF Ends, Peer, Initiator, Responder
<1>3. ends[x].state = "up" /\ ends[y].state = "up"
  BY Zenon DEF BothUp, IsUp
<1> HIDE DEF x, y
<1>4. /\ StoreAt(x) \ StoreAt(y) \subseteq Missed(x) /\ Missed(x) \in Misses
      /\ StoreAt(y) \ StoreAt(x) \subseteq Missed(y) /\ Missed(y) \in Misses
  BY <1>1, <1>2, <1>3, ZenonT(40) DEF x, y
<1>5. ~FrameLimited => Missed(x) = {} /\ Missed(y) = {}
  BY <1>4 DEF Misses
<1>6. ~FrameLimited => StoreAt(x) = StoreAt(y)
  BY <1>4, <1>5, ZenonT(40)
<1> QED
  BY <1>4, <1>6, ZenonT(40) DEF x, y

(***************************************************************************)
(* Correct peers never trip each other's checks, whatever the network, the *)
(* stores and the interleaving: no session message meets a session that is *)
(* not there (handle_recon_msg, handle_recon_done), no link is closed for  *)
(* its sessions, and the only sync error is a store that is full.          *)
(***************************************************************************)
THEOREM FaultsNever == Spec => []NoSyncFaults
  BY InvariantHolds, FaultFree, PTL

(***************************************************************************)
(* SyncScheduler's active and the core's open sessions are the same, in    *)
(* every state between two calls: no session the scheduler waits for is    *)
(* lost in the core, none in the core is forgotten by the scheduler.       *)
(***************************************************************************)
THEOREM ActiveAlwaysOpen == Spec => []ActiveIsOpen
<1>1. MeshInv => ActiveIsOpen
  BY Zenon DEF MeshInv, LinksInv, EndInv, ActiveIsOpen
<1> QED
  BY <1>1, InvariantHolds, PTL

(***************************************************************************)
(* On a link on which nothing runs and nothing is on its way, an end lacks *)
(* an entry of the other only if negentropy passed over it in the other's  *)
(* last session; without a frame limit the two have the same entries.  No  *)
(* entry that a node created, received or was refused half of a push with  *)
(* is forgotten by drainSyncsLocked, however many nodes, links and         *)
(* sessions there are.                                                     *)
(***************************************************************************)
THEOREM SettledAlwaysAgree == Spec => []SettledLinksAgree
  BY InvariantHolds, Agreed, PTL
=============================================================================
