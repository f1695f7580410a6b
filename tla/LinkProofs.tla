----------------------------- MODULE LinkProofs -----------------------------
(***************************************************************************)
(* The two drivers of one link, for any offers of versions, any interval   *)
(* of rekeying, any timeouts and any number of sends, and however the      *)
(* stream is cut into calls.                                               *)
(*                                                                         *)
(* What an end is about to read was written in a state that its peer has   *)
(* left.  The invariant therefore counts frames: the frame number j of an  *)
(* end is determined, up to its text, by the offers and by j, and so is    *)
(* the state of a driver by the numbers of frames it has read and sent.    *)
(***************************************************************************)
EXTENDS LinkDriver, FiniteSetTheorems, TLAPS

-----------------------------------------------------------------------------
(* The Noise layer: what one end writes, the other reads.                  *)

HasFields(hs) == DOMAIN hs = {"ss", "me", "re", "rs", "role", "step"}

HasState(ss) == DOMAIN ss = {"h", "ck", "cipher"}

\* Two states of a handshake that differ in what was mixed in at most.
SameKeys(g, hs) ==
    /\ HasFields(g) /\ g.me = hs.me /\ g.re = hs.re /\ g.rs = hs.rs
    /\ g.role = hs.role /\ g.step = hs.step

LEMMA SealedOpens ==
    ASSUME NEW c, NEW ad, NEW m
    PROVE  Decrypts(c, ad, EncryptWithAd(c, ad, m)) /\ EncryptWithAd(c, ad, m).pt = m
  BY DEF Decrypts, EncryptWithAd, Plain

LEMMA AfterEFacts ==
    ASSUME NEW hs, HasFields(hs), NEW pub
    PROVE  /\ SameKeys(AfterE(hs, pub), hs)
           /\ AfterE(hs, pub).ss = IF hs.step = 2
                                   THEN MixKey(MixHash(hs.ss, pub), Secret(hs, "ee"))
                                   ELSE MixHash(hs.ss, pub)
<1> DEFINE g == [hs EXCEPT !.ss = MixHash(@, pub)]
<1>1. SameKeys(g, hs) /\ g.ss = MixHash(hs.ss, pub)
  BY DEF SameKeys, HasFields
<1> HIDE DEF g
<1>2. Secret(g, "ee") = Secret(hs, "ee")
  BY <1>1 DEF Secret, SameKeys
<1>3. AfterE(hs, pub) = IF hs.step = 2 THEN [g EXCEPT !.ss = MixKey(@, Secret(g, "ee"))] ELSE g
  BY DEF AfterE, MixToken, g
<1> QED
  BY <1>1, <1>2, <1>3 DEF SameKeys, HasFields

\* The token that follows the static key.
LastToken(hs) == IF hs.step = 2 THEN "es" ELSE "se"

LEMMA AfterSFacts ==
    ASSUME NEW hs, HasFields(hs), NEW ct
    PROVE  /\ SameKeys(AfterS(hs, ct), hs)
           /\ AfterS(hs, ct).ss = MixKey(AfterSealed(hs.ss, ct), Secret(hs, LastToken(hs)))
<1> DEFINE g == [hs EXCEPT !.ss = AfterSealed(@, ct)]
<1>1. SameKeys(g, hs) /\ g.ss = AfterSealed(hs.ss, ct)
  BY DEF SameKeys, HasFields
<1> HIDE DEF g
<1>2. Secret(g, LastToken(hs)) = Secret(hs, LastToken(hs))
  BY <1>1 DEF Secret, SameKeys
<1>3. AfterS(hs, ct) = [g EXCEPT !.ss = MixKey(@, Secret(g, LastToken(hs)))]
  BY DEF AfterS, MixToken, LastToken, g
<1> QED
  BY <1>1, <1>2, <1>3 DEF SameKeys, HasFields

\* The writer and the reader of the next message: they have mixed in the same,
\* and the writer knows the reader's ephemeral key where it needs it.
MayExchange(w, r) ==
    /\ HasFields(w) /\ HasFields(r) /\ w.ss = r.ss
    /\ w.step = r.step /\ w.step \in 1..3
    /\ w.role = IF w.step = 2 THEN "responder" ELSE "initiator"
    /\ r.role = IF w.step = 2 THEN "initiator" ELSE "responder"
    /\ w.step # 1 => w.re = Ephemeral(r.me)

\* What becomes of them.
Exchanged(w, r, w2, r2) ==
    /\ HasFields(w2) /\ HasFields(r2) /\ w2.ss = r2.ss
    /\ w2.step = w.step + 1 /\ r2.step = w.step + 1
    /\ w2.role = w.role /\ w2.me = w.me /\ w2.re = w.re /\ w2.rs = w.rs
    /\ r2.role = r.role /\ r2.me = r.me
    /\ r2.re = IF w.step # 3 THEN Ephemeral(w.me) ELSE r.re
    /\ r2.rs = IF w.step # 1 THEN Static(w.me) ELSE r.rs

LEMMA SecretsMeet ==
    ASSUME NEW w, NEW r, NEW r2, HasFields(w), HasFields(r2),
           w.role = (IF w.step = 2 THEN "responder" ELSE "initiator"),
           r2.role = (IF w.step = 2 THEN "initiator" ELSE "responder"),
           r2.step = w.step, w.re = Ephemeral(r2.me)
    PROVE  /\ r2.re = Ephemeral(w.me) => Secret(w, "ee") = Secret(r2, "ee")
           /\ r2.rs = Static(w.me) => Secret(w, LastToken(w)) = Secret(r2, LastToken(r2))
<1>1. r2.re = Ephemeral(w.me) => Secret(w, "ee") = Secret(r2, "ee")
  BY DEF Secret
<1>2. CASE w.step = 2
  BY <1>1, <1>2 DEF Secret, LastToken
<1>3. CASE w.step # 2
  BY <1>1, <1>3 DEF Secret, LastToken
<1> QED
  BY <1>2, <1>3

LEMMA MessageRead ==
    ASSUME NEW w, NEW r, MayExchange(w, r)
    PROVE  /\ ReadMessage(r, WriteMessage(w).msg).ok
           /\ Exchanged(w, r, WriteMessage(w).hs, ReadMessage(r, WriteMessage(w).msg).hs)
<1> DEFINE e == Ephemeral(w.me)
           wa == IF w.step # 3 THEN AfterE(w, e) ELSE w
           s == IF w.step # 1 THEN EncryptAndHash(wa.ss, Static(w.me)) ELSE NoCt
           wb == IF w.step # 1 THEN AfterS(wa, s) ELSE wa
           p == EncryptAndHash(wb.ss, NoPair)
           m == [step |-> w.step, e |-> e, s |-> s, payload |-> p]
           r1 == [r EXCEPT !.re = e]
           ra == IF r.step # 3 THEN AfterE(r1, e) ELSE r
           r2 == [ra EXCEPT !.rs = s.pt]
           rb == IF r.step # 1 THEN AfterS(r2, s) ELSE ra
<1>1. /\ WriteMessage(w).hs = Advance([wb EXCEPT !.ss = AfterSealed(@, p)])
      /\ WriteMessage(w).msg = m
  BY DEF WriteMessage
<1>2. /\ ReadMessage(r, m).hs = Advance([rb EXCEPT !.ss = AfterSealed(@, p)])
      /\ ReadMessage(r, m).ok <=> /\ ~ OurTurn(r) /\ w.step = r.step
                                  /\ r.step # 1 => Opens(ra.ss, s)
                                  /\ Opens(rb.ss, p)
  BY DEF ReadMessage
<1> HIDE DEF m
<1>3. HasFields(w) /\ HasFields(r) /\ w.ss = r.ss /\ w.step = r.step /\ w.step \in 1..3
  BY DEF MayExchange
<1>4. /\ HasFields(r1) /\ r1.re = e /\ r1.ss = r.ss /\ r1.me = r.me /\ r1.rs = r.rs
      /\ r1.role = r.role /\ r1.step = r.step
  BY <1>3 DEF HasFields
<1> HIDE DEF r1
<1>5. /\ SameKeys(wa, w) /\ wa.ss = ra.ss /\ HasFields(ra)
      /\ ra.me = r.me /\ ra.rs = r.rs /\ ra.role = r.role /\ ra.step = r.step
      /\ ra.re = IF w.step # 3 THEN e ELSE r.re
  <2>1. CASE w.step = 3
    BY <1>3, <2>1, Zenon DEF SameKeys
  <2>2. CASE w.step # 3
    <3>1. w.step = 2 => Secret(w, "ee") = Secret(r1, "ee")
      BY <1>3, <1>4, SecretsMeet DEF MayExchange
    <3> QED
      BY <1>3, <1>4, <2>2, <3>1, AfterEFacts DEF SameKeys
  <2> QED
    BY <2>1, <2>2
<1> HIDE DEF wa, ra
<1>6. w.step # 1 => Opens(ra.ss, s) /\ s.pt = Static(w.me)
  BY <1>5, SealedOpens DEF Opens, EncryptAndHash
<1> HIDE DEF s
<1>7. /\ HasFields(r2) /\ r2.rs = s.pt /\ r2.ss = ra.ss /\ r2.me = r.me
      /\ r2.re = ra.re /\ r2.role = r.role /\ r2.step = r.step
  BY <1>5 DEF HasFields
<1> HIDE DEF r2
<1>8. /\ SameKeys(wb, w) /\ wb.ss = rb.ss /\ HasFields(rb)
      /\ rb.me = r.me /\ rb.role = r.role /\ rb.step = r.step /\ rb.re = ra.re
      /\ rb.rs = IF w.step # 1 THEN Static(w.me) ELSE r.rs
  <2>1. CASE w.step = 1
    BY <1>3, <1>5, <2>1 DEF SameKeys
  <2>2. CASE w.step # 1
    <3>1. Secret(wa, LastToken(wa)) = Secret(r2, LastToken(r2))
      BY <1>3, <1>5, <1>6, <1>7, <2>2, SecretsMeet DEF MayExchange, SameKeys
    <3> QED
      BY <1>3, <1>5, <1>6, <1>7, <2>2, <3>1, AfterSFacts DEF SameKeys
  <2> QED
    BY <2>1, <2>2
<1> HIDE DEF wb, rb
<1>9. Opens(rb.ss, p)
  BY <1>8, SealedOpens DEF Opens, EncryptAndHash
<1> HIDE DEF p
<1>10. ~OurTurn(r)
  BY <1>3 DEF OurTurn, MayExchange
<1>11. ASSUME NEW g, HasFields(g)
       PROVE  LET a == Advance([g EXCEPT !.ss = AfterSealed(@, p)])
              IN  /\ HasFields(a) /\ a.ss = AfterSealed(g.ss, p) /\ a.step = g.step + 1
                  /\ a.me = g.me /\ a.re = g.re /\ a.rs = g.rs /\ a.role = g.role
  BY <1>11 DEF Advance, HasFields
<1>12. Exchanged(w, r, WriteMessage(w).hs, ReadMessage(r, m).hs)
  BY <1>1, <1>2, <1>3, <1>5, <1>8, <1>11 DEF Exchanged, SameKeys
<1> QED
  BY <1>1, <1>2, <1>3, <1>6, <1>9, <1>10, <1>12

-----------------------------------------------------------------------------
(* The handshake of two ends with the prologue P: I and R are the states   *)
(* of the initiator and of the responder, numbered by the messages that    *)
(* they have written or read.                                              *)

I0(P) == NewXX("initiator", "initiator", P)
R0(P) == NewXX("responder", "responder", P)
Message1(P) == WriteMessage(I0(P)).msg
I1(P) == WriteMessage(I0(P)).hs
R1(P) == ReadMessage(R0(P), Message1(P)).hs
Message2(P) == WriteMessage(R1(P)).msg
R2(P) == WriteMessage(R1(P)).hs
I2(P) == ReadMessage(I1(P), Message2(P)).hs
Message3(P) == WriteMessage(I2(P)).msg
I3(P) == WriteMessage(I2(P)).hs
R3(P) == ReadMessage(R2(P), Message3(P)).hs

LEMMA HandshakeRuns ==
    ASSUME NEW P
    PROVE  /\ ReadMessage(R0(P), Message1(P)).ok
           /\ ReadMessage(I1(P), Message2(P)).ok
           /\ ReadMessage(R2(P), Message3(P)).ok
           /\ R1(P).step = 2 /\ R2(P).step = 3 /\ R3(P).step = 4
           /\ I2(P).step = 3 /\ I3(P).step = 4
           /\ I3(P).ss = R3(P).ss /\ I3(P).role = "initiator" /\ R3(P).role = "responder"
           /\ I3(P).rs = Static("responder") /\ R3(P).rs = Static("initiator")
<1>1. /\ HasFields(I0(P)) /\ HasFields(R0(P)) /\ I0(P).ss = R0(P).ss
      /\ I0(P).step = 1 /\ R0(P).step = 1 /\ I0(P).role = "initiator" /\ R0(P).role = "responder"
      /\ I0(P).me = "initiator" /\ R0(P).me = "responder"
  BY DEF I0, R0, NewXX, HasFields
<1>2. ReadMessage(R0(P), Message1(P)).ok /\ Exchanged(I0(P), R0(P), I1(P), R1(P))
  BY <1>1, MessageRead DEF MayExchange, I1, R1, Message1
<1>3. ReadMessage(I1(P), Message2(P)).ok /\ Exchanged(R1(P), I1(P), R2(P), I2(P))
  <2>1. MayExchange(R1(P), I1(P))
    BY <1>1, <1>2 DEF MayExchange, Exchanged
  <2> QED
    BY <2>1, MessageRead DEF R2, I2, Message2
<1>4. ReadMessage(R2(P), Message3(P)).ok /\ Exchanged(I2(P), R2(P), I3(P), R3(P))
  <2>1. MayExchange(I2(P), R2(P))
    BY <1>1, <1>2, <1>3 DEF MayExchange, Exchanged
  <2> QED
    BY <2>1, MessageRead DEF I3, R3, Message3
<1> QED
  BY <1>1, <1>2, <1>3, <1>4 DEF Exchanged

-----------------------------------------------------------------------------
(* The transport ciphers.  Both ends of a direction rekey at the same      *)
(* message, because the number of rekeyings is a function of the nonce.    *)

Epoch(n) == IF n = 0 THEN 0 ELSE (n - 1) \div RekeyInterval

CipherAt(P, dir, n) ==
    [k |-> [chain |-> I3(P).ss.ck, dir |-> dir, epoch |-> Epoch(n)], n |-> n]

SealedAt(P, dir, n, m) == EncryptWithAd(RekeyIfDue(CipherAt(P, dir, n)), <<>>, m)

LEMMA DivUnique ==
    ASSUME NEW a \in Nat, NEW b \in Nat, b >= 1, NEW q \in Nat, q * b <= a, a < q * b + b
    PROVE  a \div b = q
  OBVIOUS

LEMMA EpochGrows ==
    ASSUME NEW n \in Nat
    PROVE  /\ Epoch(n) \in Nat
           /\ Epoch(n + 1) = IF n > 0 /\ n % RekeyInterval = 0 THEN Epoch(n) + 1 ELSE Epoch(n)
<1> DEFINE R == RekeyInterval
<1>1. R \in Nat /\ R >= 1
  BY RekeyAssumption
<1> HIDE DEF R
<1>2. CASE n = 0
  <2>1. 0 \div R = 0
    BY <1>1
  <2> QED
    BY <1>2, <2>1 DEF Epoch, R
<1>3. CASE n > 0
  <2> DEFINE q == n \div R
             r == n % R
  <2>1. q \in Nat /\ r \in Nat /\ r < R /\ n = R * q + r
    BY <1>1
  <2>2. Epoch(n + 1) = q /\ Epoch(n) = (n - 1) \div R /\ n - 1 \in Nat
    BY <1>3 DEF Epoch, R
  <2> HIDE DEF q, r
  <2>3. R * q = q * R /\ q * R \in Nat
    BY <1>1, <2>1
  <2>4. CASE r = 0
    <3>1. q >= 1
      BY <1>1, <1>3, <2>1, <2>4
    <3>2. q - 1 \in Nat /\ (q - 1) * R = q * R - R
      BY <1>1, <2>1, <3>1
    <3>3. (n - 1) \div R = q - 1
      BY <1>1, <1>3, <2>1, <2>3, <2>4, <3>2, DivUnique
    <3> QED
      BY <1>3, <2>1, <2>2, <2>4, <3>2, <3>3 DEF r, R
  <2>5. CASE r # 0
    <3>1. (n - 1) \div R = q
      BY <1>1, <1>3, <2>1, <2>3, <2>5, DivUnique
    <3> QED
      BY <1>3, <2>1, <2>2, <2>5, <3>1 DEF r, R
  <2> QED
    BY <2>4, <2>5
<1> QED
  BY <1>2, <1>3

LEMMA NextCipher ==
    ASSUME NEW P, NEW dir \in {"c1", "c2"}, NEW n \in Nat
    PROVE  NextNonce(RekeyIfDue(CipherAt(P, dir, n))) = CipherAt(P, dir, n + 1)
<1> DEFINE K(x) == [chain |-> I3(P).ss.ck, dir |-> dir, epoch |-> x]
           c == CipherAt(P, dir, n)
           d == RekeyIfDue(c)
<1>1. c = [k |-> K(Epoch(n)), n |-> n]
  BY DEF CipherAt
<1>2. d = [k |-> K(Epoch(n + 1)), n |-> n]
  <2>1. CASE n > 0 /\ n % RekeyInterval = 0
    <3>1. d = [c EXCEPT !.k.epoch = @ + 1]
      BY <1>1, <2>1 DEF RekeyIfDue, RekeyPreservingNonce
    <3>2. d = [k |-> K(Epoch(n) + 1), n |-> n]
      BY <1>1, <3>1
    <3> QED
      BY <2>1, <3>2, EpochGrows
  <2>2. CASE ~(n > 0 /\ n % RekeyInterval = 0)
    <3>1. d = c
      BY <1>1, <2>2 DEF RekeyIfDue
    <3> QED
      BY <1>1, <2>2, <3>1, EpochGrows
  <2> QED
    BY <2>1, <2>2
<1> HIDE DEF d
<1>3. d.k # NoKey
  <2>1. d.k.dir = dir /\ NoKey.dir = ""
    BY <1>2 DEF NoKey
  <2> QED
    BY <2>1, Zenon
<1>4. NextNonce(d) = [k |-> K(Epoch(n + 1)), n |-> n + 1]
  BY <1>2, <1>3 DEF NextNonce
<1> QED
  BY <1>4 DEF CipherAt, d

-----------------------------------------------------------------------------
(* The streams.  What an end sends is its HELLO, its handshake messages    *)
(* and then sealed messages, numbered by their nonces; the version error   *)
(* takes the place of one of the first two.                                *)

Offer(P, e) == IF e = "initiator" THEN P[1] ELSE P[2]
Dir(e) == IF e = "initiator" THEN "c1" ELSE "c2"

\* The frames of an end before its first sealed one.
Lead(e) == IF e = "initiator" THEN 3 ELSE 2

\* The place of the sealed frame with nonce n.
Place(e, n) == n + Lead(e) + 1

Texts == {"ask", "note", "bad", "error"}

SealedFrames(P, e, n) == {Sealed(SealedAt(P, Dir(e), n, m)) : m \in Texts}

\* What may be the frame number j of end e.
Stream(P, e, j) ==
    CASE j = 1 -> {Hello(Offer(P, e)), ErrorMsg(2)}
      [] j = 2 -> {Handshake(IF e = "initiator" THEN Message1(P) ELSE Message2(P)), ErrorMsg(2)}
      [] j = 3 /\ e = "initiator" -> {Handshake(Message3(P))}
      [] OTHER -> SealedFrames(P, e, j - Lead(e) - 1)

Frames(P) == UNION {Stream(P, e, j) : e \in Ends, j \in Nat}

Highest(P, v) == v \in P[1] \cap P[2] /\ \A w \in P[1] \cap P[2] : w <= v

\* What holds of the driver of end e in any state.
Sane(P, e, d) ==
    /\ DOMAIN d = {"role", "versions", "state", "reason", "noise", "remote", "version"}
    /\ d.role = e /\ d.versions = Offer(P, e)
    /\ d.version # 0 => Highest(P, d.version)

\* The TransportState of end e after n messages sent and m received.
Ciphers(P, e, n, m) ==
    [send |-> CipherAt(P, Dir(e), n), recv |-> CipherAt(P, Dir(Peer(e)), m), hash |-> I3(P).ss.h]

\* A driver that is not closed, has read b frames and has sent s.
Running(P, e, d, b, s) ==
    /\ d.reason = ""
    /\ \/ d.state = "AwaitPeerHello" /\ d.noise = <<>>
          /\ b = 0 /\ s = (IF e = "initiator" THEN 1 ELSE 0)
       \/ d.state = "Handshaking" /\ e = "initiator" /\ d.noise = <<I1(P)>> /\ b = 1 /\ s = 2
       \/ d.state = "Handshaking" /\ e = "responder" /\ d.noise = <<R0(P)>> /\ b = 1 /\ s = 1
       \/ d.state = "Handshaking" /\ e = "responder" /\ d.noise = <<R2(P)>> /\ b = 2 /\ s = 2
       \/ /\ d.state = "Transport" /\ d.remote = Static(Peer(e))
          /\ \E n, m \in Nat : /\ d.noise = <<Ciphers(P, e, n, m)>>
                               /\ b = m + Lead(Peer(e)) /\ s = n + Lead(e)

Loud == {"ProtocolViolation", "VersionIncompatible"}
Expected == Loud \cup {"HandshakeTimeout", "PeerError", "LifetimeExpired"}

HasClosed(d) == d.state = "Closed" /\ d.noise = <<>> /\ d.reason \in Expected

EventKinds == {"established", "sync", "closed"}

\* The events of a driver in a state.
Log(state, ev) ==
    /\ ev \in Seq(EventKinds)
    /\ state \in {"AwaitPeerHello", "Handshaking"} => ev = <<>>
    /\ state = "Transport" => Len(ev) >= 1 /\ ev[1] = "established"
    /\ state # "Closed" <=> \A i \in DOMAIN ev : ev[i] # "closed"
    /\ \A i \in DOMAIN ev : i # 1 => ev[i] # "established"
    /\ \A i \in DOMAIN ev : i # Len(ev) => ev[i] # "closed"

Est(ev) == \E i \in DOMAIN ev : ev[i] = "established"

\* A call at end e, which has read b frames so far.  Before it the end had
\* sent s frames and had reported ev.
Written(P, e, c, b, s, ev) ==
    /\ DOMAIN c = {"d", "frames", "events"}
    /\ c.frames \in Seq(Frames(P)) /\ c.events \in Seq(EventKinds)
    /\ \A i \in DOMAIN c.frames : c.frames[i] \in Stream(P, e, s + i)
    /\ Sane(P, e, c.d) /\ Log(c.d.state, ev \o c.events)
    /\ Est(ev \o c.events) => /\ c.d.remote = Static(Peer(e))
                              /\ e = "responder" => Est(ev) \/ b >= 3
    /\ e = "initiator" /\ c.frames # <<>> /\ s + Len(c.frames) >= 3 => Est(ev \o c.events)

InCall(P, e, c, b, s, ev) ==
    /\ Written(P, e, c, b, s, ev)
    /\ \/ Running(P, e, c.d, b, s + Len(c.frames))
       \/ HasClosed(c.d) /\ (c.d.reason \notin Loud => c.frames = <<>>)

-----------------------------------------------------------------------------
(* Small facts about frames, events and counts.                            *)

LEMMA FramesLen ==
    ASSUME NEW P, NEW c \in Seq(Frames(P))
    PROVE  /\ Len(c) \in Nat /\ 0 \in 0..Len(c) /\ c \o <<>> = c
           /\ \A i \in 1..Len(c) : i \in DOMAIN c /\ i \in 0..Len(c) /\ i # 0
  OBVIOUS

LEMMA NoEvents == ~Est(<<>>) /\ <<>> \in Seq(EventKinds) /\ Len(<<>>) = 0
  BY DEF Est

LEMMA OneMore ==
    ASSUME NEW b \in Nat
    PROVE  /\ b + 0 = b /\ b >= b
           /\ b + 1 \in Nat /\ b + 1 >= b /\ (b = 0 => b + 1 = 1) /\ (b >= 3 => b + 1 >= 3)
  OBVIOUS

LEMMA Reads ==
    ASSUME NEW b \in Nat, NEW n \in Nat, NEW k \in 0..n
    PROVE  k \in Nat /\ b + k \in Nat /\ k <= n
  OBVIOUS

LEMMA TheOnly ==
    ASSUME NEW x
    PROVE  <<x>>[1] = x
  OBVIOUS

LEMMA ClosedIgnores ==
    ASSUME NEW c, NEW body, c.d.state = "Closed"
    PROVE  HandleBody(c, body) = c
  BY DEF HandleBody

\* What is on its way from end e, of whose frames the peer has read b.
Carries(P, e, c, b, s) ==
    /\ c \in Seq(Frames(P)) /\ b + Len(c) = s
    /\ \A i \in DOMAIN c : c[i] \in Stream(P, e, b + i)

LEMMA ReadDropped ==
    ASSUME NEW P, NEW e, NEW c, NEW b \in Nat, NEW s \in Nat, Carries(P, e, c, b, s),
           NEW k \in 0..Len(c)
    PROVE  Carries(P, e, SubSeq(c, k + 1, Len(c)), b + k, s)
<1> DEFINE r == SubSeq(c, k + 1, Len(c))
<1>1. c \in Seq(Frames(P)) /\ b + Len(c) = s /\ Len(c) \in Nat /\ k \in Nat /\ k <= Len(c)
  BY DEF Carries
<1>2. r \in Seq(Frames(P)) /\ Len(r) = Len(c) - k /\ DOMAIN r = 1..Len(c) - k
  BY <1>1
<1>3. \A i \in DOMAIN r : r[i] = c[k + i] /\ k + i \in DOMAIN c /\ b + k + i = b + (k + i)
  <2>1. SUFFICES ASSUME NEW i \in DOMAIN r
                 PROVE  r[i] = c[k + i] /\ k + i \in DOMAIN c /\ b + k + i = b + (k + i)
    OBVIOUS
  <2>2. i \in Nat /\ i >= 1 /\ k + i <= Len(c)
    BY <1>1, <1>2 DEF r
  <2>3. r[i] = c[k + i]
    BY <1>1, <1>2, <2>2
  <2> QED
    BY <1>1, <2>2, <2>3
<1> HIDE DEF r
<1>4. \A i \in DOMAIN r : r[i] \in Stream(P, e, b + k + i)
  BY <1>3, SMTT(30) DEF Carries
<1>5. (b + k) + Len(r) = s
  BY <1>1, <1>2, SMTT(30)
<1>6. Carries(P, e, r, b + k, s)
  BY <1>2, <1>4, <1>5, Zenon DEF Carries
<1> QED
  BY <1>6, Zenon DEF r

LEMMA SentCarried ==
    ASSUME NEW P, NEW e, NEW c, NEW b, NEW s \in Nat, NEW ev, Written(P, e, c, b, s, ev),
           NEW w, NEW m \in Nat, Carries(P, e, w, m, s)
    PROVE  Carries(P, e, w \o c.frames, m, s + Len(c.frames))
<1> DEFINE f == c.frames
           r == w \o f
<1>1. /\ f \in Seq(Frames(P)) /\ \A i \in DOMAIN f : f[i] \in Stream(P, e, s + i)
  BY DEF Written
<1>2. /\ w \in Seq(Frames(P)) /\ m + Len(w) = s /\ \A i \in DOMAIN w : w[i] \in Stream(P, e, m + i)
  BY Zenon DEF Carries
<1> HIDE DEF f
<1>3. r \in Seq(Frames(P)) /\ Len(r) = Len(w) + Len(f) /\ Len(w) \in Nat /\ Len(f) \in Nat
  BY <1>1, <1>2, SMTT(30)
<1>4. ASSUME NEW i \in DOMAIN r
      PROVE  r[i] \in Stream(P, e, m + i)
  <2>1. i \in 1..(Len(w) + Len(f))
    BY <1>1, <1>2, SMTT(30)
  <2>2. CASE i <= Len(w)
    <3>1. i \in DOMAIN w /\ r[i] = w[i]
      BY <1>1, <1>2, <2>1, <2>2, SMTT(30)
    <3> QED
      BY <1>2, <3>1, Zenon
  <2>3. CASE ~(i <= Len(w))
    <3>1. i - Len(w) \in DOMAIN f /\ r[i] = f[i - Len(w)]
      BY <1>1, <1>2, <2>1, <2>3, SMTT(30)
    <3>2. s + (i - Len(w)) = m + i
      BY <1>2, <1>3, <2>1
    <3> QED
      BY <1>1, <3>1, <3>2, ZenonT(40)
  <2> QED
    BY <2>2, <2>3, ZenonT(40)
<1>5. m + Len(r) = s + Len(f)
  BY <1>2, <1>3, SMTT(30)
<1> HIDE DEF r
<1> QED
  BY <1>3, <1>4, <1>5, ZenonT(40) DEF Carries, r, f

LEMMA Counting ==
    ASSUME NEW f \in [Ends -> Nat], NEW e \in Ends, NEW n \in Nat
    PROVE  /\ [f EXCEPT ![e] = @ + n] \in [Ends -> Nat]
           /\ [f EXCEPT ![e] = @ + n][e] = f[e] + n
           /\ \A x \in Ends : x # e => [f EXCEPT ![e] = @ + n][x] = f[x]
  OBVIOUS

LEMMA PeerFacts ==
    /\ Peer("initiator") = "responder" /\ Peer("responder") = "initiator"
    /\ \A e \in Ends : Peer(e) \in Ends /\ Peer(e) # e /\ Peer(Peer(e)) = e
                         /\ Ends = {e, Peer(e)}
<1>1. Peer("initiator") = "responder"
  BY DEF Peer, Ends
<1>2. Peer("responder") = "initiator"
  BY DEF Peer, Ends
<1> QED
  BY <1>1, <1>2 DEF Ends

LEMMA StreamFrames ==
    ASSUME NEW P, NEW e \in Ends, NEW j \in Nat, NEW f \in Stream(P, e, j)
    PROVE  f \in Frames(P)
  BY DEF Frames

\* Reading the three kinds of frames off their numbers.
LEMMA StreamAt ==
    ASSUME NEW P, NEW e \in Ends
    PROVE  /\ Stream(P, e, 1) = {Hello(Offer(P, e)), ErrorMsg(2)}
           /\ Stream(P, "initiator", 2) = {Handshake(Message1(P)), ErrorMsg(2)}
           /\ Stream(P, "responder", 2) = {Handshake(Message2(P)), ErrorMsg(2)}
           /\ Stream(P, "initiator", 3) = {Handshake(Message3(P))}
<1>1. Stream(P, e, 1) = {Hello(Offer(P, e)), ErrorMsg(2)}
  BY DEF Stream
<1>2. Stream(P, "initiator", 2) = {Handshake(Message1(P)), ErrorMsg(2)}
  BY DEF Stream
<1>3. Stream(P, "responder", 2) = {Handshake(Message2(P)), ErrorMsg(2)}
  BY DEF Stream
<1>4. Stream(P, "initiator", 3) = {Handshake(Message3(P))}
  BY DEF Stream
<1> QED
  BY <1>1, <1>2, <1>3, <1>4

LEMMA StreamSealed ==
    ASSUME NEW P, NEW e \in Ends, NEW n \in Nat
    PROVE  Stream(P, e, Place(e, n)) = SealedFrames(P, e, n)
<1> DEFINE j == Place(e, n)
<1>1. j # 1 /\ j # 2 /\ ~(j = 3 /\ e = "initiator") /\ j - Lead(e) - 1 = n
  BY DEF Lead, Place
<1> HIDE DEF j
<1>2. Stream(P, e, j) = SealedFrames(P, e, j - Lead(e) - 1)
  BY <1>1 DEF Stream
<1> QED
  BY <1>1, <1>2 DEF j

-----------------------------------------------------------------------------
(* The steps that calls are made of.                                       *)

LEMMA LogGrows ==
    ASSUME NEW ev \in Seq(EventKinds), NEW w \in Seq(EventKinds), NEW x \in EventKinds
    PROVE  /\ ev \o Append(w, x) \in Seq(EventKinds)
           /\ Est(ev \o Append(w, x)) <=> Est(ev \o w) \/ x = "established"
           /\ \A state : Log(state, ev \o w) /\ state # "Closed" /\ x = "closed"
                           => Log("Closed", ev \o Append(w, x))
           /\ Log("Transport", ev \o w) /\ x = "sync" => Log("Transport", ev \o Append(w, x))
           /\ Log("Handshaking", ev \o w) /\ x = "established"
                           => Log("Transport", ev \o Append(w, x))
<1> DEFINE u == ev \o w
           v == ev \o Append(w, x)
<1>1. /\ u \in Seq(EventKinds) /\ v \in Seq(EventKinds) /\ Len(v) = Len(u) + 1
      /\ v[Len(u) + 1] = x /\ \A i \in 1..Len(u) : v[i] = u[i]
  OBVIOUS
<1> HIDE DEF u, v
<1>2. /\ Len(u) \in Nat /\ Len(u) + 1 \in DOMAIN v /\ Len(u) + 1 \notin DOMAIN u
      /\ \A i \in DOMAIN u : i \in DOMAIN v /\ v[i] = u[i]
      /\ \A i \in DOMAIN v : i # Len(u) + 1 => i \in DOMAIN u /\ v[i] = u[i]
      /\ u # <<>> => Len(u) >= 1 /\ 1 \in DOMAIN u
      /\ u = <<>> => Len(u) + 1 = 1 /\ DOMAIN u = {}
  <2>1. DOMAIN u = 1..Len(u) /\ DOMAIN v = 1..Len(u) + 1 /\ Len(u) \in Nat
    BY <1>1
  <2>2. u # <<>> => Len(u) >= 1
    BY <1>1
  <2>3. u = <<>> => Len(u) = 0
    OBVIOUS
  <2> QED
    BY <1>1, <2>1, <2>2, <2>3
<1>3. Est(v) <=> Est(u) \/ x = "established"
  BY <1>1, <1>2, Zenon DEF Est
<1>4. ASSUME NEW state, Log(state, u), state # "Closed", x = "closed"
      PROVE  Log("Closed", v)
  <2>1. \A i \in DOMAIN v : v[i] # "established" \/ i = 1
    BY <1>1, <1>2, <1>4 DEF Log
  <2>2. \A i \in DOMAIN v : i # Len(v) => v[i] # "closed"
    BY <1>1, <1>2, <1>4 DEF Log
  <2>3. ~ \A i \in DOMAIN v : v[i] # "closed"
    BY <1>1, <1>2, <1>4
  <2> QED
    BY <1>1, <2>1, <2>2, <2>3 DEF Log
<1>5. ASSUME Log("Transport", u), x = "sync"
      PROVE  Log("Transport", v)
  <2>1. Len(v) >= 1 /\ v[1] = "established"
    BY <1>1, <1>2, <1>5 DEF Log
  <2>2. \A i \in DOMAIN v : v[i] # "closed" /\ (i # 1 => v[i] # "established")
    BY <1>1, <1>2, <1>5 DEF Log
  <2> QED
    BY <1>1, <2>1, <2>2 DEF Log
<1>6. ASSUME Log("Handshaking", u), x = "established"
      PROVE  Log("Transport", v)
  BY <1>1, <1>2, <1>6 DEF Log
<1> QED
  BY <1>1, <1>3, <1>4, <1>5, <1>6 DEF u, v

\* What closing makes of a call.
HasEnded(P, e, c, k, r) ==
    /\ DOMAIN k = {"d", "frames", "events"} /\ k.frames = c.frames
    /\ k.events = Append(c.events, "closed")
    /\ Sane(P, e, k.d) /\ k.d.state = "Closed" /\ k.d.noise = <<>>
    /\ k.d.reason = r /\ k.d.remote = c.d.remote

LEMMA ClosedFacts ==
    ASSUME NEW P, NEW e \in Ends, NEW c, DOMAIN c = {"d", "frames", "events"}, Sane(P, e, c.d), NEW r
    PROVE  HasEnded(P, e, c, Closed(c, r), r)
  BY Zenon DEF HasEnded, Closed, Report, Sane

LEMMA ClosesLoudly ==
    ASSUME NEW P, NEW e \in Ends, NEW c, NEW b \in Nat, NEW s \in Nat, NEW ev \in Seq(EventKinds),
           Written(P, e, c, b, s, ev), c.d.state # "Closed", NEW r \in Loud, NEW b2 \in Nat, b2 >= b
    PROVE  InCall(P, e, Closed(c, r), b2, s, ev)
<1> DEFINE k == Closed(c, r)
<1>1. /\ DOMAIN k = {"d", "frames", "events"} /\ k.frames = c.frames
      /\ k.events = Append(c.events, "closed")
      /\ Sane(P, e, k.d) /\ k.d.state = "Closed" /\ k.d.noise = <<>>
      /\ k.d.reason = r /\ k.d.remote = c.d.remote
  <2>1. DOMAIN c = {"d", "frames", "events"} /\ Sane(P, e, c.d)
    BY DEF Written
  <2>2. HasEnded(P, e, c, k, r)
    BY <2>1, ClosedFacts
  <2> HIDE DEF k
  <2> QED
    BY <2>2 DEF HasEnded
<1> HIDE DEF k
<1>2. /\ "closed" \in EventKinds /\ c.events \in Seq(EventKinds)
      /\ ev \o c.events \in Seq(EventKinds) /\ Log(c.d.state, ev \o c.events)
  BY DEF Written, EventKinds
<1>3. Log("Closed", ev \o k.events) /\ (Est(ev \o k.events) <=> Est(ev \o c.events))
  BY <1>1, <1>2, LogGrows
<1>4. HasClosed(k.d)
  BY <1>1 DEF HasClosed, Expected
<1>5. Written(P, e, k, b2, s, ev)
  BY <1>1, <1>2, <1>3 DEF Written
<1> QED
  BY <1>1, <1>4, <1>5 DEF InCall, k

LEMMA ClosesSilently ==
    ASSUME NEW P, NEW e \in Ends, NEW c, NEW b \in Nat, NEW s \in Nat, NEW ev \in Seq(EventKinds),
           Written(P, e, c, b, s, ev), c.d.state # "Closed", NEW r \in Expected,
           NEW b2 \in Nat, b2 >= b
    PROVE  InCall(P, e, CloseSilently(c, r), b2, s, ev)
<1> DEFINE g == Closed(c, r)
           k == CloseSilently(c, r)
<1>1. /\ DOMAIN g = {"d", "frames", "events"} /\ g.frames = c.frames
      /\ g.events = Append(c.events, "closed")
      /\ Sane(P, e, g.d) /\ g.d.state = "Closed" /\ g.d.noise = <<>>
      /\ g.d.reason = r /\ g.d.remote = c.d.remote
  <2>1. DOMAIN c = {"d", "frames", "events"} /\ Sane(P, e, c.d)
    BY DEF Written
  <2>2. HasEnded(P, e, c, g, r)
    BY <2>1, ClosedFacts
  <2> HIDE DEF g
  <2> QED
    BY <2>2 DEF HasEnded
<1>2. k = [g EXCEPT !.frames = <<>>]
  BY DEF CloseSilently
<1> HIDE DEF k, g
<1>3. DOMAIN k = {"d", "frames", "events"} /\ k.frames = <<>> /\ k.events = g.events /\ k.d = g.d
  BY <1>1, <1>2
<1>4. /\ "closed" \in EventKinds /\ c.events \in Seq(EventKinds)
      /\ Log(c.d.state, ev \o c.events)
  BY DEF Written, EventKinds
<1>5. Log("Closed", ev \o k.events) /\ (Est(ev \o k.events) <=> Est(ev \o c.events))
  BY <1>1, <1>3, <1>4, LogGrows
<1>6. HasClosed(k.d)
  BY <1>1, <1>3 DEF HasClosed
<1>7. <<>> \in Seq(Frames(P)) /\ DOMAIN <<>> = {}
  OBVIOUS
<1>8. k.events \in Seq(EventKinds)
  BY <1>1, <1>3, <1>4
<1>9. Written(P, e, k, b2, s, ev)
  BY <1>1, <1>3, <1>5, <1>7, <1>8 DEF Written
<1> QED
  BY <1>3, <1>6, <1>9 DEF InCall, k

\* A call that has queued a frame more.
IsQueued(c, f, q) ==
    /\ DOMAIN q = {"d", "frames", "events"} /\ q.d = c.d /\ q.events = c.events
    /\ q.frames = Append(c.frames, f)

\* The number of the frame after those of a call.
Follows(c, s, j) == j = s + Len(c.frames) + 1

LEMMA QueuedFits ==
    ASSUME NEW P, NEW e \in Ends, NEW c, NEW b \in Nat, NEW s \in Nat, NEW ev \in Seq(EventKinds),
           Written(P, e, c, b, s, ev), NEW j, Follows(c, s, j), NEW f \in Stream(P, e, j),
           e = "initiator" /\ j >= 3 => Est(ev \o c.events),
           NEW q, IsQueued(c, f, q)
    PROVE  Written(P, e, q, b, s, ev) /\ Len(q.frames) = Len(c.frames) + 1
<1>1. /\ DOMAIN q = {"d", "frames", "events"} /\ q.d = c.d /\ q.events = c.events
      /\ q.frames = Append(c.frames, f)
  BY DEF IsQueued
<1>2. c.frames \in Seq(Frames(P)) /\ Len(c.frames) \in Nat /\ f \in Frames(P)
  <2>1. c.frames \in Seq(Frames(P))
    BY DEF Written
  <2>2. Len(c.frames) \in Nat
    BY <2>1, FramesLen, Zenon
  <2>3. j \in Nat
    BY <2>2 DEF Follows
  <2> QED
    BY <2>1, <2>2, <2>3, StreamFrames
<1>3. /\ q.frames \in Seq(Frames(P)) /\ Len(q.frames) = Len(c.frames) + 1
      /\ DOMAIN q.frames = 1..Len(c.frames) + 1
      /\ q.frames[Len(c.frames) + 1] = f
      /\ \A i \in 1..Len(c.frames) : i \in DOMAIN c.frames /\ q.frames[i] = c.frames[i]
  BY <1>1, <1>2
<1>4. \A i \in DOMAIN q.frames : q.frames[i] \in Stream(P, e, s + i)
  <2> SUFFICES ASSUME NEW i \in 1..Len(c.frames) + 1 PROVE q.frames[i] \in Stream(P, e, s + i)
    BY <1>3
  <2>1. CASE i = Len(c.frames) + 1
    <3>1. s + i = s + Len(c.frames) + 1
      BY <1>2, <2>1
    <3> QED
      BY <1>3, <2>1, <3>1 DEF Follows
  <2>2. CASE i # Len(c.frames) + 1
    <3>1. i \in 1..Len(c.frames)
      BY <1>2, <2>2
    <3> QED
      BY <1>3, <3>1 DEF Written
  <2> QED
    BY <2>1, <2>2
<1>5. s + Len(q.frames) = s + Len(c.frames) + 1
  BY <1>2, <1>3
<1>6. Written(P, e, q, b, s, ev)
  BY <1>1, <1>3, <1>4, <1>5, ZenonT(40) DEF Written, Follows
<1> QED
  BY <1>3, <1>6

LEMMA Queues ==
    ASSUME NEW P, NEW e \in Ends, NEW c, NEW b \in Nat, NEW s \in Nat, NEW ev \in Seq(EventKinds),
           Written(P, e, c, b, s, ev), NEW j, Follows(c, s, j), NEW f \in Stream(P, e, j),
           e = "initiator" /\ j >= 3 => Est(ev \o c.events)
    PROVE  /\ Written(P, e, Queue(c, f), b, s, ev)
           /\ Queue(c, f).d = c.d /\ Queue(c, f).events = c.events
           /\ Len(Queue(c, f).frames) = Len(c.frames) + 1
<1> DEFINE q == Queue(c, f)
<1>1. /\ DOMAIN q = {"d", "frames", "events"} /\ q.d = c.d /\ q.events = c.events
      /\ q.frames = Append(c.frames, f)
  BY DEF Queue, Written
<1> HIDE DEF q
<1>2. Written(P, e, q, b, s, ev) /\ Len(q.frames) = Len(c.frames) + 1
  <2>1. IsQueued(c, f, q)
    BY <1>1 DEF IsQueued
  <2> QED
    BY <2>1, QueuedFits, SMTT(30)
<1> QED
  BY <1>1, <1>2 DEF q

\* An established driver in a call.
Up(P, e, c, n, m) == c.d.state = "Transport" /\ c.d.noise = <<Ciphers(P, e, n, m)>>

\* Its nonces count the frames.
Counted(P, e, c, b, s) ==
    \E n, m \in Nat : /\ Up(P, e, c, n, m) /\ b = m + Lead(Peer(e))
                      /\ s + Len(c.frames) = n + Lead(e)

LEMMA UpFacts ==
    ASSUME NEW P, NEW e \in Ends, NEW c, NEW b \in Nat, NEW s \in Nat, NEW ev \in Seq(EventKinds),
           InCall(P, e, c, b, s, ev), c.d.state = "Transport"
    PROVE  /\ Written(P, e, c, b, s, ev) /\ c.d.reason = "" /\ c.d.remote = Static(Peer(e))
           /\ Est(ev \o c.events)
           /\ Counted(P, e, c, b, s)
<1>1. Running(P, e, c.d, b, s + Len(c.frames)) /\ Written(P, e, c, b, s, ev)
  BY DEF InCall, HasClosed
<1>2. Est(ev \o c.events)
  <2>1. Log("Transport", ev \o c.events)
    BY <1>1 DEF Written
  <2>2. 1 \in DOMAIN (ev \o c.events) /\ (ev \o c.events)[1] = "established"
    BY <2>1 DEF Log
  <2> QED
    BY <2>2 DEF Est
<1> QED
  BY <1>1, <1>2, Zenon DEF Running, Up, Counted

LEMMA StaysUp ==
    ASSUME NEW P, NEW e \in Ends, NEW c, NEW b \in Nat, NEW s \in Nat, NEW ev \in Seq(EventKinds),
           Written(P, e, c, b, s, ev), c.d.reason = "", c.d.remote = Static(Peer(e)),
           NEW n \in Nat, NEW m \in Nat, Up(P, e, c, n, m),
           b = m + Lead(Peer(e)), s + Len(c.frames) = n + Lead(e)
    PROVE  InCall(P, e, c, b, s, ev)
  BY Zenon DEF InCall, Running, Up

LEMMA Reports ==
    ASSUME NEW P, NEW e \in Ends, NEW c, NEW b \in Nat, NEW s \in Nat, NEW ev \in Seq(EventKinds),
           InCall(P, e, c, b, s, ev), c.d.state = "Transport"
    PROVE  InCall(P, e, Report(c, "sync"), b, s, ev) /\ Report(c, "sync").d = c.d
<1> DEFINE k == Report(c, "sync")
<1>1. Written(P, e, c, b, s, ev) /\ Running(P, e, c.d, b, s + Len(c.frames))
  BY DEF InCall, HasClosed
<1>2. /\ DOMAIN k = DOMAIN c /\ k.d = c.d /\ k.frames = c.frames
      /\ k.events = Append(c.events, "sync")
  BY <1>1 DEF Report, Written
<1> HIDE DEF k
<1>3. /\ c.events \in Seq(EventKinds) /\ "sync" \in EventKinds
      /\ Log("Transport", ev \o c.events)
  BY <1>1 DEF Written, EventKinds
<1>4. Log("Transport", ev \o k.events) /\ (Est(ev \o k.events) <=> Est(ev \o c.events))
  BY <1>2, <1>3, LogGrows
<1>5. k.events \in Seq(EventKinds)
  BY <1>2, <1>3
<1>6. Written(P, e, k, b, s, ev)
  BY <1>1, <1>2, <1>4, <1>5, ZenonT(40) DEF Written
<1> QED
  BY <1>1, <1>2, <1>6, Zenon DEF InCall, k

LEMMA Encrypts ==
    ASSUME NEW P, NEW e \in Ends, NEW c, NEW b \in Nat, NEW s \in Nat, NEW ev \in Seq(EventKinds),
           InCall(P, e, c, b, s, ev), c.d.state = "Transport", NEW x \in Texts
    PROVE  /\ InCall(P, e, QueueEncrypted(c, x), b, s, ev)
           /\ QueueEncrypted(c, x).d.state = "Transport"
<1>1. /\ Written(P, e, c, b, s, ev) /\ c.d.reason = "" /\ c.d.remote = Static(Peer(e))
      /\ Est(ev \o c.events) /\ Counted(P, e, c, b, s)
  BY UpFacts, Zenon
<1>2. PICK n, m \in Nat : /\ Up(P, e, c, n, m) /\ b = m + Lead(Peer(e))
                          /\ s + Len(c.frames) = n + Lead(e)
  BY <1>1, Zenon DEF Counted
<1>12. Len(c.frames) \in Nat /\ Lead(e) \in Nat
  <2>1. c.frames \in Seq(Frames(P))
    BY <1>1, Zenon DEF Written
  <2> QED
    BY <2>1, SMTT(30) DEF Lead
<1> DEFINE tr == Ciphers(P, e, n, m)
           cipher == RekeyIfDue(CipherAt(P, Dir(e), n))
           k == [c EXCEPT !.d.noise = <<[tr EXCEPT !.send = NextNonce(cipher)]>>]
           f == Sealed(SealedAt(P, Dir(e), n, x))
<1>3. Dir(e) \in {"c1", "c2"}
  BY DEF Dir
<1>4. NextNonce(cipher) = CipherAt(P, Dir(e), n + 1)
  BY <1>3, NextCipher, Zenon
<1>5. tr.send = CipherAt(P, Dir(e), n) /\ [tr EXCEPT !.send = NextNonce(cipher)] = Ciphers(P, e, n + 1, m)
  BY <1>4 DEF Ciphers
<1>6. c.d.noise[1] = tr
  BY <1>2 DEF Up
<1>7. QueueEncrypted(c, x) = Queue(k, f)
  BY <1>5, <1>6, Zenon DEF QueueEncrypted, SealedAt
<1>8. /\ DOMAIN k = DOMAIN c /\ k.frames = c.frames /\ k.events = c.events
      /\ DOMAIN k.d = DOMAIN c.d /\ k.d.noise = <<Ciphers(P, e, n + 1, m)>>
      /\ k.d.state = c.d.state /\ k.d.reason = c.d.reason /\ k.d.remote = c.d.remote
      /\ k.d.role = c.d.role /\ k.d.versions = c.d.versions /\ k.d.version = c.d.version
  BY <1>1, <1>5, Zenon DEF Written, Sane
<1> HIDE DEF k, f, tr, cipher
<1>9. Written(P, e, k, b, s, ev)
  BY <1>1, <1>8, Zenon DEF Written, Sane
<1>10. f \in Stream(P, e, s + Len(k.frames) + 1)
  <2>1. s + Len(k.frames) + 1 = Place(e, n)
    BY <1>2, <1>8, <1>12, ZenonT(40) DEF Place
  <2>2. f \in Stream(P, e, Place(e, n))
    BY StreamSealed, SMTT(30) DEF SealedFrames, f
  <2> QED
    BY <2>1, <2>2, ZenonT(40)
<1>11. /\ Written(P, e, Queue(k, f), b, s, ev)
       /\ Queue(k, f).d = k.d /\ Len(Queue(k, f).frames) = Len(c.frames) + 1
  <2>1. Est(ev \o k.events)
    BY <1>1, <1>8, Zenon
  <2>2. /\ Written(P, e, Queue(k, f), b, s, ev)
        /\ Queue(k, f).d = k.d /\ Len(Queue(k, f).frames) = Len(k.frames) + 1
    <3>1. PICK j : Follows(k, s, j)
      BY DEF Follows
    <3>2. f \in Stream(P, e, j)
      BY <1>10, <3>1 DEF Follows
    <3> QED
      BY <1>9, <2>1, <3>1, <3>2, Queues, SMTT(30)
  <2> QED
    BY <1>8, <2>2, SMTT(30)
<1>13. s + Len(Queue(k, f).frames) = (n + 1) + Lead(e)
  BY <1>2, <1>11, <1>12, SMTT(30)
<1>14. Up(P, e, Queue(k, f), n + 1, m) /\ n + 1 \in Nat
  BY <1>2, <1>8, <1>11, SMTT(30) DEF Up
<1> QED
  BY <1>1, <1>2, <1>7, <1>8, <1>11, <1>13, <1>14, StaysUp, ZenonT(40) DEF Up

-----------------------------------------------------------------------------
(* The bodies of frames.                                                   *)

LEMMA ClosesWithError ==
    ASSUME NEW P, NEW e \in Ends, NEW c, NEW b \in Nat, NEW s \in Nat, NEW ev \in Seq(EventKinds),
           InCall(P, e, c, b, s, ev), c.d.state = "Transport", NEW r \in Loud, NEW code
    PROVE  InCall(P, e, CloseWithError(c, code, r), b, s, ev)
<1>1. CloseWithError(c, code, r) = Closed(QueueEncrypted(c, "error"), r)
  BY DEF CloseWithError, IsEstablished
<1>2. /\ InCall(P, e, QueueEncrypted(c, "error"), b, s, ev)
      /\ QueueEncrypted(c, "error").d.state = "Transport"
  BY Encrypts, ZenonT(40) DEF Texts
<1>3. Written(P, e, QueueEncrypted(c, "error"), b, s, ev) /\ b >= b
  BY <1>2 DEF InCall
<1> QED
  BY <1>1, <1>2, <1>3, ClosesLoudly, ZenonT(40)

LEMMA Demuxes ==
    ASSUME NEW P, NEW e \in Ends, NEW c, NEW b \in Nat, NEW s \in Nat, NEW ev \in Seq(EventKinds),
           InCall(P, e, c, b, s, ev), c.d.state = "Transport", NEW x \in Texts
    PROVE  InCall(P, e, Demux(c, x), b, s, ev)
<1>1. InCall(P, e, Report(c, "sync"), b, s, ev) /\ Report(c, "sync").d.state = "Transport"
  BY Reports, Zenon
<1>2. CASE x = "error"
  <2>1. Demux(c, x) = CloseSilently(c, "PeerError") /\ "PeerError" \in Expected
    BY <1>2 DEF Demux, Expected
  <2>2. Written(P, e, c, b, s, ev) /\ b >= b /\ c.d.state # "Closed"
    BY DEF InCall
  <2> QED
    BY <2>1, <2>2, ClosesSilently
<1>3. CASE x = "ask"
  <2>1. Demux(c, x) = QueueEncrypted(Report(c, "sync"), "note") /\ "note" \in Texts
    BY <1>3 DEF Demux, Texts
  <2> QED
    BY <1>1, <2>1, Encrypts
<1>4. CASE x = "note"
  <2>1. Demux(c, x) = Report(c, "sync")
    BY <1>4, SMTT(30) DEF Demux
  <2> QED
    BY <1>1, <2>1
<1>5. CASE x = "bad"
  <2>1. /\ Demux(c, x) = CloseWithError(Report(c, "sync"), 3, "ProtocolViolation")
        /\ "ProtocolViolation" \in Loud
    BY <1>5 DEF Demux, Loud
  <2> QED
    BY <1>1, <2>1, ClosesWithError
<1> QED
  BY <1>2, <1>3, <1>4, <1>5 DEF Texts

LEMMA TransportBodyHandled ==
    ASSUME NEW P, NEW e \in Ends, NEW c, NEW b \in Nat, NEW s \in Nat, NEW ev \in Seq(EventKinds),
           InCall(P, e, c, b, s, ev), c.d.state = "Transport",
           NEW body \in Stream(P, Peer(e), b + 1)
    PROVE  InCall(P, e, HandleTransportBody(c, body), b + 1, s, ev)
<1>1. /\ Written(P, e, c, b, s, ev) /\ c.d.reason = "" /\ c.d.remote = Static(Peer(e))
      /\ Est(ev \o c.events) /\ Counted(P, e, c, b, s)
  BY UpFacts, Zenon
<1>2. PICK n, m \in Nat : /\ Up(P, e, c, n, m) /\ b = m + Lead(Peer(e))
                          /\ s + Len(c.frames) = n + Lead(e)
  BY <1>1, Zenon DEF Counted
<1>3. Peer(e) \in Ends /\ Dir(Peer(e)) \in {"c1", "c2"} /\ Lead(Peer(e)) \in Nat
  BY PeerFacts DEF Dir, Lead
<1>4. PICK x \in Texts : body = Sealed(SealedAt(P, Dir(Peer(e)), m, x))
  <2>1. b + 1 = Place(Peer(e), m)
    BY <1>2, <1>3 DEF Place
  <2>2. body \in SealedFrames(P, Peer(e), m)
    BY <1>3, <2>1, StreamSealed
  <2> QED
    BY <2>2 DEF SealedFrames
<1> DEFINE tr == Ciphers(P, e, n, m)
           cipher == RekeyIfDue(CipherAt(P, Dir(Peer(e)), m))
           k == [c EXCEPT !.d.noise = <<[tr EXCEPT !.recv = NextNonce(cipher)]>>]
<1>5. NextNonce(cipher) = CipherAt(P, Dir(Peer(e)), m + 1)
  BY <1>3, NextCipher, ZenonT(40)
<1>6. /\ c.d.noise[1] = tr /\ tr.recv = CipherAt(P, Dir(Peer(e)), m)
      /\ [tr EXCEPT !.recv = NextNonce(cipher)] = Ciphers(P, e, n, m + 1)
  BY <1>2, <1>5 DEF Ciphers, Up
<1>7. body.type = "sealed" /\ body.ct = SealedAt(P, Dir(Peer(e)), m, x)
  BY <1>4 DEF Sealed
<1>8. Decrypts(cipher, <<>>, body.ct) /\ body.ct.pt = x
  BY <1>7, SealedOpens DEF SealedAt
<1>9. HandleTransportBody(c, body) = Demux(k, x)
  BY <1>6, <1>7, <1>8 DEF HandleTransportBody
<1>10. /\ DOMAIN k = DOMAIN c /\ k.frames = c.frames /\ k.events = c.events
       /\ DOMAIN k.d = DOMAIN c.d /\ k.d.noise = <<Ciphers(P, e, n, m + 1)>>
       /\ k.d.state = c.d.state /\ k.d.reason = c.d.reason /\ k.d.remote = c.d.remote
       /\ k.d.role = c.d.role /\ k.d.versions = c.d.versions /\ k.d.version = c.d.version
  BY <1>1, <1>6, Zenon DEF Written, Sane
<1> HIDE DEF k, tr, cipher
<1>11. Written(P, e, k, b + 1, s, ev)
  <2>1. Sane(P, e, k.d)
    BY <1>1, <1>10, Zenon DEF Written, Sane
  <2>2. b >= 3 => b + 1 >= 3
    BY OneMore, Zenon
  <2> QED
    BY <1>1, <1>10, <2>1, <2>2, Zenon DEF Written
<1>12. InCall(P, e, k, b + 1, s, ev)
  <2>1. Up(P, e, k, n, m + 1) /\ m + 1 \in Nat /\ b + 1 = (m + 1) + Lead(Peer(e))
    BY <1>2, <1>3, <1>10, SMTT(30) DEF Up
  <2> QED
    <3>1. k.d.reason = "" /\ k.d.remote = Static(Peer(e))
      BY <1>1, <1>10, Zenon
    <3>2. s + Len(k.frames) = n + Lead(e) /\ b + 1 \in Nat
      BY <1>2, <1>10
    <3> QED
      BY <1>11, <2>1, <3>1, <3>2, StaysUp, ZenonT(40)
<1>13. b + 1 \in Nat /\ k.d.state = "Transport"
  BY <1>10, SMTT(30)
<1> QED
  BY <1>9, <1>12, <1>13, Demuxes, SMTT(30)

\* Which side opens the handshake.
Opener(e) == e = "initiator"

\* A handshake that is finished.
JustUp(P, e, c, hs, k, b, s, ev) ==
    /\ Written(P, e, k, b, s, ev) /\ k.d.state = "Transport"
    /\ k.d.noise = <<IntoTransport(hs)>> /\ k.d.remote = Static(Peer(e))
    /\ k.d.reason = c.d.reason /\ k.frames = c.frames /\ Est(ev \o k.events)

LEMMA Establishes ==
    ASSUME NEW P, NEW e \in Ends, NEW c, NEW b \in Nat, NEW s \in Nat, NEW ev \in Seq(EventKinds),
           Written(P, e, c, b, s, ev), c.d.state = "Handshaking", NEW b2 \in Nat, b2 >= b,
           Opener(e) \/ b2 >= 3, NEW hs, hs.rs = Static(Peer(e))
    PROVE  JustUp(P, e, c, hs, Established(c, hs), b2, s, ev)
<1> DEFINE k == Established(c, hs)
<1>1. /\ DOMAIN k = DOMAIN c /\ k.frames = c.frames /\ k.events = Append(c.events, "established")
      /\ DOMAIN k.d = DOMAIN c.d /\ k.d.noise = <<IntoTransport(hs)>>
      /\ k.d.state = "Transport" /\ k.d.reason = c.d.reason /\ k.d.remote = Static(Peer(e))
      /\ k.d.role = c.d.role /\ k.d.versions = c.d.versions /\ k.d.version = c.d.version
  BY Zenon DEF Established, Report, Written, Sane
<1> HIDE DEF k
<1>2. /\ c.events \in Seq(EventKinds) /\ "established" \in EventKinds
      /\ Log("Handshaking", ev \o c.events)
  BY DEF Written, EventKinds
<1>3. Log("Transport", ev \o k.events) /\ Est(ev \o k.events) /\ k.events \in Seq(EventKinds)
  <2>1. k.events \in Seq(EventKinds)
    BY <1>1, <1>2, SMTT(30)
  <2> QED
    BY <1>1, <1>2, <2>1, LogGrows
<1>4. Sane(P, e, k.d)
  BY <1>1, Zenon DEF Written, Sane
<1>5. Written(P, e, k, b2, s, ev)
  BY <1>1, <1>3, <1>4, ZenonT(40) DEF Written, Opener
<1> QED
  BY <1>1, <1>3, <1>5, Zenon DEF JustUp, k

LEMMA FirstCiphers ==
    ASSUME NEW P
    PROVE  /\ IntoTransport(I3(P)) = Ciphers(P, "initiator", 0, 0)
           /\ IntoTransport(R3(P)) = Ciphers(P, "responder", 0, 0)
<1>1. I3(P).ss = R3(P).ss /\ I3(P).role = "initiator" /\ R3(P).role = "responder"
  BY HandshakeRuns
<1>2. \A dir : CipherAt(P, dir, 0) = Cipher([chain |-> I3(P).ss.ck, dir |-> dir, epoch |-> 0])
  BY DEF CipherAt, Cipher, Epoch
<1>3. Dir("initiator") = "c1" /\ Dir("responder") = "c2"
  BY SMTT(30) DEF Dir
<1> QED
  BY <1>1, <1>2, <1>3, PeerFacts, SMTT(30) DEF IntoTransport, Ciphers, Split

\* What a call knows of the driver before the handshake is finished.
LEMMA StillUnsealed ==
    ASSUME NEW P, NEW e \in Ends, NEW c, NEW b \in Nat, NEW s \in Nat, NEW ev,
           InCall(P, e, c, b, s, ev), c.d.state \in {"AwaitPeerHello", "Handshaking"}
    PROVE  /\ Written(P, e, c, b, s, ev) /\ c.d.reason = ""
           /\ c.d.state = "AwaitPeerHello" => /\ c.d.noise = <<>> /\ b = 0
                                              /\ Opener(e) => s + Len(c.frames) = 1
                                              /\ ~Opener(e) => s + Len(c.frames) = 0
           /\ c.d.state = "Handshaking" =>
                \/ Opener(e) /\ c.d.noise = <<I1(P)>> /\ b = 1 /\ s + Len(c.frames) = 2
                \/ ~Opener(e) /\ c.d.noise = <<R0(P)>> /\ b = 1 /\ s + Len(c.frames) = 1
                \/ ~Opener(e) /\ c.d.noise = <<R2(P)>> /\ b = 2 /\ s + Len(c.frames) = 2
<1>1. Written(P, e, c, b, s, ev) /\ Running(P, e, c.d, b, s + Len(c.frames))
  BY DEF InCall, HasClosed
<1> DEFINE n == s + Len(c.frames)
<1>2. Running(P, e, c.d, b, n)
  BY <1>1, SMTT(30)
<1> HIDE DEF n
<1>3. CASE c.d.state = "AwaitPeerHello"
  BY <1>1, <1>2, <1>3, ZenonT(40) DEF Running, Opener, Ends, n
<1>4. CASE c.d.state = "Handshaking"
  BY <1>1, <1>2, <1>4, Zenon DEF Running, Opener, Ends, n
<1> QED
  BY <1>3, <1>4, Zenon

LEMMA InitiatorEstablished ==
    ASSUME NEW P, NEW e \in Ends, Opener(e),
           NEW c, NEW s \in Nat, NEW ev \in Seq(EventKinds),
           InCall(P, e, c, 1, s, ev), c.d.state = "Handshaking",
           NEW body \in Stream(P, Peer(e), 2)
    PROVE  InCall(P, e, HandleHandshakeBody(c, body), 2, s, ev)
<1>1. /\ Written(P, e, c, 1, s, ev) /\ c.d.noise = <<I1(P)>> /\ s + Len(c.frames) = 2
      /\ c.d.reason = "" /\ 1 \in Nat /\ 2 \in Nat /\ 2 >= 1
  <2>1. 1 \in Nat /\ 2 \in Nat /\ 2 >= 1
    OBVIOUS
  <2>2. PICK b : b = 1
    OBVIOUS
  <2>3. b \in Nat /\ InCall(P, e, c, b, s, ev) /\ c.d.state \in {"AwaitPeerHello", "Handshaking"}
    BY <2>2, SMTT(30)
  <2>4. /\ Written(P, e, c, b, s, ev) /\ c.d.reason = ""
        /\ c.d.noise = <<I1(P)>> /\ b = 1 /\ s + Len(c.frames) = 2
    BY <2>3, StillUnsealed, ZenonT(40)
  <2> QED
    BY <2>1, <2>2, <2>4, Zenon
<1>2. body \in {Handshake(Message2(P)), ErrorMsg(2)}
  BY <1>1, StreamAt, PeerFacts, ZenonT(40) DEF Opener
<1>3. CASE body = ErrorMsg(2)
  <2>1. HandleHandshakeBody(c, body) = CloseSilently(c, "VersionIncompatible")
    <3>1. body.type = "error"
      BY <1>3 DEF ErrorMsg
    <3> QED
      BY <1>3, <3>1 DEF HandleHandshakeBody
  <2>2. "VersionIncompatible" \in Expected /\ c.d.state # "Closed"
    BY SMTT(30) DEF Expected, Loud
  <2> QED
    BY <1>1, <2>1, <2>2, ClosesSilently, Zenon
<1>4. CASE body = Handshake(Message2(P))
  <2> DEFINE f == Handshake(Message3(P))
             k == Established(Queue(c, f), I3(P))
             g == Established(c, I3(P))
  <2>1. body.type = "handshake" /\ body.msg = Message2(P) /\ body # ErrorMsg(2)
    BY <1>4, Zenon DEF Handshake, ErrorMsg
  <2>2. HandleHandshakeBody(c, body) = Accepted(c, I2(P))
    <3>1. c.d.noise[1] = I1(P)
      <4>1. c.d.noise = <<I1(P)>>
        BY <1>1, ZenonT(40)
      <4> HIDE <1>1
      <4> QED
        BY <4>1
    <3>2. ReadMessage(I1(P), Message2(P)).ok
      BY HandshakeRuns, Zenon
    <3> QED
      BY <2>1, <3>1, <3>2, ZenonT(40) DEF HandleHandshakeBody, I2
  <2>3. Accepted(c, I2(P)) = k
    <3>1. ~IsFinished(I2(P)) /\ IsFinished(WriteMessage(I2(P)).hs)
      <4>1. I2(P).step = 3 /\ WriteMessage(I2(P)).hs.step = 4
        BY HandshakeRuns, Zenon DEF I3
      <4> QED
        BY <4>1 DEF IsFinished
    <3> QED
      BY <3>1, SMTT(30) DEF Accepted, I3, Message3
  <2>4. JustUp(P, e, c, I3(P), g, 2, s, ev)
    <3>1. I3(P).rs = Static(Peer(e))
      BY HandshakeRuns, PeerFacts DEF Opener
    <3> QED
      BY <1>1, <3>1, Establishes, Zenon
  <2>5. k.d = g.d /\ k.events = g.events /\ k.frames = Append(c.frames, f)
        /\ DOMAIN k = {"d", "frames", "events"}
    BY <1>1, Zenon DEF Written, Established, Queue, Report
  <2>6. f \in Stream(P, e, 3)
    BY <1>1, StreamAt, Zenon DEF Opener
  <2> HIDE DEF k, g, f
  <2>7. Written(P, e, k, 2, s, ev) /\ s + Len(k.frames) = 3
    <3>1. IsQueued(g, f, k)
      <4>1. g.frames = c.frames
        BY <2>4 DEF JustUp
      <4> QED
        BY <2>5, <4>1, ZenonT(40) DEF IsQueued
    <3>4. 3 = s + Len(g.frames) + 1
      <4>1. g.frames = c.frames
        BY <2>4 DEF JustUp
      <4>2. s + Len(g.frames) = 2
        BY <1>1, <4>1, Zenon
      <4> QED
        BY <4>2
    <3>5. Written(P, e, g, 2, s, ev) /\ Est(ev \o g.events)
      BY <2>4, Zenon DEF JustUp
    <3>2. Written(P, e, k, 2, s, ev) /\ Len(k.frames) = Len(g.frames) + 1
      <4>1. PICK j : j = 3
        OBVIOUS
      <4>2. PICK b : b = 2
        OBVIOUS
      <4>3. b \in Nat /\ Follows(g, s, j) /\ f \in Stream(P, e, j)
            /\ Written(P, e, g, b, s, ev)
        BY <2>6, <3>4, <3>5, <4>1, <4>2, ZenonT(40) DEF Follows
      <4>4. Written(P, e, k, b, s, ev) /\ Len(k.frames) = Len(g.frames) + 1
        BY <3>1, <3>5, <4>3, QueuedFits, SMTT(30)
      <4> QED
        BY <4>2, <4>4
    <3>3. Len(g.frames) \in Nat
      <4>1. g.frames \in Seq(Frames(P))
        BY <2>4, Zenon DEF JustUp, Written
      <4> QED
        BY <4>1, SMTT(30)
    <3> QED
      BY <3>2, <3>3, <3>4
  <2>8. Up(P, e, k, 0, 0)
    <3>1. IntoTransport(I3(P)) = Ciphers(P, e, 0, 0)
      BY FirstCiphers DEF Opener
    <3> QED
      BY <2>4, <2>5, <3>1, ZenonT(40) DEF Up, JustUp
  <2>9. 2 = 0 + Lead(Peer(e)) /\ 3 = 0 + Lead(e) /\ 0 \in Nat
    BY PeerFacts DEF Lead, Opener
  <2> QED
    BY <1>1, <2>2, <2>3, <2>4, <2>5, <2>7, <2>8, <2>9, StaysUp, ZenonT(40) DEF JustUp
<1> QED
  BY <1>2, <1>3, <1>4

\* A handshake in state hs, by an end that has sent n frames.
Holds(c, hs) == c.d.reason = "" /\ c.d.state = "Handshaking" /\ c.d.noise = <<hs>>
HasSent(c, s, n) == s + Len(c.frames) = n

\* What was written is written still when more has been read, by a driver that
\* is in the same state with the same peer.
LEMMA WrittenStill ==
    ASSUME NEW P, NEW e, NEW c, NEW b \in Nat, NEW s, NEW ev, Written(P, e, c, b, s, ev),
           NEW k, NEW b2 \in Nat, b2 >= b,
           Sane(P, e, k.d), DOMAIN k = {"d", "frames", "events"},
           k.frames = c.frames, k.events = c.events,
           k.d.state = c.d.state, k.d.remote = c.d.remote
    PROVE  Written(P, e, k, b2, s, ev)
<1>1. b >= 3 => b2 >= 3
  OBVIOUS
<1> QED
  BY <1>1, Zenon DEF Written

LEMMA SecondQueued ==
    ASSUME NEW P, NEW e \in Ends, NEW c, NEW b \in Nat, NEW s \in Nat, NEW ev \in Seq(EventKinds),
           Written(P, e, c, b, s, ev), HasSent(c, s, 1),
           NEW f \in Stream(P, e, 2), NEW q, IsQueued(c, f, q)
    PROVE  Written(P, e, q, b, s, ev) /\ Len(q.frames) = Len(c.frames) + 1
<1>1. PICK j \in Nat : j = 2
  OBVIOUS
<1>2. Follows(c, s, j) /\ f \in Stream(P, e, j)
  BY <1>1 DEF HasSent, Follows
<1>3. e = "initiator" /\ j >= 3 => Est(ev \o c.events)
  BY <1>1, SMTT(30)
<1> QED
  BY <1>2, <1>3, QueuedFits

\* The two messages that the responder reads.
LEMMA ResponderAnswers ==
    ASSUME NEW P, NEW e \in Ends, ~Opener(e),
           NEW c, NEW b \in Nat, NEW s \in Nat, NEW ev \in Seq(EventKinds),
           Written(P, e, c, b, s, ev), Holds(c, R0(P)), HasSent(c, s, 1),
           NEW body, body = Handshake(Message1(P)), NEW b2 \in Nat, b2 >= b, b2 = 2
    PROVE  InCall(P, e, HandleHandshakeBody(c, body), b2, s, ev)
<1> DEFINE f == Handshake(Message2(P))
           k == [Queue(c, f) EXCEPT !.d.noise = <<R2(P)>>]
<1>2. HandleHandshakeBody(c, body) = Accepted(c, R1(P))
  <2>1. body.type = "handshake" /\ body.msg = Message1(P) /\ body # ErrorMsg(2)
    BY SMTT(30) DEF Handshake, ErrorMsg
  <2>2. c.d.noise[1] = R0(P)
    <3>1. c.d.noise = <<R0(P)>>
      BY ZenonT(40) DEF Holds
    <3> QED
      BY <3>1
  <2>3. ReadMessage(R0(P), Message1(P)).ok
    BY HandshakeRuns
  <2> QED
    BY <2>1, <2>2, <2>3, ZenonT(40) DEF HandleHandshakeBody, R1
<1>3. Accepted(c, R1(P)) = k
  <2>1. ~IsFinished(R1(P)) /\ ~IsFinished(WriteMessage(R1(P)).hs)
    <3>1. R1(P).step = 2 /\ WriteMessage(R1(P)).hs.step = 3
      BY HandshakeRuns, Zenon DEF R2
    <3> QED
      BY <3>1 DEF IsFinished
  <2> QED
    BY <2>1, Zenon DEF Accepted, R2, Message2
<1>4. /\ DOMAIN k = DOMAIN c /\ k.frames = Append(c.frames, f) /\ k.events = c.events
      /\ DOMAIN k.d = DOMAIN c.d /\ k.d.noise = <<R2(P)>> /\ k.d.state = c.d.state
      /\ k.d.reason = c.d.reason /\ k.d.remote = c.d.remote /\ k.d.role = c.d.role
      /\ k.d.versions = c.d.versions /\ k.d.version = c.d.version
  BY DEF Queue, Written, Sane
<1>5. f \in Stream(P, e, 2)
  BY StreamAt DEF Opener, Ends
<1> DEFINE g == Queue(c, f)
<1>6. IsQueued(c, f, g)
  BY DEF IsQueued, Queue, Written
<1> HIDE DEF f, k, g
<1>7. Written(P, e, g, b, s, ev) /\ Len(g.frames) = Len(c.frames) + 1
  BY <1>5, <1>6, SecondQueued
<1>8. Len(c.frames) \in Nat
  BY FramesLen, Zenon DEF Written
<1>9. g.frames = k.frames /\ g.events = k.events /\ g.d = c.d
  BY <1>4, <1>6, ZenonT(40) DEF IsQueued
<1>10. Sane(P, e, k.d) /\ DOMAIN k = {"d", "frames", "events"}
  <2>1. Sane(P, e, c.d) /\ DOMAIN c = {"d", "frames", "events"}
    BY ZenonT(40) DEF Written
  <2> QED
    BY <1>4, <2>1, SMTT(30) DEF Sane
<1>11. Written(P, e, k, b2, s, ev)
  <2>1. k.frames = g.frames /\ k.events = g.events
        /\ k.d.state = g.d.state /\ k.d.remote = g.d.remote
    BY <1>4, <1>9, Zenon
  <2> QED
    BY <1>7, <1>10, <2>1, WrittenStill, Zenon
<1>12. s + Len(k.frames) = 2
  BY <1>7, <1>8, <1>9, SMTT(30) DEF HasSent
<1>13. Running(P, e, k.d, b2, s + Len(k.frames))
  BY <1>4, <1>12, ZenonT(40) DEF Running, Opener, Ends, Holds
<1> QED
  BY <1>2, <1>3, <1>11, <1>13 DEF InCall

LEMMA ResponderEstablished ==
    ASSUME NEW P, NEW e \in Ends, ~Opener(e),
           NEW c, NEW b \in Nat, NEW s \in Nat, NEW ev \in Seq(EventKinds),
           Written(P, e, c, b, s, ev), Holds(c, R2(P)), HasSent(c, s, 2),
           NEW body, body = Handshake(Message3(P)), NEW b2 \in Nat, b2 >= b, b2 = 3
    PROVE  InCall(P, e, HandleHandshakeBody(c, body), b2, s, ev)
<1> DEFINE k == Established(c, R3(P))
<1>2. HandleHandshakeBody(c, body) = Accepted(c, R3(P))
  <2>1. body.type = "handshake" /\ body.msg = Message3(P) /\ body # ErrorMsg(2)
    BY ZenonT(40) DEF Handshake, ErrorMsg
  <2>2. c.d.noise[1] = R2(P)
    <3>1. c.d.noise = <<R2(P)>>
      BY ZenonT(40) DEF Holds
    <3> QED
      BY <3>1, SMTT(60)
  <2>3. ReadMessage(R2(P), Message3(P)).ok
    BY HandshakeRuns, Zenon
  <2> QED
    BY <2>1, <2>2, <2>3, SMTT(30) DEF HandleHandshakeBody, R3
<1>3. Accepted(c, R3(P)) = k
  <2>1. IsFinished(R3(P))
    <3>1. R3(P).step = 4
      BY HandshakeRuns, Zenon
    <3> QED
      BY <3>1 DEF IsFinished
  <2> QED
    BY <2>1, SMTT(30) DEF Accepted
<1>4. JustUp(P, e, c, R3(P), k, b2, s, ev)
  <2>1. R3(P).rs = Static(Peer(e))
    BY HandshakeRuns, PeerFacts, Zenon DEF Opener, Ends
  <2>2. b2 >= 3
    BY SMTT(30)
  <2> QED
    BY <2>1, <2>2, Establishes, ZenonT(40) DEF Holds
<1> HIDE DEF k
<1>5. Up(P, e, k, 0, 0)
  <2>1. IntoTransport(R3(P)) = Ciphers(P, e, 0, 0)
    BY FirstCiphers, Zenon DEF Opener, Ends
  <2> QED
    BY <1>4, <2>1, Zenon DEF Up, JustUp
<1>6. b2 = 0 + Lead(Peer(e)) /\ s + Len(k.frames) = 0 + Lead(e) /\ 0 \in Nat
  <2>1. Lead(Peer(e)) = 3 /\ Lead(e) = 2
    BY PeerFacts, Zenon DEF Lead, Opener, Ends
  <2>2. k.frames = c.frames
    BY <1>4, SMTT(30) DEF JustUp
  <2> QED
    BY <2>1, <2>2, SMTT(60) DEF HasSent
<1>7. /\ Written(P, e, k, b2, s, ev) /\ k.d.state = "Transport" /\ k.d.reason = ""
      /\ k.d.remote = Static(Peer(e)) /\ Est(ev \o k.events)
  BY <1>4, Zenon DEF JustUp, Holds
<1> QED
  BY <1>2, <1>3, <1>5, <1>6, <1>7, StaysUp

\* The version error in place of a handshake message.
LEMMA Refused ==
    ASSUME NEW P, NEW e \in Ends, NEW c, NEW b \in Nat, NEW s \in Nat, NEW ev \in Seq(EventKinds),
           Written(P, e, c, b, s, ev), c.d.state \in {"AwaitPeerHello", "Handshaking"},
           NEW b2 \in Nat, b2 >= b
    PROVE  /\ InCall(P, e, HandleHelloBody(c, ErrorMsg(2)), b2, s, ev)
           /\ InCall(P, e, HandleHandshakeBody(c, ErrorMsg(2)), b2, s, ev)
<1>1. ErrorMsg(2).type = "error"
  BY DEF ErrorMsg
<1>2. /\ HandleHelloBody(c, ErrorMsg(2)) = CloseSilently(c, "VersionIncompatible")
      /\ HandleHandshakeBody(c, ErrorMsg(2)) = CloseSilently(c, "VersionIncompatible")
  BY <1>1 DEF HandleHelloBody, HandleHandshakeBody
<1>3. "VersionIncompatible" \in Expected /\ c.d.state # "Closed"
  BY DEF Expected, Loud
<1> QED
  BY <1>2, <1>3, ClosesSilently, ZenonT(40)

LEMMA AtHandshake ==
    ASSUME NEW P, NEW e \in Ends, NEW c, NEW b \in Nat, NEW s \in Nat, NEW ev \in Seq(EventKinds),
           InCall(P, e, c, b, s, ev), c.d.state = "Handshaking"
    PROVE  /\ Written(P, e, c, b, s, ev)
           /\ \/ Opener(e) /\ b = 1
              \/ ~Opener(e) /\ b = 1 /\ Holds(c, R0(P)) /\ HasSent(c, s, 1)
              \/ ~Opener(e) /\ b = 2 /\ Holds(c, R2(P)) /\ HasSent(c, s, 2)
<1>1. c.d.state \in {"AwaitPeerHello", "Handshaking"}
  BY SMTT(30)
<1>2. /\ Written(P, e, c, b, s, ev) /\ c.d.reason = ""
      /\ \/ Opener(e) /\ c.d.noise = <<I1(P)>> /\ b = 1 /\ s + Len(c.frames) = 2
         \/ ~Opener(e) /\ c.d.noise = <<R0(P)>> /\ b = 1 /\ s + Len(c.frames) = 1
         \/ ~Opener(e) /\ c.d.noise = <<R2(P)>> /\ b = 2 /\ s + Len(c.frames) = 2
  BY <1>1, StillUnsealed, ZenonT(40)
<1> QED
  BY <1>2, Zenon DEF Holds, HasSent

LEMMA HandshakeBodyHandled ==
    ASSUME NEW P, NEW e \in Ends, NEW c, NEW b \in Nat, NEW s \in Nat, NEW ev \in Seq(EventKinds),
           InCall(P, e, c, b, s, ev), c.d.state = "Handshaking",
           NEW body \in Stream(P, Peer(e), b + 1)
    PROVE  InCall(P, e, HandleHandshakeBody(c, body), b + 1, s, ev)
<1> DEFINE b2 == b + 1
<1>1. /\ Written(P, e, c, b, s, ev)
      /\ \/ Opener(e) /\ b = 1
         \/ ~Opener(e) /\ b = 1 /\ Holds(c, R0(P)) /\ HasSent(c, s, 1)
         \/ ~Opener(e) /\ b = 2 /\ Holds(c, R2(P)) /\ HasSent(c, s, 2)
  BY AtHandshake, Zenon
<1>2. b2 \in Nat /\ b2 >= b /\ (b = 1 => b2 = 2) /\ (b = 2 => b2 = 3) /\ body \in Stream(P, Peer(e), b2)
  OBVIOUS
<1> SUFFICES InCall(P, e, HandleHandshakeBody(c, body), b2, s, ev)
  OBVIOUS
<1> HIDE DEF b2
<1>3. CASE body = ErrorMsg(2)
  <2>1. c.d.state \in {"AwaitPeerHello", "Handshaking"}
    BY SMTT(30)
  <2>2. InCall(P, e, HandleHandshakeBody(c, ErrorMsg(2)), b2, s, ev)
    BY <1>1, <1>2, <2>1, Refused, ZenonT(40)
  <2> QED
    BY <1>3, <2>2, ZenonT(40)
<1>4. CASE Opener(e) /\ b = 1
  <2>1. InCall(P, e, c, 1, s, ev) /\ body \in Stream(P, Peer(e), 2) /\ b2 = 2
    BY <1>2, <1>4, ZenonT(40)
  <2>2. InCall(P, e, HandleHandshakeBody(c, body), 2, s, ev)
    BY <1>4, <2>1, InitiatorEstablished, ZenonT(40)
  <2> QED
    BY <2>1, <2>2, Zenon
<1>5. ASSUME ~Opener(e)
      PROVE  /\ b2 = 2 => body = Handshake(Message1(P)) \/ body = ErrorMsg(2)
             /\ b2 = 3 => body = Handshake(Message3(P))
  <2>1. Peer(e) = "initiator"
    BY <1>5, PeerFacts, SMTT(30) DEF Ends, Opener
  <2>2. /\ Stream(P, "initiator", 2) = {Handshake(Message1(P)), ErrorMsg(2)}
        /\ Stream(P, "initiator", 3) = {Handshake(Message3(P))}
    BY StreamAt, ZenonT(40)
  <2> QED
    BY <1>2, <2>1, <2>2, ZenonT(40)
<1>6. CASE ~Opener(e) /\ b = 1 /\ Holds(c, R0(P)) /\ HasSent(c, s, 1) /\ body # ErrorMsg(2)
  BY <1>1, <1>2, <1>5, <1>6, ResponderAnswers, Zenon
<1>7. CASE ~Opener(e) /\ b = 2 /\ Holds(c, R2(P)) /\ HasSent(c, s, 2)
  BY <1>1, <1>2, <1>5, <1>7, ResponderEstablished, Zenon
<1> QED
  BY <1>1, <1>3, <1>4, <1>6, <1>7, ZenonT(40)

-----------------------------------------------------------------------------
(* handle_hello_body                                                       *)

\* A finite set of numbers has a greatest one.
LEMMA Greatest ==
    ASSUME NEW S \in SUBSET Nat, IsFiniteSet(S), S # {}
    PROVE  \E m \in S : \A n \in S : n <= m
<1> DEFINE Has(T) == \E m \in T : \A n \in T : n <= m
           Lacks == {k \in Nat : \E T \in SUBSET Nat :
                       IsFiniteSet(T) /\ T # {} /\ Cardinality(T) = k /\ ~Has(T)}
<1>1. Lacks = {}
  <2> SUFFICES ASSUME Lacks # {} PROVE FALSE
    OBVIOUS
  <2>1. PICK k \in Lacks : \A j \in Lacks : ~ (<<j, k>> \in OpToRel(<, Nat))
    BY NatLessThanWellFounded, WFMin, Zenon
  <2>2. \A j \in Lacks : ~ (j < k)
    BY <2>1, Zenon DEF OpToRel
  <2>3. PICK T \in SUBSET Nat : IsFiniteSet(T) /\ T # {} /\ Cardinality(T) = k /\ ~Has(T)
    OBVIOUS
  <2>4. PICK x \in T : TRUE
    BY <2>3, Zenon
  <2> DEFINE U == T \ {x}
  <2>5. IsFiniteSet(U) /\ Cardinality(U) = k - 1 /\ k \in Nat /\ Cardinality(U) \in Nat
    BY <2>3, FS_RemoveElement, FS_CardinalityType, ZenonT(40)
  <2>6. U # {}
    BY <2>3
  <2>7. Has(U)
    <3>1. k - 1 \notin Lacks /\ k - 1 \in Nat
      BY <2>2, <2>5
    <3> QED
      BY <2>5, <2>6, <3>1, Zenon
  <2>8. PICK y \in U : \A n \in U : n <= y
    BY <2>7
  <2>9. CASE x <= y
    <3>1. \A n \in T : n <= y
      BY <2>8, <2>9, Zenon
    <3> QED
      BY <2>3, <2>8, <3>1
  <2>10. CASE ~(x <= y)
    <3>1. \A n \in T : n <= x
      BY <2>8, <2>10
    <3> QED
      BY <2>3, <3>1, ZenonT(40)
  <2> QED
    BY <2>9, <2>10
<1>2. Cardinality(S) \in Nat
  BY FS_CardinalityType
<1>3. Has(S)
  BY <1>1, <1>2
<1> QED
  BY <1>3

\* The prologue of the two ends: what each of them offers.
IsPrologue(P) == P = <<P[1], P[2]>> /\ P[1] \in Offers /\ P[2] \in Offers

\* A driver that waits for the HELLO.
Waits(c) == c.d.reason = "" /\ c.d.state = "AwaitPeerHello" /\ c.d.noise = <<>>

LEMMA AtHello ==
    ASSUME NEW P, NEW e \in Ends, NEW c, NEW b \in Nat, NEW s \in Nat, NEW ev \in Seq(EventKinds),
           InCall(P, e, c, b, s, ev), c.d.state = "AwaitPeerHello"
    PROVE  /\ Written(P, e, c, b, s, ev) /\ b = 0 /\ Waits(c)
           /\ Opener(e) => HasSent(c, s, 1)
           /\ ~Opener(e) => HasSent(c, s, 0)
<1>1. c.d.state \in {"AwaitPeerHello", "Handshaking"}
  BY SMTT(30)
<1>2. /\ Written(P, e, c, b, s, ev) /\ c.d.reason = "" /\ c.d.noise = <<>> /\ b = 0
      /\ Opener(e) => s + Len(c.frames) = 1
      /\ ~Opener(e) => s + Len(c.frames) = 0
  BY <1>1, StillUnsealed, ZenonT(40)
<1> QED
  BY <1>2, Zenon DEF Waits, HasSent

\* No version in common: the version error, and an end.
LEMMA RefusesHello ==
    ASSUME NEW P, NEW e \in Ends, NEW c, NEW b \in Nat, NEW s \in Nat, NEW ev \in Seq(EventKinds),
           Written(P, e, c, b, s, ev), Waits(c),
           Opener(e) => HasSent(c, s, 1), ~Opener(e) => HasSent(c, s, 0),
           NEW b2 \in Nat, b2 >= b
    PROVE  InCall(P, e, CloseWithError(c, 2, "VersionIncompatible"), b2, s, ev)
<1> DEFINE q == Queue(c, ErrorMsg(2))
<1>1. CloseWithError(c, 2, "VersionIncompatible") = Closed(q, "VersionIncompatible")
  BY Zenon DEF CloseWithError, IsEstablished, Waits
<1>2. PICK j \in {1, 2} : j = s + Len(c.frames) + 1
  <2>1. CASE Opener(e)
    BY <2>1 DEF HasSent
  <2>2. CASE ~Opener(e)
    BY <2>2 DEF HasSent
  <2> QED
    BY <2>1, <2>2, Zenon
<1>3. (j = 1 \/ j = 2) /\ ~(j >= 3) /\ Follows(c, s, j)
  BY <1>2 DEF Follows
<1>4. ErrorMsg(2) \in Stream(P, e, j)
  <2>1. ErrorMsg(2) \in Stream(P, e, 1)
    BY StreamAt
  <2>2. ErrorMsg(2) \in Stream(P, e, 2)
    BY StreamAt DEF Ends
  <2> QED
    BY <1>3, <2>1, <2>2, ZenonT(40)
<1>5. Written(P, e, q, b, s, ev) /\ q.d = c.d
  BY <1>3, <1>4, Queues, SMTT(30)
<1>6. q.d.state # "Closed" /\ "VersionIncompatible" \in Loud
  BY <1>5, Zenon DEF Waits, Loud
<1> HIDE DEF q
<1> QED
  BY <1>1, <1>5, <1>6, ClosesLoudly, SMTT(30)

\* The version taken is the highest that both offer.
LEMMA TakesHighest ==
    ASSUME NEW P, IsPrologue(P), NEW e \in Ends, NEW d, Sane(P, e, d),
           NEW body, body = Hello(Offer(P, Peer(e))), Common(d, body) # {}
    PROVE  Highest(P, Effective(d, body)) /\ Prologue(d, body) = P
<1>1. body.versions = Offer(P, Peer(e)) /\ d.versions = Offer(P, e) /\ d.role = e
  BY DEF Hello, Sane
<1>2. /\ Opener(e) => Offer(P, e) = P[1] /\ Offer(P, Peer(e)) = P[2]
      /\ ~Opener(e) => Offer(P, e) = P[2] /\ Offer(P, Peer(e)) = P[1]
  BY PeerFacts, Zenon DEF Offer, Opener, Ends
<1>3. Common(d, body) = P[1] \cap P[2]
  BY <1>1, <1>2, ZenonT(40) DEF Common
<1>4. Prologue(d, body) = <<P[1], P[2]>>
  BY <1>1, <1>2, Zenon DEF Prologue, Opener
<1>5. P[1] \subseteq Nat /\ IsFiniteSet(P[1])
  BY DriverAssumption, Zenon DEF IsPrologue
<1>6. IsFiniteSet(P[1] \cap P[2]) /\ P[1] \cap P[2] \in SUBSET Nat
  BY <1>5, FS_Intersection, Zenon
<1>7. \E v \in Common(d, body) : \A w \in Common(d, body) : w <= v
  BY <1>3, <1>6, Greatest, ZenonT(40)
<1>8. /\ Effective(d, body) \in Common(d, body)
      /\ \A w \in Common(d, body) : w <= Effective(d, body)
  BY <1>7 DEF Effective
<1>9. P = <<P[1], P[2]>>
  BY DEF IsPrologue
<1> QED
  BY <1>3, <1>4, <1>8, <1>9, ZenonT(40) DEF Highest

\* A driver that has agreed on version v and starts the handshake in state hs.
Starts(c, k, v, hs, f) ==
    /\ DOMAIN k = DOMAIN c /\ k.frames = Append(c.frames, f) /\ k.events = c.events
    /\ DOMAIN k.d = DOMAIN c.d /\ k.d.noise = <<hs>> /\ k.d.state = "Handshaking"
    /\ k.d.reason = c.d.reason /\ k.d.remote = c.d.remote /\ k.d.role = c.d.role
    /\ k.d.versions = c.d.versions /\ k.d.version = v

LEMMA StartsHandshake ==
    ASSUME NEW P, NEW e \in Ends, NEW c, NEW b \in Nat, NEW s \in Nat, NEW ev \in Seq(EventKinds),
           Written(P, e, c, b, s, ev), Waits(c), NEW b2 \in Nat, b2 >= b,
           NEW j \in Nat, Follows(c, s, j), NEW f \in Stream(P, e, j), ~(j >= 3),
           NEW v, Highest(P, v), NEW hs, NEW k, Starts(c, k, v, hs, f)
    PROVE  Written(P, e, k, b2, s, ev) /\ Holds(k, hs) /\ HasSent(k, s, j)
<1> DEFINE g == Queue(c, f)
<1>1. /\ Written(P, e, g, b, s, ev) /\ g.d = c.d /\ g.events = c.events
      /\ Len(g.frames) = Len(c.frames) + 1
  <2>1. e = "initiator" /\ j >= 3 => Est(ev \o c.events)
    OBVIOUS
  <2> QED
    BY <2>1, Queues
<1>2. g.frames = Append(c.frames, f)
  <2>1. DOMAIN c = {"d", "frames", "events"}
    BY Zenon DEF Written
  <2> QED
    BY <2>1, Zenon DEF Queue
<1> HIDE DEF g
<1>3. k.frames = g.frames /\ k.events = g.events /\ DOMAIN k = {"d", "frames", "events"}
  <2>1. DOMAIN c = {"d", "frames", "events"}
    BY DEF Written
  <2> QED
    BY <1>1, <1>2, <2>1, ZenonT(40) DEF Starts
<1>4. Sane(P, e, k.d)
  <2>1. Sane(P, e, c.d)
    BY Zenon DEF Written
  <2> QED
    BY <2>1, SMTT(30) DEF Sane, Starts
<1>5. Log(k.d.state, ev \o k.events) /\ k.d.state = "Handshaking"
  <2>1. Log("AwaitPeerHello", ev \o g.events)
    BY <1>1, Zenon DEF Written, Waits
  <2>2. k.d.state = "Handshaking" /\ k.events = g.events
    BY <1>3, Zenon DEF Starts
  <2> QED
    BY <2>1, <2>2, Zenon DEF Log
<1>6. ~Est(ev \o k.events)
  <2>1. ev \o k.events = <<>>
    BY <1>5, Zenon DEF Log
  <2> QED
    BY <2>1, NoEvents, Zenon
<1>7. s + Len(k.frames) = j
  <2>1. c.frames \in Seq(Frames(P))
    BY DEF Written
  <2>2. Len(c.frames) \in Nat
    BY <2>1, FramesLen, Zenon
  <2> QED
    BY <1>1, <1>3, <2>2, SMTT(30) DEF Follows
<1>8. Written(P, e, k, b2, s, ev)
  BY <1>1, <1>3, <1>4, <1>5, <1>6, <1>7, Zenon DEF Written
<1>9. Holds(k, hs)
  <2>1. c.d.reason = ""
    BY Zenon DEF Waits
  <2> QED
    BY <2>1, Zenon DEF Starts, Holds
<1> QED
  BY <1>7, <1>8, <1>9, ZenonT(40) DEF HasSent

Agrees(c, v) == [c EXCEPT !.d.version = v, !.d.state = "Handshaking"]

LEMMA AgreesStarts ==
    ASSUME NEW c, DOMAIN c = {"d", "frames", "events"}, NEW v, NEW hs, NEW f,
           DOMAIN c.d = {"role", "versions", "state", "reason", "noise", "remote", "version"}
    PROVE  Starts(c, Queue([Agrees(c, v) EXCEPT !.d.noise = <<hs>>], f), v, hs, f)
<1> DEFINE g == Agrees(c, v)
           h == [g EXCEPT !.d.noise = <<hs>>]
           k == Queue(h, f)
<1>1. /\ DOMAIN g = DOMAIN c /\ g.frames = c.frames /\ g.events = c.events
      /\ DOMAIN g.d = DOMAIN c.d /\ g.d.state = "Handshaking" /\ g.d.version = v
      /\ g.d.reason = c.d.reason /\ g.d.remote = c.d.remote /\ g.d.role = c.d.role
      /\ g.d.versions = c.d.versions
  BY ZenonT(40) DEF Agrees
<1> HIDE DEF g
<1>2. /\ DOMAIN h = DOMAIN c /\ h.frames = c.frames /\ h.events = c.events
      /\ DOMAIN h.d = DOMAIN c.d /\ h.d.state = "Handshaking" /\ h.d.version = v
      /\ h.d.reason = c.d.reason /\ h.d.remote = c.d.remote /\ h.d.role = c.d.role
      /\ h.d.versions = c.d.versions /\ h.d.noise = <<hs>>
  BY <1>1
<1> HIDE DEF h
<1>3. DOMAIN k = DOMAIN c /\ k.frames = Append(c.frames, f) /\ k.events = c.events /\ k.d = h.d
  BY <1>2 DEF Queue
<1> HIDE DEF k
<1>4. Starts(c, k, v, hs, f)
  BY <1>2, <1>3 DEF Starts
<1> QED
  BY <1>4 DEF k, h, g

LEMMA NegotiatedStarts ==
    ASSUME NEW P, IsPrologue(P), NEW e \in Ends, NEW c, NEW b, NEW s, NEW ev, NEW body,
           Written(P, e, c, b, s, ev), Prologue(c.d, body) = P
    PROVE  /\ Opener(e) => Starts(c, Negotiated(c, body), Effective(c.d, body), I1(P),
                                  Handshake(Message1(P)))
           /\ ~Opener(e) => Starts(c, Negotiated(c, body), Effective(c.d, body), R0(P),
                                   Hello(Offer(P, e)))
<1>1. /\ DOMAIN c = {"d", "frames", "events"} /\ c.d.role = e /\ c.d.versions = Offer(P, e)
      /\ DOMAIN c.d = {"role", "versions", "state", "reason", "noise", "remote", "version"}
  BY Zenon DEF Written, Sane
<1>2. ASSUME Opener(e)
      PROVE  Starts(c, Negotiated(c, body), Effective(c.d, body), I1(P), Handshake(Message1(P)))
  <2>1. NewXX(c.d.role, c.d.role, Prologue(c.d, body)) = I0(P) /\ c.d.role = "initiator"
    BY <1>1, <1>2 DEF Opener, I0
  <2>2. Negotiated(c, body) =
          Queue([Agrees(c, Effective(c.d, body)) EXCEPT !.d.noise = <<I1(P)>>], Handshake(Message1(P)))
    BY <2>1 DEF Negotiated, Agrees, I1, Message1
  <2>3. Starts(c, Queue([Agrees(c, Effective(c.d, body)) EXCEPT !.d.noise = <<I1(P)>>], Handshake(Message1(P))),
               Effective(c.d, body), I1(P), Handshake(Message1(P)))
    BY <1>1, AgreesStarts, ZenonT(40)
  <2> QED
    BY <2>2, <2>3, ZenonT(40)
<1>3. ASSUME ~Opener(e)
      PROVE  Starts(c, Negotiated(c, body), Effective(c.d, body), R0(P), Hello(Offer(P, e)))
  <2>1. NewXX(c.d.role, c.d.role, Prologue(c.d, body)) = R0(P) /\ c.d.role # "initiator"
    BY <1>1, <1>3 DEF Opener, R0, Ends
  <2>2. Negotiated(c, body) =
          Queue([Agrees(c, Effective(c.d, body)) EXCEPT !.d.noise = <<R0(P)>>], Hello(Offer(P, e)))
    BY <1>1, <2>1, ZenonT(40) DEF Negotiated, Agrees
  <2>3. Starts(c, Queue([Agrees(c, Effective(c.d, body)) EXCEPT !.d.noise = <<R0(P)>>], Hello(Offer(P, e))),
               Effective(c.d, body), R0(P), Hello(Offer(P, e)))
    BY <1>1, AgreesStarts, ZenonT(40)
  <2> QED
    BY <2>2, <2>3, ZenonT(40)
<1> QED
  BY <1>2, <1>3

LEMMA HelloBodyHandled ==
    ASSUME NEW P, IsPrologue(P), NEW e \in Ends,
           NEW c, NEW b \in Nat, NEW s \in Nat, NEW ev \in Seq(EventKinds),
           InCall(P, e, c, b, s, ev), c.d.state = "AwaitPeerHello",
           NEW body \in Stream(P, Peer(e), b + 1)
    PROVE  InCall(P, e, HandleHelloBody(c, body), b + 1, s, ev)
<1> DEFINE b2 == b + 1
<1>1. /\ Written(P, e, c, b, s, ev) /\ b = 0 /\ Waits(c)
      /\ Opener(e) => HasSent(c, s, 1)
      /\ ~Opener(e) => HasSent(c, s, 0)
  BY AtHello, ZenonT(40)
<1>2. b2 \in Nat /\ b2 >= b /\ body \in Stream(P, Peer(e), b2)
  BY OneMore, Zenon
<1>6. b2 = 1
  BY <1>1, OneMore, Zenon
<1>7. /\ Written(P, e, c, b, s, ev) /\ Waits(c)
      /\ Opener(e) => HasSent(c, s, 1)
      /\ ~Opener(e) => HasSent(c, s, 0)
  BY <1>1, ZenonT(40)
<1> SUFFICES InCall(P, e, HandleHelloBody(c, body), b2, s, ev)
  BY Zenon
<1> HIDE DEF b2
<1>3. body \in {Hello(Offer(P, Peer(e))), ErrorMsg(2)}
  <2>1. Peer(e) \in Ends /\ body \in Stream(P, Peer(e), 1)
    BY <1>2, <1>6, PeerFacts, ZenonT(40)
  <2> QED
    BY <2>1, StreamAt, ZenonT(40)
<1>4. CASE body = ErrorMsg(2)
  <2>1. c.d.state \in {"AwaitPeerHello", "Handshaking"}
    BY ZenonT(40)
  <2>2. InCall(P, e, HandleHelloBody(c, ErrorMsg(2)), b2, s, ev)
    BY <1>2, <1>7, <2>1, Refused, ZenonT(40)
  <2> QED
    BY <1>4, <2>2, SMTT(30)
<1>5. CASE body = Hello(Offer(P, Peer(e)))
  <2>1. HandleHelloBody(c, body) = IF Common(c.d, body) = {}
                                     THEN CloseWithError(c, 2, "VersionIncompatible")
                                     ELSE Negotiated(c, body)
    <3>1. body.type = "hello" /\ body # ErrorMsg(2)
      BY <1>5, SMTT(30) DEF Hello, ErrorMsg
    <3> QED
      BY <3>1, Zenon DEF HandleHelloBody
  <2>2. CASE Common(c.d, body) = {}
    BY <1>2, <1>7, <2>1, <2>2, RefusesHello, ZenonT(40)
  <2>3. CASE Common(c.d, body) # {}
    <3> DEFINE k == Negotiated(c, body)
               v == Effective(c.d, body)
    <3>1. Highest(P, v) /\ Prologue(c.d, body) = P
      <4>1. Sane(P, e, c.d)
        BY <1>1, Zenon DEF Written
      <4> QED
        BY <1>5, <2>3, <4>1, TakesHighest, SMTT(60)
    <3>2. /\ Opener(e) => Starts(c, k, v, I1(P), Handshake(Message1(P)))
          /\ ~Opener(e) => Starts(c, k, v, R0(P), Hello(Offer(P, e)))
      BY <1>1, <3>1, NegotiatedStarts, ZenonT(40)
    <3>3. k = HandleHelloBody(c, body)
      BY <2>1, <2>3, ZenonT(40)
    <3> HIDE DEF k, v
    <3>4. CASE Opener(e)
      <4>1. PICK j \in Nat : j = 2
        BY Zenon
      <4>2. Follows(c, s, j) /\ ~(j >= 3)
        BY <1>7, <3>4, <4>1, SMTT(30) DEF HasSent, Follows
      <4>3. Handshake(Message1(P)) \in Stream(P, e, j)
        BY <3>4, <4>1, StreamAt, ZenonT(40) DEF Opener
      <4>4. Written(P, e, k, b2, s, ev) /\ Holds(k, I1(P)) /\ HasSent(k, s, j)
        BY <1>2, <1>7, <3>1, <3>2, <3>4, <4>2, <4>3, StartsHandshake, ZenonT(40)
      <4>5. Running(P, e, k.d, b2, s + Len(k.frames))
        <5>1. s + Len(k.frames) = 2 /\ e = "initiator"
          BY <3>4, <4>1, <4>4, ZenonT(40) DEF HasSent, Opener
        <5> QED
          BY <1>6, <4>4, <5>1, ZenonT(40) DEF Running, Holds
      <4> QED
        BY <3>3, <4>4, <4>5, ZenonT(40) DEF InCall
    <3>5. CASE ~Opener(e)
      <4>1. PICK j \in Nat : j = 1
        BY Zenon
      <4>2. Follows(c, s, j) /\ ~(j >= 3)
        BY <1>7, <3>5, <4>1, SMTT(30) DEF HasSent, Follows
      <4>3. Hello(Offer(P, e)) \in Stream(P, e, j)
        BY <4>1, StreamAt, SMTT(60)
      <4>4. Written(P, e, k, b2, s, ev) /\ Holds(k, R0(P)) /\ HasSent(k, s, j)
        BY <1>2, <1>7, <3>1, <3>2, <3>5, <4>2, <4>3, StartsHandshake, Zenon
      <4>5. Running(P, e, k.d, b2, s + Len(k.frames))
        <5>1. s + Len(k.frames) = 1 /\ e = "responder"
          BY <3>5, <4>1, <4>4, ZenonT(40) DEF HasSent, Opener, Ends
        <5> QED
          BY <1>6, <4>4, <5>1, ZenonT(40) DEF Running, Holds
      <4> QED
        BY <3>3, <4>4, <4>5, Zenon DEF InCall
    <3> QED
      BY <3>4, <3>5, ZenonT(40)
  <2> QED
    BY <2>2, <2>3, Zenon
<1> QED
  BY <1>3, <1>4, <1>5, ZenonT(40)

-----------------------------------------------------------------------------
(* A whole call: on_bytes, on_tick, send.                                  *)

LEMMA CallState ==
    ASSUME NEW P, NEW e, NEW c, NEW b, NEW s, NEW ev, InCall(P, e, c, b, s, ev)
    PROVE  /\ Written(P, e, c, b, s, ev)
           /\ c.d.state \in {"AwaitPeerHello", "Handshaking", "Transport", "Closed"}
           /\ c.d.state = "Closed" =>
                HasClosed(c.d) /\ (c.d.reason \notin Loud => c.frames = <<>>)
<1>1. Written(P, e, c, b, s, ev)
  BY SMTT(30) DEF InCall
<1> DEFINE n == s + Len(c.frames)
<1>2. CASE Running(P, e, c.d, b, n)
  <2> HIDE DEF n
  <2>1. c.d.state \in {"AwaitPeerHello", "Handshaking", "Transport"}
    BY <1>2, Zenon DEF Running
  <2> QED
    BY <1>1, <2>1, Zenon
<1>3. CASE HasClosed(c.d) /\ (c.d.reason \notin Loud => c.frames = <<>>)
  BY <1>1, <1>3, SMTT(30) DEF HasClosed
<1> QED
  BY <1>2, <1>3, Zenon DEF InCall

LEMMA BodyHandled ==
    ASSUME NEW P, IsPrologue(P), NEW e \in Ends,
           NEW c, NEW b \in Nat, NEW s \in Nat, NEW ev \in Seq(EventKinds),
           InCall(P, e, c, b, s, ev), NEW body \in Stream(P, Peer(e), b + 1)
    PROVE  InCall(P, e, HandleBody(c, body), b + 1, s, ev)
<1>1. CASE c.d.state = "AwaitPeerHello"
  BY <1>1, HelloBodyHandled, Zenon DEF HandleBody
<1>2. CASE c.d.state = "Handshaking"
  BY <1>2, HandshakeBodyHandled, ZenonT(40) DEF HandleBody
<1>3. CASE c.d.state = "Transport"
  BY <1>3, TransportBodyHandled, Zenon DEF HandleBody
<1>4. CASE c.d.state = "Closed"
  <2>1. HandleBody(c, body) = c
    BY <1>4, ClosedIgnores, Zenon
  <2>2. /\ Written(P, e, c, b, s, ev) /\ HasClosed(c.d)
        /\ c.d.reason \notin Loud => c.frames = <<>>
    BY <1>4, CallState, ZenonT(40)
  <2>3. Written(P, e, c, b + 1, s, ev)
    BY <2>2, SMTT(30) DEF Written
  <2> QED
    BY <2>1, <2>2, <2>3, Zenon DEF InCall
<1> QED
  BY <1>1, <1>2, <1>3, <1>4, CallState, Zenon

LEMMA TimeoutsChecked ==
    ASSUME NEW P, NEW e \in Ends, NEW c, NEW b \in Nat, NEW s \in Nat, NEW ev \in Seq(EventKinds),
           InCall(P, e, c, b, s, ev), NEW t
    PROVE  InCall(P, e, CheckTimeouts(c, t), b, s, ev)
<1>1. \/ CheckTimeouts(c, t) = c
      \/ /\ c.d.state # "Closed"
         /\ \/ CheckTimeouts(c, t) = CloseSilently(c, "HandshakeTimeout")
            \/ CheckTimeouts(c, t) = CloseSilently(c, "LifetimeExpired")
  BY DEF CheckTimeouts, IsClosed, IsEstablished
<1>2. CASE CheckTimeouts(c, t) = c
  BY <1>2, Zenon
<1>3. ASSUME c.d.state # "Closed", NEW r \in {"HandshakeTimeout", "LifetimeExpired"}
      PROVE  InCall(P, e, CloseSilently(c, r), b, s, ev)
  <2>1. Written(P, e, c, b, s, ev) /\ b >= b /\ r \in Expected
    BY CallState, OneMore, ZenonT(40) DEF Expected
  <2> QED
    BY <1>3, <2>1, ClosesSilently, ZenonT(40)
<1> QED
  BY <1>1, <1>2, <1>3, ZenonT(40)

\* An end between two calls: it has read b frames and sent s.
Stands(P, e, d, ev, b, s) ==
    /\ Sane(P, e, d) /\ (Running(P, e, d, b, s) \/ HasClosed(d)) /\ Log(d.state, ev)
    /\ Est(ev) => d.remote = Static(Peer(e))

LEMMA CallStarts ==
    ASSUME NEW P, NEW e \in Ends, NEW d, NEW b \in Nat, NEW s \in Nat, NEW ev \in Seq(EventKinds),
           Stands(P, e, d, ev, b, s)
    PROVE  InCall(P, e, Call(d), b, s, ev) /\ Call(d).d = d
<1> DEFINE c == Call(d)
<1>1. DOMAIN c = {"d", "frames", "events"} /\ c.d = d /\ c.frames = <<>> /\ c.events = <<>>
  BY DEF Call
<1> HIDE DEF c
<1>2. ev \o c.events = ev /\ s + Len(c.frames) = s /\ DOMAIN c.frames = {}
  BY <1>1
<1>3. c.frames \in Seq(Frames(P)) /\ c.events \in Seq(EventKinds)
  BY <1>1, SMTT(30)
<1>4. Written(P, e, c, b, s, ev)
  BY <1>1, <1>2, <1>3, ZenonT(40) DEF Stands, Written
<1>5. Running(P, e, c.d, b, s + Len(c.frames)) \/ HasClosed(c.d)
  BY <1>1, <1>2, Zenon DEF Stands
<1> QED
  BY <1>1, <1>4, <1>5, ZenonT(40) DEF InCall, c

\* A set of numbers has a least one.
LEMMA Least ==
    ASSUME NEW S \in SUBSET Nat, S # {}
    PROVE  \E m \in S : \A n \in S : m <= n
<1>1. PICK m \in S : \A n \in S : ~ (<<n, m>> \in OpToRel(<, Nat))
  BY NatLessThanWellFounded, WFMin, Zenon
<1>2. \A n \in S : ~ (n < m)
  BY <1>1, Zenon DEF OpToRel
<1> QED
  BY <1>2

\* The calls after each of the first k frames on their way to e.
Begun(e) == CheckTimeouts(Call(ends[e]), age[e])

AreBodies(f, e, k) ==
    f = [i \in 0..k |-> IF i = 0 THEN Begun(e) ELSE HandleBody(f[i - 1], chan[e][i])]

LEMMA BodiesExist ==
    ASSUME NEW e, NEW F, chan[e] \in Seq(F)
    PROVE  AreBodies(Bodies(e), e, Len(chan[e]))
<1> DEFINE Has(k) == \E f : AreBodies(f, e, k)
           Lacks == {k \in 0..Len(chan[e]) : ~Has(k)}
<1>1. Len(chan[e]) \in Nat /\ Len(chan[e]) \in 0..Len(chan[e])
  OBVIOUS
<1>2. Has(0)
  <2>1. AreBodies([i \in 0..0 |-> Begun(e)], e, 0)
    BY DEF AreBodies
  <2> QED
    BY <2>1
<1>3. ASSUME NEW m \in 1..Len(chan[e]), Has(m - 1)
      PROVE  Has(m)
  <2>1. PICK f : AreBodies(f, e, m - 1)
    BY <1>3
  <2>2. m \in Nat /\ m > 0
    BY <1>1
  <2>3. \A n \in 0..m - 1 : f[n] = IF n = 0 THEN Begun(e) ELSE HandleBody(f[n - 1], chan[e][n])
    BY <2>1, Zenon DEF AreBodies
  <2> DEFINE g == [n \in 0..m |-> IF n = m THEN HandleBody(f[m - 1], chan[e][m]) ELSE f[n]]
  <2>4. \A n \in 0..m : g[n] = IF n = 0 THEN Begun(e) ELSE HandleBody(g[n - 1], chan[e][n])
    <3> SUFFICES ASSUME NEW n \in 0..m
                 PROVE  g[n] = IF n = 0 THEN Begun(e) ELSE HandleBody(g[n - 1], chan[e][n])
      BY Zenon
    <3>1. CASE n = m
      <4>1. g[n] = HandleBody(f[m - 1], chan[e][m]) /\ n # 0 /\ m - 1 \in 0..m /\ m - 1 # m
        BY <2>2, <3>1, SMTT(30)
      <4>2. g[m - 1] = f[m - 1]
        BY <4>1
      <4> QED
        BY <3>1, <4>1, <4>2, Zenon
    <3>2. CASE n # m
      <4>1. n \in 0..m - 1 /\ g[n] = f[n]
        BY <2>2, <3>2
      <4>2. n # 0 => g[n - 1] = f[n - 1]
        <5>1. n # 0 => n - 1 \in 0..m /\ n - 1 # m
          BY <2>2, <4>1
        <5> QED
          BY <5>1
      <4> QED
        BY <2>3, <4>1, <4>2, Zenon
    <3> QED
      BY <3>1, <3>2, ZenonT(40)
  <2>5. AreBodies(g, e, m)
    <3>1. g = [n \in 0..m |-> g[n]]
      OBVIOUS
    <3> HIDE DEF g
    <3>2. g = [n \in 0..m |-> IF n = 0 THEN Begun(e) ELSE HandleBody(g[n - 1], chan[e][n])]
      BY <2>4, <3>1, Zenon
    <3> QED
      BY <3>2 DEF AreBodies
  <2> QED
    BY <2>5
<1> HIDE DEF Has
<1>4. Has(Len(chan[e]))
  <2> SUFFICES ASSUME Lacks # {} PROVE FALSE
    BY <1>1
  <2>1. Lacks \in SUBSET Nat
    BY <1>1
  <2>2. PICK m \in Lacks : \A n \in Lacks : m <= n
    BY <2>1, Least, Zenon
  <2>3. m # 0
    BY <1>2, <2>2
  <2>4. m \in 1..Len(chan[e]) /\ m - 1 \in 0..Len(chan[e]) /\ m - 1 \notin Lacks
    BY <1>1, <2>2, <2>3
  <2> QED
    BY <1>3, <2>2, <2>4, ZenonT(40)
<1>5. Bodies(e) = CHOOSE f : AreBodies(f, e, Len(chan[e]))
  BY Zenon DEF Bodies, AreBodies, Begun
<1> QED
  BY <1>4, <1>5 DEF Has

LEMMA CallRuns ==
    ASSUME NEW P, IsPrologue(P), NEW e \in Ends, NEW b \in Nat, NEW s \in Nat, NEW s2 \in Nat,
           events[e] \in Seq(EventKinds), Stands(P, e, ends[e], events[e], b, s),
           Carries(P, Peer(e), chan[e], b, s2), NEW k \in 0..Len(chan[e])
    PROVE  InCall(P, e, Bodies(e)[k], b + k, s, events[e])
<1>1. chan[e] \in Seq(Frames(P)) /\ Len(chan[e]) \in Nat
  BY SMTT(30) DEF Carries
<1>2. PICK f : f = Bodies(e) /\ AreBodies(f, e, Len(chan[e]))
  BY <1>1, BodiesExist, ZenonT(40)
<1> DEFINE Good(i) == InCall(P, e, f[i], b + i, s, events[e])
           Bad == {i \in 0..Len(chan[e]) : ~Good(i)}
<1>3. \A i \in 0..Len(chan[e]) :
         f[i] = IF i = 0 THEN Begun(e) ELSE HandleBody(f[i - 1], chan[e][i])
  BY <1>2, Zenon DEF AreBodies
<1>4. Good(0)
  <2>1. f[0] = Begun(e)
    BY <1>1, <1>3, FramesLen, ZenonT(40)
  <2>2. InCall(P, e, Begun(e), b, s, events[e])
    <3>1. InCall(P, e, Call(ends[e]), b, s, events[e])
      BY CallStarts, Zenon
    <3> QED
      BY <3>1, TimeoutsChecked, ZenonT(40) DEF Begun
  <2>3. b + 0 = b
    BY OneMore, Zenon
  <2> QED
    BY <2>1, <2>2, <2>3, ZenonT(40)
<1>5. ASSUME NEW i \in 1..Len(chan[e]), Good(i - 1)
      PROVE  Good(i)
  <2>1. f[i] = HandleBody(f[i - 1], chan[e][i])
    BY <1>1, <1>3, FramesLen, ZenonT(40)
  <2>2. PICK n \in Nat : n = b + (i - 1)
    BY <1>1, SMTT(30)
  <2>3. chan[e][i] \in Stream(P, Peer(e), n + 1) /\ n + 1 = b + i
    <3>1. i \in DOMAIN chan[e] /\ n + 1 = b + i
      BY <1>1, <2>2, SMTT(30)
    <3> QED
      BY <3>1, Zenon DEF Carries
  <2>4. InCall(P, e, HandleBody(f[i - 1], chan[e][i]), n + 1, s, events[e])
    <3>1. InCall(P, e, f[i - 1], n, s, events[e])
      BY <1>5, <2>2, Zenon
    <3> QED
      BY <2>3, <3>1, BodyHandled, ZenonT(40)
  <2> QED
    BY <2>1, <2>3, <2>4, ZenonT(40)
<1> HIDE DEF Good
<1>6. Bad = {}
  <2> SUFFICES ASSUME Bad # {} PROVE FALSE
    BY Zenon
  <2>1. Bad \in SUBSET Nat
    BY <1>1, SMTT(30)
  <2>2. PICK m \in Bad : \A n \in Bad : m <= n
    BY <2>1, Least, ZenonT(40)
  <2>3. m # 0
    BY <1>4, <2>2, ZenonT(40)
  <2>4. m \in 1..Len(chan[e]) /\ m - 1 \in 0..Len(chan[e]) /\ m - 1 \notin Bad
    BY <1>1, <2>2, <2>3, SMTT(60)
  <2> QED
    BY <1>5, <2>2, <2>4, ZenonT(40)
<1> QED
  BY <1>2, <1>6, ZenonT(40) DEF Good

-----------------------------------------------------------------------------
(* The invariant.  P are the versions the ends offer; end e has read b[e]  *)
(* frames of its peer and has sent s[e] frames, in the calls so far.       *)

Whole(P, b, s) ==
    /\ IsPrologue(P) /\ b \in [Ends -> Nat] /\ s \in [Ends -> Nat]
    /\ DOMAIN ends = Ends /\ DOMAIN chan = Ends /\ events \in [Ends -> Seq(EventKinds)]
    /\ \A e \in Ends : /\ Stands(P, e, ends[e], events[e], b[e], s[e])
                       /\ Carries(P, Peer(e), chan[e], b[e], s[Peer(e)])
    /\ Est(events["responder"]) => Est(events["initiator"])
    /\ s["initiator"] >= 3 => Est(events["initiator"])

Clocks == age \in [Ends -> 0..MaxLifetime] /\ sends \in [Ends -> 0..MaxSends]

LinkInv == Clocks /\ \E P, b, s : Whole(P, b, s)

LEMMA CallEnds ==
    ASSUME NEW P, NEW e \in Ends, NEW c, NEW b \in Nat, NEW s \in Nat, NEW ev \in Seq(EventKinds),
           InCall(P, e, c, b, s, ev)
    PROVE  /\ Stands(P, e, c.d, ev \o c.events, b, s + Len(c.frames))
           /\ ev \o c.events \in Seq(EventKinds) /\ s + Len(c.frames) \in Nat
           /\ Est(ev) => Est(ev \o c.events)
<1>1. Written(P, e, c, b, s, ev)
  BY ZenonT(40) DEF InCall
<1>2. c.events \in Seq(EventKinds) /\ c.frames \in Seq(Frames(P))
  BY <1>1 DEF Written
<1>3. ev \o c.events \in Seq(EventKinds) /\ s + Len(c.frames) \in Nat
  BY <1>2
<1>4. Est(ev) => Est(ev \o c.events)
  <2>1. \A i \in DOMAIN ev : i \in DOMAIN (ev \o c.events) /\ (ev \o c.events)[i] = ev[i]
    BY <1>2, SMTT(30)
  <2> QED
    BY <2>1, Zenon DEF Est
<1>5. Running(P, e, c.d, b, s + Len(c.frames)) \/ HasClosed(c.d)
  BY SMTT(30) DEF InCall
<1>6. /\ Sane(P, e, c.d) /\ Log(c.d.state, ev \o c.events)
      /\ Est(ev \o c.events) => c.d.remote = Static(Peer(e))
  BY <1>1, ZenonT(40) DEF Written
<1> QED
  BY <1>3, <1>4, <1>5, <1>6, ZenonT(40) DEF Stands

LEMMA Finished ==
    ASSUME NEW P, NEW b, NEW s, Whole(P, b, s), NEW e \in Ends, NEW c, NEW k \in 0..Len(chan[e]),
           InCall(P, e, c, b[e] + k, s[e], events[e]), Finish(e, c, k)
    PROVE  \E b2, s2 : Whole(P, b2, s2)'
<1> DEFINE p == Peer(e)
           m == Len(c.frames)
           b2 == [b EXCEPT ![e] = @ + k]
           s2 == [s EXCEPT ![e] = @ + m]
<1>1. /\ IsPrologue(P) /\ b \in [Ends -> Nat] /\ s \in [Ends -> Nat]
      /\ DOMAIN ends = Ends /\ DOMAIN chan = Ends /\ events \in [Ends -> Seq(EventKinds)]
      /\ \A x \in Ends : /\ Stands(P, x, ends[x], events[x], b[x], s[x])
                         /\ Carries(P, Peer(x), chan[x], b[x], s[Peer(x)])
  BY Zenon DEF Whole
<1>2. p \in Ends /\ p # e /\ Peer(p) = e /\ Ends = {e, p}
  BY PeerFacts
<1>3. b[e] \in Nat /\ s[e] \in Nat /\ b[p] \in Nat /\ s[p] \in Nat /\ events[e] \in Seq(EventKinds)
  BY <1>1, <1>2, ZenonT(40)
<1>4. Len(chan[e]) \in Nat /\ k \in Nat /\ b[e] + k \in Nat /\ k <= Len(chan[e])
      /\ b[e] + Len(chan[e]) = s[p]
  <2>1. chan[e] \in Seq(Frames(P)) /\ b[e] + Len(chan[e]) = s[p]
    BY <1>1, Zenon DEF Carries
  <2>2. Len(chan[e]) \in Nat
    BY <2>1, FramesLen, Zenon
  <2> QED
    BY <1>3, <2>1, <2>2, Reads, ZenonT(40)
<1>5. Written(P, e, c, b[e] + k, s[e], events[e])
  BY Zenon DEF InCall
<1>6. m \in Nat
  <2>1. c.frames \in Seq(Frames(P))
    BY <1>5, Zenon DEF Written
  <2> QED
    BY <2>1, FramesLen, Zenon
<1>7. /\ Stands(P, e, c.d, events[e] \o c.events, b[e] + k, s[e] + m)
      /\ events[e] \o c.events \in Seq(EventKinds)
      /\ Est(events[e]) => Est(events[e] \o c.events)
  BY <1>3, <1>4, CallEnds, ZenonT(40)
<1> HIDE DEF p, m
<1>8. /\ b2[e] = b[e] + k /\ s2[e] = s[e] + m /\ b2[p] = b[p] /\ s2[p] = s[p]
      /\ b2 \in [Ends -> Nat] /\ s2 \in [Ends -> Nat]
  <2>1. b2 \in [Ends -> Nat] /\ b2[e] = b[e] + k /\ b2[p] = b[p]
    BY <1>1, <1>2, <1>4, Counting, Zenon
  <2>2. s2 \in [Ends -> Nat] /\ s2[e] = s[e] + m /\ s2[p] = s[p]
    BY <1>1, <1>2, <1>6, Counting, Zenon
  <2> QED
    BY <2>1, <2>2, Zenon
<1>9. /\ ends'[e] = c.d /\ ends'[p] = ends[p] /\ DOMAIN ends' = Ends
      /\ events'[e] = events[e] \o c.events /\ events'[p] = events[p]
      /\ events' \in [Ends -> Seq(EventKinds)]
  BY <1>1, <1>2, <1>7, ZenonT(40) DEF Finish
<1>10. /\ chan'[e] = SubSeq(chan[e], k + 1, Len(chan[e]))
       /\ chan'[p] = chan[p] \o c.frames /\ DOMAIN chan' = Ends
  <2>1. chan' = [chan EXCEPT ![e] = SubSeq(@, k + 1, Len(@)), ![p] = @ \o c.frames]
    BY Zenon DEF Finish, p
  <2> QED
    BY <1>1, <1>2, <2>1, ZenonT(40)
<1> HIDE DEF b2, s2
<1>11. Stands(P, e, ends'[e], events'[e], b2[e], s2[e])
  BY <1>7, <1>8, <1>9, ZenonT(40)
<1>12. Stands(P, p, ends'[p], events'[p], b2[p], s2[p])
  BY <1>1, <1>2, <1>8, <1>9, ZenonT(40)
<1>13. Carries(P, Peer(e), chan'[e], b2[e], s2[Peer(e)])
  <2>1. Carries(P, Peer(e), chan[e], b[e], s[Peer(e)])
    BY <1>1, ZenonT(40)
  <2>2. Carries(P, Peer(e), SubSeq(chan[e], k + 1, Len(chan[e])), b[e] + k, s[Peer(e)])
    BY <1>3, <2>1, ReadDropped, ZenonT(40) DEF p
  <2> QED
    BY <1>8, <1>10, <2>2, ZenonT(40) DEF p
<1>14. Carries(P, Peer(p), chan'[p], b2[p], s2[Peer(p)])
  <2>1. Carries(P, e, chan[p], b[p], s[e])
    BY <1>1, <1>2, ZenonT(40)
  <2>2. Carries(P, e, chan[p] \o c.frames, b[p], s[e] + m)
    BY <1>3, <1>5, <2>1, SentCarried, ZenonT(40) DEF m
  <2> QED
    BY <1>2, <1>8, <1>10, <2>2, ZenonT(40)
<1>15. \A x \in Ends : Est(events[x]) => Est(events'[x])
  BY <1>2, <1>7, <1>9, Zenon
<1>16. s2["initiator"] >= 3 => Est(events'["initiator"])
  <2>1. s["initiator"] >= 3 => Est(events["initiator"])
    BY Zenon DEF Whole
  <2>2. CASE e # "initiator"
    <3>1. p = "initiator"
      BY <1>2, <2>2, ZenonT(40) DEF Ends
    <3> QED
      BY <1>8, <1>9, <2>1, <3>1, ZenonT(40)
  <2>3. CASE e = "initiator" /\ c.frames = <<>>
    <3>1. m = 0
      BY <2>3, NoEvents, Zenon DEF m
    <3>2. s2[e] = s[e]
      BY <1>3, <1>8, <3>1, SMTT(30)
    <3> QED
      BY <1>15, <2>1, <2>3, <3>2, ZenonT(40)
  <2>4. CASE e = "initiator" /\ c.frames # <<>>
    <3>1. s[e] + m >= 3 => Est(events[e] \o c.events)
      BY <1>5, <2>4 DEF Written, m
    <3> QED
      BY <1>8, <1>9, <2>4, <3>1, Zenon
  <2> QED
    BY <2>2, <2>3, <2>4, ZenonT(40)
<1>17. Est(events'["responder"]) => Est(events'["initiator"])
  <2>1. Est(events["responder"]) => Est(events["initiator"])
    BY Zenon DEF Whole
  <2>2. CASE e # "responder"
    <3>1. p = "responder" /\ "initiator" \in Ends
      BY <1>2, <2>2, ZenonT(40) DEF Ends
    <3> QED
      BY <1>9, <1>15, <2>1, <3>1, ZenonT(40)
  <2>3. CASE e = "responder"
    <3>1. p = "initiator"
      BY <1>2, <2>3, ZenonT(40) DEF Ends
    <3>2. Est(events[e] \o c.events) => Est(events[e]) \/ b[e] + k >= 3
      BY <1>5, <2>3, ZenonT(40) DEF Written
    <3>3. b[e] + k >= 3 => s[p] >= 3
      BY <1>3, <1>4
    <3>4. s[p] >= 3 => Est(events[p])
      BY <3>1, Zenon DEF Whole
    <3> QED
      BY <1>9, <2>1, <2>3, <3>1, <3>2, <3>3, <3>4, Zenon
  <2> QED
    BY <2>2, <2>3, ZenonT(40)
<1>18. Whole(P, b2, s2)'
  BY <1>1, <1>2, <1>8, <1>9, <1>10, <1>11, <1>12, <1>13, <1>14, <1>16, <1>17, Zenon DEF Whole
<1> QED
  BY <1>18, Zenon

LEMMA InitHolds ==
    Init => LinkInv
<1> SUFFICES ASSUME Init PROVE LinkInv
  OBVIOUS
<1>1. PICK offer \in [Ends -> Offers] :
        /\ ends = [e \in Ends |-> NewDriver(e, offer[e])]
        /\ chan = [initiator |-> <<>>, responder |-> <<Hello(offer["initiator"])>>]
  BY Zenon DEF Init
<1> DEFINE P == <<offer["initiator"], offer["responder"]>>
           b == [e \in Ends |-> 0]
           s == [e \in Ends |-> IF e = "initiator" THEN 1 ELSE 0]
<1>2. /\ P[1] = offer["initiator"] /\ P[2] = offer["responder"] /\ IsPrologue(P)
      /\ \A e \in Ends : Offer(P, e) = offer[e]
  BY <1>1 DEF IsPrologue, Offer, Ends
<1> HIDE DEF P
<1>3. Clocks
  BY DriverAssumption DEF Init, Clocks
<1>4. b \in [Ends -> Nat] /\ s \in [Ends -> Nat] /\ DOMAIN ends = Ends
      /\ events = [e \in Ends |-> <<>>]
  BY <1>1, Zenon DEF Init
<1>5. DOMAIN chan = Ends /\ chan["initiator"] = <<>>
      /\ chan["responder"] = <<Hello(offer["initiator"])>>
  BY <1>1 DEF Ends
<1>6. ~Est(<<>>) /\ <<>> \in Seq(EventKinds)
  BY NoEvents, Zenon
<1>7. \A e \in Ends : Stands(P, e, ends[e], events[e], b[e], s[e])
  <2> SUFFICES ASSUME NEW e \in Ends PROVE Stands(P, e, ends[e], events[e], b[e], s[e])
    BY Zenon
  <2>1. ends[e] = NewDriver(e, Offer(P, e)) /\ events[e] = <<>> /\ b[e] = 0
        /\ s[e] = IF e = "initiator" THEN 1 ELSE 0
    BY <1>1, <1>2, <1>4, ZenonT(40)
  <2>2. Sane(P, e, NewDriver(e, Offer(P, e)))
    BY Zenon DEF Sane, NewDriver
  <2>3. Running(P, e, NewDriver(e, Offer(P, e)), 0, IF e = "initiator" THEN 1 ELSE 0)
    BY DEF Running, NewDriver
  <2>4. Log(NewDriver(e, Offer(P, e)).state, <<>>)
    BY DEF Log, NewDriver
  <2> QED
    BY <1>6, <2>1, <2>2, <2>3, <2>4, ZenonT(40) DEF Stands
<1>8. Carries(P, "responder", chan["initiator"], 0, 0)
  BY <1>5 DEF Carries
<1>9. Carries(P, "initiator", chan["responder"], 0, 1)
  <2>1. Hello(offer["initiator"]) \in Stream(P, "initiator", 1)
    <3>1. "initiator" \in Ends
      BY DEF Ends
    <3> QED
      BY <1>2, <3>1, StreamAt
  <2>2. Hello(offer["initiator"]) \in Frames(P)
    BY <2>1, StreamFrames DEF Ends
  <2>3. 0 + 1 = 1
    OBVIOUS
  <2> QED
    BY <1>5, <2>1, <2>2, <2>3 DEF Carries
<1>10. \A e \in Ends : Carries(P, Peer(e), chan[e], b[e], s[Peer(e)])
  BY <1>8, <1>9, PeerFacts, ZenonT(40) DEF Ends
<1>11. Whole(P, b, s)
  <2>1. s["initiator"] = 1 /\ events["responder"] = <<>>
    BY <1>4 DEF Ends
  <2>2. events \in [Ends -> Seq(EventKinds)]
    BY <1>4, <1>6
  <2> HIDE DEF b, s
  <2> QED
    BY <1>2, <1>4, <1>5, <1>6, <1>7, <1>10, <2>1, <2>2, SMTT(30) DEF Whole
<1> QED
  BY <1>3, <1>11 DEF LinkInv

\* What the call of each action is.
Calls(e, c, k) ==
    \/ k \in 1..Len(chan[e]) /\ c = Bodies(e)[k]
    \/ k = 0 /\ c = Begun(e)
    \/ /\ k = 0 /\ IsEstablished(ends[e])
       /\ \/ \E m \in {"ask", "note", "bad"} : c = QueueEncrypted(Call(ends[e]), m)
          \/ c = CloseWithError(Call(ends[e]), 3, "ProtocolViolation")

LEMMA StepCalls ==
    ASSUME Next
    PROVE  \/ \E e \in Ends : \E c, k : Calls(e, c, k) /\ Finish(e, c, k)
           \/ UNCHANGED <<ends, chan, events>>
<1>1. PICK e \in Ends : \/ \E k \in 1..Len(chan[e]) : OnBytes(e, k)
                        \/ OnTick(e)
                        \/ \E m \in {"ask", "note", "bad"} : Send(e, m)
                        \/ SendError(e)
                        \/ Elapse(e)
  BY DEF Next
<1>2. ASSUME NEW k \in 1..Len(chan[e]), OnBytes(e, k)
      PROVE  Calls(e, Bodies(e)[k], k) /\ Finish(e, Bodies(e)[k], k)
  BY <1>2, Zenon DEF Calls, OnBytes
<1>3. ASSUME OnTick(e)
      PROVE  Calls(e, Begun(e), 0) /\ Finish(e, Begun(e), 0)
  BY <1>3, ZenonT(40) DEF Calls, OnTick, Begun
<1>4. ASSUME NEW m \in {"ask", "note", "bad"}, Send(e, m)
      PROVE  /\ Calls(e, QueueEncrypted(Call(ends[e]), m), 0)
             /\ Finish(e, QueueEncrypted(Call(ends[e]), m), 0)
  BY <1>4, ZenonT(40) DEF Calls, Send
<1>5. ASSUME SendError(e)
      PROVE  /\ Calls(e, CloseWithError(Call(ends[e]), 3, "ProtocolViolation"), 0)
             /\ Finish(e, CloseWithError(Call(ends[e]), 3, "ProtocolViolation"), 0)
  BY <1>5 DEF Calls, SendError
<1>6. ASSUME Elapse(e)
      PROVE  UNCHANGED <<ends, chan, events>>
  BY <1>6 DEF Elapse
<1> QED
  BY <1>1, <1>2, <1>3, <1>4, <1>5, <1>6, Zenon

LEMMA CallHolds ==
    ASSUME NEW P, NEW b, NEW s, Whole(P, b, s), NEW e \in Ends, NEW c, NEW k, Calls(e, c, k)
    PROVE  k \in 0..Len(chan[e]) /\ InCall(P, e, c, b[e] + k, s[e], events[e])
<1>1. /\ IsPrologue(P) /\ b[e] \in Nat /\ s[e] \in Nat /\ s[Peer(e)] \in Nat
      /\ events[e] \in Seq(EventKinds) /\ Stands(P, e, ends[e], events[e], b[e], s[e])
      /\ Carries(P, Peer(e), chan[e], b[e], s[Peer(e)])
  BY PeerFacts DEF Whole
<1>2. chan[e] \in Seq(Frames(P))
  BY <1>1, ZenonT(40) DEF Carries
<1>3. CASE k \in 1..Len(chan[e]) /\ c = Bodies(e)[k]
  <2>1. k \in 0..Len(chan[e])
    BY <1>2, <1>3, FramesLen, ZenonT(40)
  <2> QED
    BY <1>1, <1>3, <2>1, CallRuns, Zenon
<1>4. InCall(P, e, Call(ends[e]), b[e], s[e], events[e]) /\ Call(ends[e]).d = ends[e]
  BY <1>1, CallStarts, Zenon
<1>5. ASSUME k = 0, InCall(P, e, c, b[e], s[e], events[e])
      PROVE  k \in 0..Len(chan[e]) /\ InCall(P, e, c, b[e] + k, s[e], events[e])
  <2>1. b[e] + k = b[e] /\ k \in 0..Len(chan[e])
    <3>1. b[e] + 0 = b[e]
      BY <1>1, OneMore, Zenon
    <3>2. 0 \in 0..Len(chan[e])
      BY <1>2, FramesLen, Zenon
    <3> QED
      BY <1>5, <3>1, <3>2, Zenon
  <2> QED
    BY <1>5, <2>1, ZenonT(40)
<1>6. CASE k = 0 /\ c = Begun(e)
  <2>1. InCall(P, e, c, b[e], s[e], events[e])
    BY <1>1, <1>4, <1>6, TimeoutsChecked, Zenon DEF Begun
  <2> QED
    BY <1>5, <1>6, <2>1, ZenonT(40)
<1>7. ASSUME IsEstablished(ends[e])
      PROVE  Call(ends[e]).d.state = "Transport"
  BY <1>4, <1>7 DEF IsEstablished
<1>8. ASSUME k = 0, IsEstablished(ends[e]), NEW m \in {"ask", "note", "bad"},
             c = QueueEncrypted(Call(ends[e]), m)
      PROVE  InCall(P, e, c, b[e], s[e], events[e])
  <2>1. m \in Texts
    BY SMTT(30) DEF Texts
  <2> QED
    <3>1. Call(ends[e]).d.state = "Transport"
      BY <1>7, <1>8, Zenon
    <3>2. InCall(P, e, QueueEncrypted(Call(ends[e]), m), b[e], s[e], events[e])
      BY <1>1, <1>4, <2>1, <3>1, Encrypts, Zenon
    <3> QED
      BY <1>8, <3>2, Zenon
<1>9. ASSUME k = 0, IsEstablished(ends[e]),
             c = CloseWithError(Call(ends[e]), 3, "ProtocolViolation")
      PROVE  InCall(P, e, c, b[e], s[e], events[e])
  <2>1. "ProtocolViolation" \in Loud
    BY Zenon DEF Loud
  <2> QED
    BY <1>1, <1>4, <1>7, <1>9, <2>1, ClosesWithError, Zenon
<1> QED
  BY <1>3, <1>5, <1>6, <1>8, <1>9, Zenon DEF Calls

LEMMA ClocksKept ==
    ASSUME Clocks, Next
    PROVE  Clocks'
<1>1. PICK e \in Ends : \/ \E k \in 1..Len(chan[e]) : OnBytes(e, k)
                        \/ OnTick(e)
                        \/ \E m \in {"ask", "note", "bad"} : Send(e, m)
                        \/ SendError(e)
                        \/ Elapse(e)
  BY DEF Next
<1>2. CASE UNCHANGED <<age, sends>>
  BY <1>2 DEF Clocks
<1>3. CASE \E m \in {"ask", "note", "bad"} : Send(e, m)
  BY <1>3, DriverAssumption DEF Clocks, Send
<1>4. CASE Elapse(e)
  BY <1>4, DriverAssumption DEF Clocks, Elapse
<1> QED
  BY <1>1, <1>2, <1>3, <1>4, ZenonT(40) DEF OnBytes, OnTick, SendError

LEMMA NextKeeps ==
    LinkInv /\ [Next]_vars => LinkInv'
<1> SUFFICES ASSUME LinkInv, [Next]_vars PROVE LinkInv'
  OBVIOUS
<1>1. PICK P, b, s : Whole(P, b, s)
  BY Zenon DEF LinkInv
<1>2. ASSUME UNCHANGED <<ends, chan, events>>
      PROVE  Whole(P, b, s)'
  BY <1>1, <1>2, ZenonT(40) DEF Whole
<1>3. CASE UNCHANGED vars
  <2>1. Clocks'
    BY <1>3 DEF LinkInv, Clocks, vars
  <2> QED
    BY <1>2, <1>3, <2>1, ZenonT(40) DEF LinkInv, vars
<1>4. CASE Next
  <2>1. Clocks'
    BY <1>4, ClocksKept, ZenonT(40) DEF LinkInv
  <2>2. \E b2, s2 : Whole(P, b2, s2)'
    <3>1. CASE UNCHANGED <<ends, chan, events>>
      BY <1>2, <3>1, ZenonT(40)
    <3>2. ASSUME NEW e \in Ends, NEW c, NEW k, Calls(e, c, k), Finish(e, c, k)
          PROVE  \E b2, s2 : Whole(P, b2, s2)'
      BY <1>1, <3>2, CallHolds, Finished
    <3> QED
      BY <1>4, <3>1, <3>2, StepCalls, ZenonT(40)
  <2> QED
    BY <2>1, <2>2 DEF LinkInv
<1> QED
  BY <1>3, <1>4

LEMMA InvariantHolds ==
    Spec => []LinkInv
  BY InitHolds, NextKeeps, PTL DEF Spec

-----------------------------------------------------------------------------
(* What the invariant says.                                                *)

Typed(d, e) ==
    /\ d.role = e
    /\ d.state \in {"AwaitPeerHello", "Handshaking", "Transport", "Closed"}
    /\ Len(d.noise) = IF d.state \in {"Handshaking", "Transport"} THEN 1 ELSE 0
    /\ IsClosed(d) <=> d.reason # ""

LEMMA DriverTyped ==
    ASSUME NEW P, NEW e, NEW d, NEW ev, NEW b, NEW s, Stands(P, e, d, ev, b, s)
    PROVE  Typed(d, e) /\ d.reason \in Expected \cup {""}
<1>1. d.role = e
  BY DEF Stands, Sane
<1>2. CASE HasClosed(d)
  <2>1. d.state = "Closed" /\ d.noise = <<>> /\ d.reason \in Expected
    BY <1>2 DEF HasClosed
  <2>2. Len(d.noise) = 0
    BY <2>1
  <2>3. d.reason # ""
    BY <2>1, Zenon DEF Expected, Loud
  <2>4. /\ d.state \in {"AwaitPeerHello", "Handshaking", "Transport", "Closed"}
        /\ d.state \notin {"Handshaking", "Transport"} /\ IsClosed(d)
    BY <2>1 DEF IsClosed
  <2>5. Typed(d, e)
    BY <1>1, <2>2, <2>3, <2>4, Zenon DEF Typed
  <2> QED
    BY <2>1, <2>5, Zenon
<1>3. CASE Running(P, e, d, b, s)
  <2>1. d.reason = ""
    BY <1>3, Zenon DEF Running
  <2>2. CASE d.state = "AwaitPeerHello" /\ d.noise = <<>>
    <3>1. Len(d.noise) = 0
      BY <2>2
    <3>2. /\ d.state \in {"AwaitPeerHello", "Handshaking", "Transport", "Closed"}
          /\ d.state \notin {"Handshaking", "Transport"} /\ ~IsClosed(d)
      BY <2>2 DEF IsClosed
    <3> QED
      BY <1>1, <2>1, <3>1, <3>2, Zenon DEF Typed
  <2>3. CASE d.state \in {"Handshaking", "Transport"} /\ \E x : d.noise = <<x>>
    <3>1. Len(d.noise) = 1
      BY <2>3
    <3>2. /\ d.state \in {"AwaitPeerHello", "Handshaking", "Transport", "Closed"} /\ ~IsClosed(d)
      BY <2>3 DEF IsClosed
    <3> QED
      BY <1>1, <2>1, <2>3, <3>1, <3>2, Zenon DEF Typed
  <2> QED
    BY <1>3, <2>2, <2>3, Zenon DEF Running
<1> QED
  BY <1>2, <1>3, Zenon DEF Stands

LEMMA Fails ==
    ASSUME LinkInv
    PROVE  NoSpuriousFailure
<1>1. PICK P, b, s : Whole(P, b, s)
  BY DEF LinkInv
<1>2. \A e \in Ends : Stands(P, e, ends[e], events[e], b[e], s[e])
  BY <1>1 DEF Whole
<1>3. TypeOK
  <2>1. \A e \in Ends : Typed(ends[e], e)
    BY <1>2, DriverTyped, Zenon
  <2>2. Clocks
    BY DEF LinkInv
  <2> QED
    BY <2>1, <2>2, Zenon DEF TypeOK, Typed, Clocks
<1>4. \A e \in Ends : ends[e].reason \in Expected \cup {""}
  BY <1>2, DriverTyped, Zenon
<1>5. \A r \in Expected \cup {""} : r \notin {"HandshakeFailed", "BadCiphertextLength", "DecryptFailed"}
  BY Zenon DEF Expected, Loud
<1> QED
  BY <1>3, <1>4, <1>5, Zenon DEF NoSpuriousFailure

\* The TransportState of an end that is established.
IsAt(P, e, b, s, n, m) ==
    /\ ends[e].noise = <<Ciphers(P, e, n, m)>>
    /\ b = m + Lead(Peer(e)) /\ s = n + Lead(e)

LEMMA StandsAt ==
    ASSUME NEW P, NEW e \in Ends, NEW ev, NEW b, NEW s, Stands(P, e, ends[e], ev, b, s),
           IsEstablished(ends[e])
    PROVE  \E n, m \in Nat : IsAt(P, e, b, s, n, m)
<1>1. ends[e].state = "Transport" /\ Running(P, e, ends[e], b, s)
  BY DEF Stands, HasClosed, IsEstablished
<1> QED
  BY <1>1, Zenon DEF Running, IsAt

LEMMA Agree ==
    ASSUME NEW P, NEW b, NEW s, Whole(P, b, s), NEW e \in Ends,
           IsEstablished(ends[e]), IsEstablished(ends[Peer(e)])
    PROVE  /\ ends[e].noise[1].hash = ends[Peer(e)].noise[1].hash
           /\ ends[e].noise[1].recv.n + Len(chan[e]) = ends[Peer(e)].noise[1].send.n
           /\ ends[e].noise[1].recv.k.dir = ends[Peer(e)].noise[1].send.k.dir
<1> DEFINE p == Peer(e)
<1>1. p \in Ends /\ Peer(p) = e
  BY PeerFacts, ZenonT(40)
<1>2. PICK n, m \in Nat : IsAt(P, e, b[e], s[e], n, m)
  BY StandsAt, ZenonT(40) DEF Whole
<1>3. PICK n2, m2 \in Nat : IsAt(P, p, b[p], s[p], n2, m2)
  BY <1>1, StandsAt, ZenonT(40) DEF Whole
<1>4. ends[e].noise[1] = Ciphers(P, e, n, m)
  <2>1. ends[e].noise = <<Ciphers(P, e, n, m)>>
    BY <1>2, ZenonT(40) DEF IsAt
  <2> QED
    BY <2>1, TheOnly, Zenon
<1>5. ends[p].noise[1] = Ciphers(P, p, n2, m2)
  <2>1. ends[p].noise = <<Ciphers(P, p, n2, m2)>>
    BY <1>3, Zenon DEF IsAt
  <2> QED
    BY <2>1, TheOnly, Zenon
<1>6. m + Len(chan[e]) = n2
  <2>1. chan[e] \in Seq(Frames(P)) /\ b[e] + Len(chan[e]) = s[p]
    BY DEF Whole, Carries
  <2>2. Len(chan[e]) \in Nat
    BY <2>1, FramesLen, Zenon
  <2>3. /\ m \in Nat /\ n2 \in Nat /\ Lead(p) \in Nat
        /\ b[e] = m + Lead(p) /\ s[p] = n2 + Lead(p)
    BY <1>2, <1>3, ZenonT(40) DEF IsAt, Lead
  <2> QED
    <3>1. (m + Lead(p)) + Len(chan[e]) = n2 + Lead(p)
      BY <2>1, <2>3, Zenon
    <3> HIDE DEF p
    <3> QED
      BY <2>2, <2>3, <3>1, SMTT(30)
<1>7. /\ Ciphers(P, e, n, m).hash = Ciphers(P, p, n2, m2).hash
      /\ Ciphers(P, e, n, m).recv = CipherAt(P, Dir(p), m)
      /\ Ciphers(P, p, n2, m2).send = CipherAt(P, Dir(p), n2)
  BY DEF Ciphers
<1>8. \A i : CipherAt(P, Dir(p), i).n = i /\ CipherAt(P, Dir(p), i).k.dir = Dir(p)
  BY DEF CipherAt
<1> HIDE DEF p
<1>9. ends[e].noise[1].hash = ends[p].noise[1].hash
  BY <1>4, <1>5, <1>7, Zenon
<1>10. ends[e].noise[1].recv.n = m /\ ends[p].noise[1].send.n = n2
  BY <1>4, <1>5, <1>7, <1>8, Zenon
<1>11. ends[e].noise[1].recv.k.dir = ends[p].noise[1].send.k.dir
  BY <1>4, <1>5, <1>7, <1>8, ZenonT(40)
<1> QED
  BY <1>6, <1>9, <1>10, <1>11, Zenon DEF p

LEMMA Meets ==
    ASSUME LinkInv
    PROVE  Mutual
<1>1. PICK P, b, s : Whole(P, b, s)
  BY DEF LinkInv
<1>2. \A e \in Ends : Sane(P, e, ends[e]) /\ Log(ends[e].state, events[e])
                        /\ (Est(events[e]) => ends[e].remote = Static(Peer(e)))
  BY <1>1, ZenonT(40) DEF Whole, Stands
<1>3. VersionsAgree
  <2> SUFFICES ASSUME NEW e \in Ends, ends[e].version # 0
               PROVE  LET both == ends[e].versions \cap ends[Peer(e)].versions IN
                        ends[e].version \in both /\ \A v \in both : v <= ends[e].version
    BY Zenon DEF VersionsAgree
  <2>1. Peer(e) \in Ends /\ Highest(P, ends[e].version)
    BY <1>2, PeerFacts, ZenonT(40) DEF Sane
  <2>2. ends[e].versions = Offer(P, e) /\ ends[Peer(e)].versions = Offer(P, Peer(e))
    BY <1>2, <2>1, ZenonT(40) DEF Sane
  <2>3. Offer(P, e) \cap Offer(P, Peer(e)) = P[1] \cap P[2]
    BY PeerFacts, Zenon DEF Offer, Ends
  <2> QED
    BY <2>1, <2>2, <2>3, ZenonT(40) DEF Highest
<1>4. EventsInOrder
  <2> SUFFICES ASSUME NEW e \in Ends, NEW i \in DOMAIN events[e], NEW j \in DOMAIN events[e], i < j
               PROVE  events[e][i] # "closed" /\ events[e][j] # "established"
    BY DEF EventsInOrder
  <2>1. events[e] \in Seq(EventKinds)
    BY <1>1, ZenonT(40) DEF Whole
  <2>2. i # Len(events[e]) /\ j # 1
    BY <2>1
  <2> QED
    BY <1>2, <2>2, ZenonT(40) DEF Log
<1>5. \A e \in Ends : Reported(e, "established") <=> Est(events[e])
  BY DEF Reported, Est
<1>6. Reported("responder", "established") => Reported("initiator", "established")
  BY <1>1, <1>5, ZenonT(40) DEF Whole, Ends
<1>7. \A e \in Ends : Reported(e, "established") => ends[e].remote = Static(Peer(e))
  BY <1>2, <1>5, ZenonT(40)
<1>8. \A e \in Ends : IsEstablished(ends[e]) /\ IsEstablished(ends[Peer(e)]) =>
         /\ ends[e].noise[1].hash = ends[Peer(e)].noise[1].hash
         /\ ends[e].noise[1].recv.n + Len(chan[e]) = ends[Peer(e)].noise[1].send.n
         /\ ends[e].noise[1].recv.k.dir = ends[Peer(e)].noise[1].send.k.dir
  BY <1>1, Agree, Zenon
<1> QED
  BY <1>3, <1>4, <1>6, <1>7, <1>8, ZenonT(40) DEF Mutual

LEMMA EarlierKept ==
    ASSUME NEW v \in Seq(EventKinds), NEW w \in Seq(EventKinds), NEW i \in DOMAIN v
    PROVE  i \in DOMAIN (v \o w) /\ (v \o w)[i] = v[i]
  OBVIOUS

\* A driver that has closed stays closed, and a call that closes silently
\* sends nothing.
LEMMA ClosesQuietly ==
    ASSUME NEW P, NEW b, NEW s, Whole(P, b, s), NEW e \in Ends, NEW x \in Ends, NEW c, NEW k,
           Calls(x, c, k), Finish(x, c, k),
           ends[e].reason # ends'[e].reason, ends'[e].reason \notin Loud
    PROVE  Len(chan'[Peer(e)]) <= Len(chan[Peer(e)])
<1>1. /\ DOMAIN ends = Ends /\ DOMAIN chan = Ends /\ events[e] \in Seq(EventKinds)
      /\ Stands(P, e, ends[e], events[e], b[e], s[e])
  BY Zenon DEF Whole
<1>2. x = e
  <2> SUFFICES ASSUME x # e PROVE FALSE
    BY Zenon
  <2>1. ends'[e] = ends[e]
    BY <1>1, ZenonT(40) DEF Finish
  <2> QED
    BY <2>1, ZenonT(40)
<1>3. ends'[e] = c.d
  BY <1>1, <1>2, ZenonT(40) DEF Finish
<1>4. InCall(P, e, c, b[e] + k, s[e], events[e])
  BY <1>2, CallHolds, ZenonT(40)
<1>5. Written(P, e, c, b[e] + k, s[e], events[e])
  BY <1>4, SMTT(30) DEF InCall
<1>6. c.d.state = "Closed"
  <2> SUFFICES ASSUME c.d.state # "Closed" PROVE FALSE
    BY Zenon
  <2>1. Running(P, e, c.d, b[e] + k, s[e] + Len(c.frames))
    BY <1>4 DEF InCall, HasClosed
  <2>2. c.d.reason = ""
    BY <2>1, ZenonT(40) DEF Running
  <2>3. HasClosed(ends[e])
    <3>1. Running(P, e, ends[e], b[e], s[e]) => ends[e].reason = ""
      BY ZenonT(40) DEF Running
    <3> QED
      BY <1>1, <1>3, <2>2, <3>1, ZenonT(40) DEF Stands
  <2>4. Log("Closed", events[e]) /\ Log(c.d.state, events[e] \o c.events)
        /\ c.events \in Seq(EventKinds)
    BY <1>1, <1>5, <2>3, Zenon DEF Stands, HasClosed, Written
  <2>5. PICK i \in DOMAIN events[e] : events[e][i] = "closed"
    BY <2>4, SMTT(30) DEF Log
  <2>6. i \in DOMAIN (events[e] \o c.events) /\ (events[e] \o c.events)[i] = "closed"
    BY <1>1, <2>4, <2>5, EarlierKept, Zenon
  <2> QED
    BY <2>4, <2>6, ZenonT(40) DEF Log
<1>7. c.frames = <<>>
  <2>1. c.d.reason \notin Loud
    BY <1>3, ZenonT(40)
  <2> QED
    BY <1>4, <1>6, <2>1, CallState, ZenonT(40)
<1>8. chan'[Peer(e)] = chan[Peer(e)] \o <<>>
  BY <1>1, <1>2, <1>7, PeerFacts, ZenonT(40) DEF Finish
<1>9. chan[Peer(e)] \in Seq(Frames(P))
  BY PeerFacts, ZenonT(40) DEF Whole, Carries
<1>10. chan[Peer(e)] \o <<>> = chan[Peer(e)] /\ Len(chan[Peer(e)]) \in Nat
  BY <1>9, FramesLen, Zenon
<1> QED
  BY <1>8, <1>10, SMTT(30)

\* What SilentCloses says of a step.
Silently ==
    \A e \in Ends :
       ends[e].reason # ends'[e].reason
         /\ ends'[e].reason \notin {"ProtocolViolation", "VersionIncompatible"}
       => Len(chan'[Peer(e)]) <= Len(chan[Peer(e)])

LEMMA StepsSilently ==
    ASSUME LinkInv, Next
    PROVE  Silently
<1>1. PICK P, b, s : Whole(P, b, s)
  BY DEF LinkInv
<1> SUFFICES ASSUME NEW e \in Ends, ends[e].reason # ends'[e].reason, ends'[e].reason \notin Loud
             PROVE  Len(chan'[Peer(e)]) <= Len(chan[Peer(e)])
  BY DEF Silently, Loud
<1>2. PICK x \in Ends : \E c, k : Calls(x, c, k) /\ Finish(x, c, k)
  BY StepCalls, ZenonT(40)
<1>3. PICK c, k : Calls(x, c, k) /\ Finish(x, c, k)
  BY <1>2
<1> QED
  BY <1>1, <1>3, ClosesQuietly

\* For every interval of rekeying, every pair of offers and every number of
\* sends the link between two ends that run this code never fails: the
\* handshake authenticates, and whatever one end seals the other opens,
\* however the stream is cut into calls of on_bytes.
THEOREM NeverFails ==
    Spec => []NoSpuriousFailure
  BY InvariantHolds, Fails, PTL

\* ... and its ends agree, on the highest common version, on who is
\* established first, on each other's static key and on where each direction
\* of the cipher stream is.
THEOREM AlwaysMutual ==
    Spec => []Mutual
  BY InvariantHolds, Meets, PTL

\* A call that ends in a silent close puts nothing on the wire, not even the
\* frames it had queued before (close_silently of driver.rs).
THEOREM ClosesInSilence ==
    Spec => SilentCloses
<1>1. LinkInv /\ [Next]_vars => [Silently]_vars
  BY StepsSilently, ZenonT(40)
<1>2. [Silently]_vars => [\A e \in Ends :
         ends[e].reason # ends'[e].reason
           /\ ends'[e].reason \notin {"ProtocolViolation", "VersionIncompatible"}
         => Len(chan'[Peer(e)]) <= Len(chan[Peer(e)])]_vars
  BY DEF Silently
<1> QED
  BY <1>1, <1>2, InvariantHolds, PTL DEF Spec, SilentCloses
=============================================================================
