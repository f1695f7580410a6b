------------------------------- MODULE Noise -------------------------------
(***************************************************************************)
(* The Noise layer of a link (core/src/noise): the XX handshake and the    *)
(* two cipher states it leaves behind, with their rekeying.                *)
(*                                                                         *)
(* Cryptography is symbolic and assumed perfect.  A key pair is named by   *)
(* its owner and kind; DH of two pairs is the set of the two; a key is the *)
(* chain of secrets it was derived from; a running hash is the sequence of *)
(* what was mixed into it; a ciphertext records the key, the nonce, the    *)
(* associated data and the plaintext, and decrypts only under the same     *)
(* key, nonce and data.  The operators are pure: LinkDriver holds the      *)
(* states they work on.                                                    *)
(***************************************************************************)
EXTENDS Naturals, Sequences

CONSTANT RekeyInterval  \* REKEY_INTERVAL

ASSUME RekeyAssumption == RekeyInterval \in Nat \ {0}

NoKey == [chain |-> <<>>, dir |-> "", epoch |-> 0]
NoPub == ""

-----------------------------------------------------------------------------
(* CipherState *)

Cipher(k) == [k |-> k, n |-> 0]

(* With no key a message travels as it is. *)
Plain(m) == [k |-> NoKey, n |-> 0, ad |-> <<>>, pt |-> m]

EncryptWithAd(c, ad, m) ==
  IF c.k = NoKey THEN Plain(m) ELSE [k |-> c.k, n |-> c.n, ad |-> ad, pt |-> m]

Decrypts(c, ad, ct) ==
  c.k # NoKey => ct.k = c.k /\ ct.n = c.n /\ ct.ad = ad

NextNonce(c) == IF c.k = NoKey THEN c ELSE [c EXCEPT !.n = @ + 1]

RekeyPreservingNonce(c) == [c EXCEPT !.k.epoch = @ + 1]

-----------------------------------------------------------------------------
(* SymmetricState: the running hash, the chaining key and the cipher. *)

MixHash(ss, x) == [ss EXCEPT !.h = Append(@, x)]

MixKey(ss, dh) ==
  [ss EXCEPT !.ck = Append(@, dh),
             !.cipher = Cipher([chain |-> Append(ss.ck, dh), dir |-> "",
                                epoch |-> 0])]

(* What a ciphertext adds to a hash: given the hash so far, its associated *)
(* data is known.                                                          *)
Mixed(ct) == <<ct.k.chain, ct.n, ct.pt>>

EncryptAndHash(ss, m) == EncryptWithAd(ss.cipher, ss.h, m)

Opens(ss, ct) == Decrypts(ss.cipher, ss.h, ct)

(* The state of either side after a ciphertext was written or read. *)
AfterSealed(ss, ct) ==
  MixHash([ss EXCEPT !.cipher = NextNonce(@)], Mixed(ct))

(* Split: the initiator sends on the first cipher, the responder on the    *)
(* second.                                                                 *)
Split(ss, dir) == Cipher([chain |-> ss.ck, dir |-> dir, epoch |-> 0])

-----------------------------------------------------------------------------
(* HandshakeState.  `me' names our two key pairs; re and rs are the peer's *)
(* public keys as far as they are known; step is 1..4.                     *)

Ephemeral(me) == <<me, "e">>
Static(me) == <<me, "s">>
NoPair == <<NoPub, NoPub>>

NewXX(role, me, prologue) ==
  [ss |-> [h |-> <<prologue>>, ck |-> <<>>, cipher |-> Cipher(NoKey)],
   me |-> me, re |-> NoPair, rs |-> NoPair, role |-> role, step |-> 1]

OurTurn(hs) ==
  hs.step \in (IF hs.role = "initiator" THEN {1, 3} ELSE {2})

IsFinished(hs) == hs.step > 3

(* The secret a token mixes in; both ends compute the same set. *)
Secret(hs, token) ==
  CASE token = "ee" -> {Ephemeral(hs.me), hs.re}
    [] token = "es" -> IF hs.role = "initiator"
                         THEN {Ephemeral(hs.me), hs.rs}
                         ELSE {Static(hs.me), hs.re}
    [] token = "se" -> IF hs.role = "initiator"
                         THEN {Static(hs.me), hs.re}
                         ELSE {Ephemeral(hs.me), hs.rs}

MixToken(hs, token) == [hs EXCEPT !.ss = MixKey(@, Secret(hs, token))]

Advance(hs) == [hs EXCEPT !.step = @ + 1]

NoCt == Plain(NoPair)

(* A message has an ephemeral key (steps 1 and 2), a sealed static key     *)
(* (steps 2 and 3) and a sealed empty payload.                             *)

(* The state after the ephemeral key pub was written or read. *)
AfterE(hs, pub) ==
  LET mixed == [hs EXCEPT !.ss = MixHash(@, pub)] IN
  IF hs.step = 2 THEN MixToken(mixed, "ee") ELSE mixed

(* ... and after the sealed static key. *)
AfterS(hs, ct) ==
  MixToken([hs EXCEPT !.ss = AfterSealed(@, ct)],
           IF hs.step = 2 THEN "es" ELSE "se")

WriteMessage(hs) ==
  LET a == IF hs.step # 3 THEN AfterE(hs, Ephemeral(hs.me)) ELSE hs
      s == IF hs.step # 1 THEN EncryptAndHash(a.ss, Static(hs.me)) ELSE NoCt
      b == IF hs.step # 1 THEN AfterS(a, s) ELSE a
      p == EncryptAndHash(b.ss, NoPair)
  IN [hs |-> Advance([b EXCEPT !.ss = AfterSealed(@, p)]),
      msg |-> [step |-> hs.step, e |-> Ephemeral(hs.me), s |-> s, payload |-> p]]

(* The result of reading m, and whether it was accepted: in turn, of the   *)
(* length of the step, and every sealed part authentic.                    *)
ReadMessage(hs, m) ==
  LET a == IF hs.step # 3 THEN AfterE([hs EXCEPT !.re = m.e], m.e) ELSE hs
      b == IF hs.step # 1 THEN AfterS([a EXCEPT !.rs = m.s.pt], m.s) ELSE a
  IN [ok |-> /\ ~ OurTurn(hs)
             /\ m.step = hs.step
             /\ hs.step # 1 => Opens(a.ss, m.s)
             /\ Opens(b.ss, m.payload),
      hs |-> Advance([b EXCEPT !.ss = AfterSealed(@, m.payload)])]

-----------------------------------------------------------------------------
(* TransportState *)

(* Mutant: both ends send on the first cipher. *)
IntoTransportSame(hs) ==
  [send |-> Split(hs.ss, "c1"), recv |-> Split(hs.ss, "c2"), hash |-> hs.ss.h]

IntoTransport(hs) ==
  [send |-> Split(hs.ss, IF hs.role = "initiator" THEN "c1" ELSE "c2"),
   recv |-> Split(hs.ss, IF hs.role = "initiator" THEN "c2" ELSE "c1"),
   hash |-> hs.ss.h]

RekeyIfDue(c) ==
  IF c.n > 0 /\ c.n % RekeyInterval = 0 THEN RekeyPreservingNonce(c) ELSE c
=============================================================================
