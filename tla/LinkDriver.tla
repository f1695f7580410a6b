----------------------------- MODULE LinkDriver -----------------------------
(***************************************************************************)
(* One link, end to end (core/src/link/driver.rs): the drivers of its two  *)
(* ends, joined by a byte stream in each direction.  The opener sends its  *)
(* HELLO; the ends agree on a version; the XX handshake runs with both     *)
(* HELLO bodies as its prologue; then the ends exchange sealed messages.   *)
(*                                                                         *)
(* A frame is the unit of the stream: bytes of a frame that is not         *)
(* complete stay in the FrameDecoder, which here is the channel.  One call *)
(* of on_bytes handles any number of frames and returns all that they      *)
(* caused, and a silent close drops what the same call had queued.         *)
(*                                                                         *)
(* What the Syncer does with a message is its own module; a message is     *)
(* "ask" (the Syncer replies), "note" (it does not) or "bad" (it refuses   *)
(* it, for instance because the store is full).                            *)
(***************************************************************************)
EXTENDS Noise, FiniteSets

CONSTANTS Offers,            \* what an end may have as config.versions
          HandshakeTimeout,  \* handshake_timeout_us
          MaxLifetime,       \* max_lifetime_us
          MaxSends           \* bound: messages originated by an end

ASSUME DriverAssumption ==
  /\ \A offer \in Offers : offer \subseteq Nat /\ IsFiniteSet(offer)
  /\ HandshakeTimeout \in Nat /\ MaxLifetime \in Nat /\ MaxSends \in Nat

VARIABLES ends,   \* the LinkDriver of each end
          chan,   \* the frames on their way to each end
          age,    \* time since opened_at_us, on the clock of each end
          events, \* what each driver has reported
          sends   \* messages originated by each end

vars == <<ends, chan, age, events, sends>>

Ends == {"initiator", "responder"}
Peer(e) == CHOOSE f \in Ends : f # e

Hello(v) == [type |-> "hello", versions |-> v]
Handshake(m) == [type |-> "handshake", msg |-> m]
ErrorMsg(c) == [type |-> "error", code |-> c]
Sealed(ct) == [type |-> "sealed", ct |-> ct]

(* The driver of an end.  noise holds the HandshakeState or TransportState. *)
NewDriver(e, versions) ==
  [role |-> e, versions |-> versions, state |-> "AwaitPeerHello", reason |-> "", noise |-> <<>>,
   remote |-> NoPair, version |-> 0]

(* A call in progress: the driver, and the frames and events of LinkOutput. *)
Call(d) == [d |-> d, frames |-> <<>>, events |-> <<>>]

Report(c, ev) == [c EXCEPT !.events = Append(@, ev)]
Queue(c, frame) == [c EXCEPT !.frames = Append(@, frame)]

IsClosed(d) == d.state = "Closed"
IsEstablished(d) == d.state = "Transport"

Closed(c, reason) ==
  Report([c EXCEPT !.d.state = "Closed", !.d.reason = reason, !.d.noise = <<>>],
         "closed")

-----------------------------------------------------------------------------
(* Mutant: the frames queued so far are still sent. *)
CloseLoudly(c, reason) == Closed(c, reason)

CloseSilently(c, reason) == [Closed(c, reason) EXCEPT !.frames = <<>>]

(* Mutant: the sending side never rekeys. *)
QueueEncryptedNoRekey(c, m) ==
  LET tr == c.d.noise[1] IN
  Queue([c EXCEPT !.d.noise = <<[tr EXCEPT !.send = NextNonce(@)]>>],
        Sealed(EncryptWithAd(tr.send, <<>>, m)))

QueueEncrypted(c, m) ==
  LET tr == c.d.noise[1]
      cipher == RekeyIfDue(tr.send)
  IN Queue([c EXCEPT !.d.noise = <<[tr EXCEPT !.send = NextNonce(cipher)]>>],
           Sealed(EncryptWithAd(cipher, <<>>, m)))

CloseWithError(c, code, reason) ==
  Closed(IF IsEstablished(c.d) THEN QueueEncrypted(c, "error")
                               ELSE Queue(c, ErrorMsg(code)), reason)

(* Mutant: only a handshake is timed. *)
CheckTimeoutsHandshake(c, t) ==
  CASE c.d.state \in {"AwaitPeerHello", "Handshaking"} /\ t >= HandshakeTimeout ->
         CloseSilently(c, "HandshakeTimeout")
    [] OTHER -> c

CheckTimeouts(c, t) ==
  CASE IsClosed(c.d) -> c
    [] ~ IsClosed(c.d) /\ ~ IsEstablished(c.d) /\ t >= HandshakeTimeout ->
         CloseSilently(c, "HandshakeTimeout")
    [] ~ IsClosed(c.d) /\ (IsEstablished(c.d) \/ t < HandshakeTimeout)
                       /\ t >= MaxLifetime ->
         CloseSilently(c, "LifetimeExpired")
    [] OTHER -> c

-----------------------------------------------------------------------------
(* handle_hello_body *)

Common(d, hello) == hello.versions \cap d.versions

Prologue(d, hello) ==
  IF d.role = "initiator" THEN <<d.versions, hello.versions>>
                          ELSE <<hello.versions, d.versions>>

Effective(d, hello) ==
  CHOOSE v \in Common(d, hello) : \A w \in Common(d, hello) : w <= v

Negotiated(c, hello) ==
  LET hs == NewXX(c.d.role, c.d.role, Prologue(c.d, hello))
      w == WriteMessage(hs)
      agreed == [c EXCEPT !.d.version = Effective(c.d, hello),
                          !.d.state = "Handshaking"]
  IN IF c.d.role = "initiator"
       THEN Queue([agreed EXCEPT !.d.noise = <<w.hs>>], Handshake(w.msg))
       ELSE Queue([agreed EXCEPT !.d.noise = <<hs>>], Hello(c.d.versions))

HandleHelloBody(c, body) ==
  CASE body = ErrorMsg(2) -> CloseSilently(c, "VersionIncompatible")
    [] body # ErrorMsg(2) /\ body.type # "hello" ->
         CloseSilently(c, "HandshakeFailed")
    [] body.type = "hello" ->
         IF Common(c.d, body) = {}
           THEN CloseWithError(c, 2, "VersionIncompatible")
           ELSE Negotiated(c, body)

(* handle_handshake_body *)

Established(c, hs) ==
  Report([c EXCEPT !.d.state = "Transport", !.d.noise = <<IntoTransport(hs)>>,
                   !.d.remote = hs.rs], "established")

Accepted(c, hs) ==
  LET w == WriteMessage(hs)
      sent == Queue(c, Handshake(w.msg))
  IN CASE IsFinished(hs) -> Established(c, hs)
       [] ~ IsFinished(hs) /\ IsFinished(w.hs) -> Established(sent, w.hs)
       [] OTHER -> [sent EXCEPT !.d.noise = <<w.hs>>]

HandleHandshakeBody(c, body) ==
  CASE body = ErrorMsg(2) -> CloseSilently(c, "VersionIncompatible")
    [] body # ErrorMsg(2) /\ body.type # "handshake" ->
         CloseSilently(c, "HandshakeFailed")
    [] body.type = "handshake" ->
         LET r == ReadMessage(c.d.noise[1], body.msg) IN
         IF r.ok THEN Accepted(c, r.hs) ELSE CloseSilently(c, "HandshakeFailed")

(* handle_transport_body *)

Demux(c, m) ==
  CASE m = "error" -> CloseSilently(c, "PeerError")
    [] m = "ask" -> QueueEncrypted(Report(c, "sync"), "note")
    [] m = "note" -> Report(c, "sync")
    [] m = "bad" -> CloseWithError(Report(c, "sync"), 3, "ProtocolViolation")

HandleTransportBody(c, body) ==
  IF body.type # "sealed" THEN CloseSilently(c, "BadCiphertextLength")
  ELSE LET tr == c.d.noise[1]
           cipher == RekeyIfDue(tr.recv)
       IN IF ~ Decrypts(cipher, <<>>, body.ct)
            THEN CloseSilently(c, "DecryptFailed")
            ELSE Demux([c EXCEPT !.d.noise =
                          <<[tr EXCEPT !.recv = NextNonce(cipher)]>>],
                       body.ct.pt)

HandleBody(c, body) ==
  CASE c.d.state = "AwaitPeerHello" -> HandleHelloBody(c, body)
    [] c.d.state = "Handshaking" -> HandleHandshakeBody(c, body)
    [] c.d.state = "Transport" -> HandleTransportBody(c, body)
    [] c.d.state = "Closed" -> c

-----------------------------------------------------------------------------
(* The opener's HELLO is written as soon as the transport connects (start). *)
Init ==
  /\ \E offer \in [Ends -> Offers] :
       /\ ends = [e \in Ends |-> NewDriver(e, offer[e])]
       /\ chan = [initiator |-> <<>>, responder |-> <<Hello(offer["initiator"])>>]
  /\ age = [e \in Ends |-> 0]
  /\ events = [e \in Ends |-> <<>>]
  /\ sends = [e \in Ends |-> 0]

(* The effects of a finished call at end e that consumed k frames. *)
Finish(e, c, k) ==
  /\ ends' = [ends EXCEPT ![e] = c.d]
  /\ events' = [events EXCEPT ![e] = @ \o c.events]
  /\ chan' = [chan EXCEPT ![e] = SubSeq(@, k + 1, Len(@)),
                          ![Peer(e)] = @ \o c.frames]

(* The call after each of the frames on their way to e. *)
Bodies(e) ==
  LET after[i \in 0..Len(chan[e])] ==
        IF i = 0 THEN CheckTimeouts(Call(ends[e]), age[e])
                 ELSE HandleBody(after[i - 1], chan[e][i])
  IN after

OnBytes(e, k) ==
  /\ Finish(e, Bodies(e)[k], k)
  /\ UNCHANGED <<age, sends>>

OnTick(e) ==
  /\ Finish(e, CheckTimeouts(Call(ends[e]), age[e]), 0)
  /\ UNCHANGED <<age, sends>>

(* open_sync and send: a message originated here. *)
Send(e, m) ==
  /\ IsEstablished(ends[e])
  /\ sends[e] < MaxSends
  /\ sends' = [sends EXCEPT ![e] = @ + 1]
  /\ Finish(e, QueueEncrypted(Call(ends[e]), m), 0)
  /\ UNCHANGED age

(* send of an ERROR closes the link. *)
SendError(e) ==
  /\ IsEstablished(ends[e])
  /\ Finish(e, CloseWithError(Call(ends[e]), 3, "ProtocolViolation"), 0)
  /\ UNCHANGED <<age, sends>>

(* Time passes on the clock of an end. *)
Elapse(e) ==
  /\ age[e] < MaxLifetime
  /\ age' = [age EXCEPT ![e] = @ + 1]
  /\ UNCHANGED <<ends, chan, events, sends>>

Next ==
  \E e \in Ends :
    \/ \E k \in 1..Len(chan[e]) : OnBytes(e, k)
    \/ OnTick(e)
    \/ \E m \in {"ask", "note", "bad"} : Send(e, m)
    \/ SendError(e)
    \/ Elapse(e)

Spec == Init /\ [][Next]_vars

(* Node::tick reaches every driver once a second, and time passes. *)
FairSpec ==
  /\ Spec
  /\ \A e \in Ends : WF_vars(OnTick(e)) /\ WF_vars(Elapse(e))

-----------------------------------------------------------------------------
\* The drivers and the frames on their way have their types, and a closed
\* driver holds no keys.
TypeOK ==
  /\ \A e \in Ends :
       /\ ends[e].role = e
       /\ ends[e].state \in {"AwaitPeerHello", "Handshaking", "Transport", "Closed"}
       /\ Len(ends[e].noise) = IF ends[e].state \in {"Handshaking", "Transport"}
                                 THEN 1 ELSE 0
       /\ IsClosed(ends[e]) <=> ends[e].reason # ""
  /\ age \in [Ends -> 0..MaxLifetime]
  /\ sends \in [Ends -> 0..MaxSends]

(* Between two ends that run this code nothing fails that should not: the  *)
(* handshake authenticates, and the two sides of each direction rekey at   *)
(* the same message, however the stream was cut into calls of on_bytes.    *)
NoSpuriousFailure ==
  /\ TypeOK
  /\ \A e \in Ends : ends[e].reason \notin
       {"HandshakeFailed", "BadCiphertextLength", "DecryptFailed"}

(* Ends that have both negotiated did so alike: each took the highest      *)
(* version that both offer, computed from the other's HELLO alone.         *)
VersionsAgree ==
  \A e \in Ends : ends[e].version # 0 =>
    LET both == ends[e].versions \cap ends[Peer(e)].versions IN
      ends[e].version \in both /\ \A v \in both : v <= ends[e].version

(* A driver reports "established" at most once, sync events only after it, *)
(* and "closed" at most once and last, also when one call of on_bytes      *)
(* meets several of them.                                                  *)
EventsInOrder ==
  \A e \in Ends : \A i, j \in DOMAIN events[e] : i < j =>
    /\ events[e][i] # "closed"
    /\ events[e][j] # "established"

Reported(e, ev) == \E i \in DOMAIN events[e] : events[e][i] = ev

(* Beside the version the two ends agree on the link.  The responder is    *)
(* established only after the initiator, and each knows the other's static *)
(* key.  While both are established they hold the same handshake hash, and *)
(* each receives on the cipher the other sends on, as many messages behind *)
(* as there are in flight.  What an end reports, it reports in order.      *)
Mutual ==
  /\ VersionsAgree
  /\ EventsInOrder
  /\ Reported("responder", "established") => Reported("initiator", "established")
  /\ \A e \in Ends : Reported(e, "established") => ends[e].remote = Static(Peer(e))
  /\ \A e \in Ends : IsEstablished(ends[e]) /\ IsEstablished(ends[Peer(e)]) =>
       LET mine == ends[e].noise[1]
           other == ends[Peer(e)].noise[1]
       IN /\ mine.hash = other.hash
          /\ mine.recv.n + Len(chan[e]) = other.send.n
          /\ mine.recv.k.dir = other.send.k.dir

(* A call that ends in a silent close puts nothing on the wire, not even   *)
(* what it had queued before (no error oracle, PROTOCOL 4.4).              *)
SilentCloses ==
  [][\A e \in Ends :
       ends[e].reason # ends'[e].reason
         /\ ends'[e].reason \notin {"ProtocolViolation", "VersionIncompatible"}
       => Len(chan'[Peer(e)]) <= Len(chan[Peer(e)])]_vars

(* No link lasts: a handshake that does not complete, and a session past   *)
(* its lifetime, is closed by the ticks, whatever the peer does.           *)
LinksEnd == \A e \in Ends : <>[](IsClosed(ends[e]))
=============================================================================
