-------------------------------- MODULE Node --------------------------------
(***************************************************************************)
(* The links of a node and the limiter tickets they hold                   *)
(* (core/src/api/node.rs).  Every call takes the node's one mutex, so each *)
(* call is one action; what races is the order of the calls and the clock  *)
(* readings they bring along, which may be older than a reading already    *)
(* applied.                                                                *)
(*                                                                         *)
(* A link's driver is kept as what the node's bookkeeping depends on: when *)
(* it was opened, whether its handshake has completed, and which events    *)
(* one call makes it report.  The store and the sync sessions of the       *)
(* established links are the subject of other modules.                     *)
(***************************************************************************)
EXTENDS HandshakeLimiter

CONSTANTS
    HandshakeTimeout,   \* LinkDriverConfig.handshake_timeout_us
    MaxLifetime,        \* LinkDriverConfig.max_lifetime_us
    Skew,               \* bound: how old a clock reading may be at the mutex
    MaxTime,            \* bound: no clock reading is later than this
    MaxLinks            \* bound: links ever opened

ASSUME NodeAssumption ==
    /\ HandshakeTimeout \in Nat
    /\ MaxLifetime \in Nat
    /\ Skew \in Nat
    /\ MaxTime \in Nat
    /\ MaxLinks \in Nat

VARIABLES
    links,          \* link id -> [ticket, established, opened], live links
    next_link_id,
    last_now,       \* the clamp on the callers' clock readings
    clock,          \* the monotonic clock the callers read
    reported        \* link id -> Closed events reported so far, links ever opened

nodeVars == <<links, next_link_id, last_now, clock, reported>>
vars == <<limiterVars, nodeVars>>

None == -1
Link == [ticket : Nat \cup {None}, established : BOOLEAN, opened : Nat]

\* The node's links, the limiter's tickets and buckets, and the clocks have
\* their types.
TypeOK ==
    /\ LimiterTypeOK
    /\ DOMAIN links \subseteq Nat
    /\ \A l \in DOMAIN links : links[l] \in Link
    /\ next_link_id \in Nat
    /\ last_now \in Nat
    /\ clock \in Nat
    /\ DOMAIN reported = 0..next_link_id - 1
    /\ \A l \in DOMAIN reported : reported[l] \in Nat

Init ==
    /\ LimiterInit
    /\ links = [l \in {} |-> 0]
    /\ next_link_id = 0
    /\ last_now = 0
    /\ clock = 0
    /\ reported = [l \in {} |-> 0]

-----------------------------------------------------------------------------
\* Mutant of Clamp: the caller's reading is taken as it comes.
ClampNever(now) == now

\* clamp_now: the time a call works with.
Clamp(now) == IF now > last_now THEN now ELSE last_now

Readings == {t \in 0..clock : clock - t <= Skew}

(***************************************************************************)
(* LinkDriver::check_timeouts: a half-open link dies of the handshake      *)
(* timeout, any link of the lifetime cap.                                  *)
(***************************************************************************)
TimedOut(link, now) ==
    \/ ~link.established /\ now - link.opened >= HandshakeTimeout
    \/ now - link.opened >= MaxLifetime

Minus(ls) == [l \in DOMAIN links \ ls |-> links[l]]

TicketsOf(ls) == {links[l].ticket : l \in ls} \ {None}

Report(ls) ==
    [l \in DOMAIN reported |-> IF l \in ls THEN reported[l] + 1 ELSE reported[l]]

OpenLink(ticket, now) ==
    /\ next_link_id < MaxLinks
    /\ links' = [l \in DOMAIN links \cup {next_link_id} |->
                    IF l = next_link_id
                    THEN [ticket |-> ticket, established |-> FALSE, opened |-> now]
                    ELSE links[l]]
    /\ next_link_id' = next_link_id + 1
    /\ reported' = [l \in DOMAIN reported \cup {next_link_id} |->
                       IF l = next_link_id THEN 0 ELSE reported[l]]

\* connect: we opened the transport; no ticket is taken.
Connect(reading) ==
    LET now == Clamp(reading)
    IN  /\ last_now' = now
        /\ OpenLink(None, now)
        /\ UNCHANGED <<limiterVars, clock>>

\* accept: the limiter admits the peer, and the link holds its ticket ...
Accept(a, reading) ==
    LET now == Clamp(reading)
    IN  /\ last_now' = now
        /\ Admit(a, now)
        /\ OpenLink(next_ticket, now)
        /\ UNCHANGED clock

\* ... or refuses it, and nothing is opened.
AcceptRefused(a, reading) ==
    LET now == Clamp(reading)
    IN  /\ last_now' = now
        /\ RefuseFull(a, now) \/ RefuseRate(a, now)
        /\ UNCHANGED <<links, next_link_id, clock, reported>>

(***************************************************************************)
(* settle and retire, over the events of one driver call on link l:        *)
(* Established gives the ticket back and leaves the link; Closed removes   *)
(* the link and gives back a ticket it still holds.                        *)
(***************************************************************************)
SettleEstablished(l) ==
    /\ links' = [links EXCEPT ![l].established = TRUE, ![l].ticket = None]
    /\ half_open' = Without(TicketsOf({l}))
    /\ UNCHANGED reported

\* Mutant of SettleClosed: the ticket of a closed link is not given back.
SettleClosedLeaky(l) ==
    /\ links' = Minus({l})
    /\ UNCHANGED half_open
    /\ reported' = Report({l})

SettleClosed(l) ==
    /\ links' = Minus({l})
    /\ half_open' = Without(TicketsOf({l}))
    /\ reported' = Report({l})

Quiet == UNCHANGED <<links, half_open, reported>>

(***************************************************************************)
(* on_bytes.  The driver checks its timeouts first; otherwise the bytes    *)
(* complete the handshake, close the link, do both (one buffer may hold    *)
(* several frames: the link then ends as a closed one), or neither.  Bytes *)
(* for a link that is gone are dropped.                                    *)
(***************************************************************************)
OnBytes(l, reading) ==
    LET now == Clamp(reading)
    IN  /\ last_now' = now
        /\ \/ /\ l \notin DOMAIN links
              /\ Quiet
           \/ /\ l \in DOMAIN links
              /\ TimedOut(links[l], now)
              /\ SettleClosed(l)
           \/ /\ l \in DOMAIN links
              /\ ~TimedOut(links[l], now)
              /\ \/ ~links[l].established /\ SettleEstablished(l)
                 \/ SettleClosed(l)
                 \/ Quiet
        /\ UNCHANGED <<buckets, next_ticket, next_link_id, clock>>

\* start_sync on an established link: the queued frame may exhaust the nonce,
\* which closes the link.  It takes no clock reading.
StartSync(l) ==
    /\ l \in DOMAIN links
    /\ links[l].established
    /\ Quiet \/ SettleClosed(l)
    /\ UNCHANGED <<buckets, next_ticket, next_link_id, last_now, clock>>

\* on_transport_closed, for a live link or one that is gone already.
OnTransportClosed(l, reading) ==
    /\ last_now' = Clamp(reading)
    /\ IF l \in DOMAIN links THEN SettleClosed(l) ELSE Quiet
    /\ UNCHANGED <<buckets, next_ticket, next_link_id, clock>>

\* Mutant of Tick: the drivers are not ticked, only the limiter is.
TickExpireOnly(reading) ==
    LET now  == Clamp(reading)
        gone == {l \in DOMAIN links : links[l].ticket \in Expired(now)}
    IN  /\ last_now' = now
        /\ links' = Minus(gone)
        /\ half_open' = Without(Expired(now))
        /\ reported' = Report(gone)
        /\ UNCHANGED <<buckets, next_ticket, next_link_id, clock>>

\* Mutant of Tick: the limiter's expired tickets are looked up before the
\* drivers' own timeouts have removed the links.
TickExpireFirst(reading) ==
    LET now      == Clamp(reading)
        timedOut == {l \in DOMAIN links : TimedOut(links[l], now)}
        expired  == {l \in DOMAIN links : links[l].ticket \in Expired(now)}
    IN  /\ last_now' = now
        /\ links' = Minus(timedOut \cup expired)
        /\ half_open' = Without(TicketsOf(timedOut) \cup Expired(now))
        /\ reported' = [l \in DOMAIN reported |->
                           reported[l] + Cardinality({l} \cap timedOut)
                                       + Cardinality({l} \cap expired)]
        /\ UNCHANGED <<buckets, next_ticket, next_link_id, clock>>

(***************************************************************************)
(* tick: every driver checks its timeouts and the links that die are       *)
(* settled; then the limiter expires tickets, and a link that still holds  *)
(* an expired one is removed.                                              *)
(***************************************************************************)
Tick(reading) ==
    LET now      == Clamp(reading)
        timedOut == {l \in DOMAIN links : TimedOut(links[l], now)}
        spent    == Expired(now) \ TicketsOf(timedOut)
        expired  == {l \in DOMAIN links \ timedOut : links[l].ticket \in spent}
    IN  /\ last_now' = now
        /\ links' = Minus(timedOut \cup expired)
        /\ half_open' = Without(TicketsOf(timedOut) \cup spent)
        /\ reported' = Report(timedOut \cup expired)
        /\ UNCHANGED <<buckets, next_ticket, next_link_id, clock>>

Elapse ==
    /\ clock < MaxTime
    /\ clock' = clock + 1
    /\ UNCHANGED <<limiterVars, links, next_link_id, last_now, reported>>

Next ==
    \/ Elapse
    \/ \E r \in Readings :
        \/ Connect(r)
        \/ \E a \in Addrs : Accept(a, r) \/ AcceptRefused(a, r)
        \/ \E l \in 0..next_link_id - 1 : OnBytes(l, r) \/ OnTransportClosed(l, r)
        \/ Tick(r)
    \/ \E l \in DOMAIN links : StartSync(l)

Spec == Init /\ [][Next]_vars

(***************************************************************************)
(* Fairness: the clock runs, and NodeRuntime.startTicking ticks once a     *)
(* second.  Nothing is asked of the peers, the transports or the user.     *)
(***************************************************************************)
FairSpec == Spec /\ WF_vars(Elapse) /\ WF_vars(\E r \in Readings : Tick(r))

-----------------------------------------------------------------------------
(***************************************************************************)
(* The half-open slots are exactly the tickets of the live links still in  *)
(* handshake: no slot leaks when a link establishes, dies or times out     *)
(* (settle, retire, tick), and none is given back twice or shared.         *)
(***************************************************************************)
TicketsMatchLinks ==
    /\ DOMAIN half_open = TicketsOf(DOMAIN links)
    /\ \A l \in DOMAIN links : links[l].established => links[l].ticket = None
    /\ \A l, m \in DOMAIN links :
          links[l].ticket # None /\ links[l].ticket = links[m].ticket => l = m

(***************************************************************************)
(* The two timers of an inbound handshake, the driver's and the limiter's, *)
(* are started together: with the defaults, where both run 30 s, a ticket  *)
(* never outlives its link's own timeout and expire() finds none to close. *)
(***************************************************************************)
TimersAgree ==
    \A l \in DOMAIN links :
        links[l].ticket # None =>
            half_open[links[l].ticket] = links[l].opened + HalfOpenTimeout

(***************************************************************************)
(* The limiter's table of handshakes mirrors the node's: the same ones,    *)
(* with deadlines counted from the same readings of the clock, although    *)
(* readings reach the node out of order.                                   *)
(***************************************************************************)
HandshakesTracked == TypeOK /\ TicketsMatchLinks /\ TimersAgree

(***************************************************************************)
(* Every link opened is reported closed exactly once, when it leaves the   *)
(* node, whichever of the bytes, the transport, the tick or the limiter    *)
(* ends it ("reports the close exactly once", on_transport_closed).        *)
(***************************************************************************)
ClosedOnce ==
    \A l \in 0..next_link_id - 1 :
        reported[l] = (IF l \in DOMAIN links THEN 0 ELSE 1)

(***************************************************************************)
(* Nothing the node remembers is dated after its own time, although the    *)
(* callers read the clock before they race for the mutex: no elapsed time  *)
(* the limiter or a driver computes is ever cut off at zero.               *)
(***************************************************************************)
NothingFromTheFuture ==
    /\ \A l \in DOMAIN links : links[l].opened <= last_now
    /\ \A a \in DOMAIN buckets : buckets[a].last_refill <= last_now

(***************************************************************************)
(* A handshake never stays half open for good: the half-open cap is a      *)
(* limit and not a lever (PROTOCOL 4.5).  Links opened when the bounded    *)
(* clock has no timeout left are not claimed.                              *)
(***************************************************************************)
HalfOpenLink(l) ==
    /\ l \in DOMAIN links
    /\ ~links[l].established
    /\ links[l].opened + HandshakeTimeout <= MaxTime - Skew

HalfOpenEnds == \A l \in 0..MaxLinks - 1 : HalfOpenLink(l) ~> ~HalfOpenLink(l)
=============================================================================
