-------------------------- MODULE HandshakeLimiter --------------------------
(***************************************************************************)
(* The acceptor-side handshake gate of core/src/link/limiter.rs: a token   *)
(* bucket per remote address, refilled lazily and forgotten once it would  *)
(* be full again, and a cap on the handshakes that are half open.  Time is *)
(* injected by the caller, which never lets it run backwards.              *)
(*                                                                         *)
(* The module is used in two ways: Node composes these actions with the    *)
(* links of a node, LimiterRate drives them alone with a clock and a       *)
(* record of what was admitted.                                            *)
(***************************************************************************)
EXTENDS Integers, FiniteSets

CONSTANTS
    Addrs,            \* remote transport addresses
    Burst,            \* LimiterConfig.burst
    RefillInterval,   \* LimiterConfig.refill_interval_us
    MaxHalfOpen,      \* LimiterConfig.max_half_open
    HalfOpenTimeout   \* LimiterConfig.half_open_timeout_us

ASSUME LimiterAssumption ==
    /\ Burst \in Nat \ {0}
    /\ RefillInterval \in Nat \ {0}
    /\ MaxHalfOpen \in Nat
    /\ HalfOpenTimeout \in Nat

VARIABLES
    buckets,      \* address -> [tokens, last_refill], for the addresses kept
    half_open,    \* ticket -> deadline, for the handshakes in progress
    next_ticket   \* the ticket the next admission takes

limiterVars == <<buckets, half_open, next_ticket>>

Bucket == [tokens : 0..Burst, last_refill : Nat]

LimiterTypeOK ==
    /\ DOMAIN buckets \subseteq Addrs
    /\ \A a \in DOMAIN buckets : buckets[a] \in Bucket
    /\ DOMAIN half_open \subseteq Nat
    /\ \A t \in DOMAIN half_open : half_open[t] \in Nat
    /\ next_ticket \in Nat

LimiterInit ==
    /\ buckets = [a \in {} |-> 0]
    /\ half_open = [t \in {} |-> 0]
    /\ next_ticket = 0

(***************************************************************************)
(* The bucket of an address, created full when there is none.              *)
(***************************************************************************)
BucketOf(a, now) ==
    IF a \in DOMAIN buckets
    THEN buckets[a]
    ELSE [tokens |-> Burst, last_refill |-> now]

AtMost(n, bound) == IF n < bound THEN n ELSE bound

\* Mutant of Refilled: the part of an interval gone by is lost at every call.
RefilledForgetful(b, now) ==
    LET n == (now - b.last_refill) \div RefillInterval
    IN  [tokens      |-> AtMost(b.tokens + n, Burst),
         last_refill |-> now]

(***************************************************************************)
(* Lazy refill: whole intervals become tokens, up to the burst, and the    *)
(* remainder of the last interval stays on account in last_refill.         *)
(***************************************************************************)
Refilled(b, now) ==
    LET n == (now - b.last_refill) \div RefillInterval
    IN  [tokens      |-> AtMost(b.tokens + n, Burst),
         last_refill |-> b.last_refill + n * RefillInterval]

\* Mutants of StillRefilling: a bucket is dropped one interval too early;
\* fullness is read off the stored tokens and the lazy refill forgotten.
CollectedEarly(b, now) ==
    now - b.last_refill < (Burst - b.tokens - 1) * RefillInterval

CollectedByStoredTokens(b, now) == b.tokens < Burst

(***************************************************************************)
(* What the collection at the end of an admission keeps: the buckets that  *)
(* a refill at this moment would not fill.                                 *)
(***************************************************************************)
StillRefilling(b, now) ==
    now - b.last_refill < (Burst - b.tokens) * RefillInterval

FullHouse == Cardinality(DOMAIN half_open) >= MaxHalfOpen

WithBucket(a, b) ==
    [x \in DOMAIN buckets \cup {a} |-> IF x = a THEN b ELSE buckets[x]]

Collect(bs, now) ==
    [x \in {y \in DOMAIN bs : StillRefilling(bs[y], now)} |-> bs[x]]

WithTicket(t, deadline) ==
    [x \in DOMAIN half_open \cup {t} |-> IF x = t THEN deadline ELSE half_open[x]]

(***************************************************************************)
(* admit, by outcome.  The cap is tested before any bucket is touched; a   *)
(* refusal for want of a token keeps the refilled bucket and collects      *)
(* nothing.                                                                *)
(***************************************************************************)
RefuseFull(a, now) ==
    /\ FullHouse
    /\ UNCHANGED limiterVars

RefuseRate(a, now) ==
    LET b == Refilled(BucketOf(a, now), now)
    IN  /\ ~FullHouse
        /\ b.tokens = 0
        /\ buckets' = WithBucket(a, b)
        /\ UNCHANGED <<half_open, next_ticket>>

Admit(a, now) ==
    LET b == Refilled(BucketOf(a, now), now)
    IN  /\ ~FullHouse
        /\ b.tokens > 0
        /\ buckets' = Collect(WithBucket(a, [b EXCEPT !.tokens = @ - 1]), now)
        /\ half_open' = WithTicket(next_ticket, now + HalfOpenTimeout)
        /\ next_ticket' = next_ticket + 1

(***************************************************************************)
(* established and closed do the same: the tickets leave the half-open     *)
(* map; a ticket that is not there any more is ignored.                    *)
(***************************************************************************)
Without(ts) == [t \in DOMAIN half_open \ ts |-> half_open[t]]

Release(t) ==
    /\ half_open' = Without({t})
    /\ UNCHANGED <<buckets, next_ticket>>

\* expire: the tickets whose deadline has come.
Expired(now) == {t \in DOMAIN half_open : half_open[t] <= now}

Expire(now) ==
    /\ half_open' = Without(Expired(now))
    /\ UNCHANGED <<buckets, next_ticket>>
=============================================================================
