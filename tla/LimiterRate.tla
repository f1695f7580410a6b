----------------------------- MODULE LimiterRate -----------------------------
(***************************************************************************)
(* The handshake limiter on its own: a clock, callers that ask for         *)
(* admission from any address at any time, and handshakes that finish, die *)
(* or expire.  What it promises is stated over a record of the times at    *)
(* which each address was admitted.                                        *)
(***************************************************************************)
EXTENDS HandshakeLimiter, Sequences

CONSTANT LastTime   \* bound: the clock stops here

ASSUME TimeAssumption == LastTime \in Nat

VARIABLES
    time,
    admitted,   \* address -> times at which it was admitted, in order
    refused     \* the address refused for want of a token, or NoAddr

CONSTANT NoAddr

rateVars == <<limiterVars, time, admitted, refused>>

\* The limiter's buckets and tickets have their types, and no bucket holds
\* more tokens than HandshakeLimiter grants.
RateTypeOK ==
    /\ LimiterTypeOK
    /\ time \in 0..LastTime
    /\ admitted \in [Addrs -> Seq(0..LastTime)]
    /\ refused \in Addrs \cup {NoAddr}

RateInit ==
    /\ LimiterInit
    /\ time = 0
    /\ admitted = [a \in Addrs |-> <<>>]
    /\ refused = NoAddr

Ask(a) ==
    \/ /\ RefuseFull(a, time)
       /\ refused' = NoAddr
       /\ UNCHANGED <<time, admitted>>
    \/ /\ RefuseRate(a, time)
       /\ refused' = a
       /\ UNCHANGED <<time, admitted>>
    \/ /\ Admit(a, time)
       /\ refused' = NoAddr
       /\ admitted' = [admitted EXCEPT ![a] = Append(@, time)]
       /\ UNCHANGED time

Finish(t) ==
    /\ Release(t)
    /\ refused' = NoAddr
    /\ UNCHANGED <<time, admitted>>

Sweep ==
    /\ Expired(time) # {}
    /\ Expire(time)
    /\ refused' = NoAddr
    /\ UNCHANGED <<time, admitted>>

RateElapse ==
    /\ time < LastTime
    /\ time' = time + 1
    /\ refused' = NoAddr
    /\ UNCHANGED <<limiterVars, admitted>>

RateNext ==
    \/ \E a \in Addrs : Ask(a)
    \/ \E t \in DOMAIN half_open : Finish(t)
    \/ Sweep
    \/ RateElapse

RateSpec == RateInit /\ [][RateNext]_rateVars

-----------------------------------------------------------------------------
(***************************************************************************)
(* The rate an address can obtain: between its i-th and its j-th admission *)
(* the bucket can have given its burst, one token for each interval gone   *)
(* by, and one more for the part of an interval that was on account when   *)
(* the bucket was last full (limiter.rs keeps it in last_refill_us).       *)
(***************************************************************************)
RateBound ==
    /\ RateTypeOK
    /\ \A a \in Addrs : \A i, j \in DOMAIN admitted[a] :
          i <= j =>
            j - i + 1 <= Burst + 1 + (admitted[a][j] - admitted[a][i]) \div RefillInterval

(***************************************************************************)
(* No honest address is starved: a refusal for want of a token means that  *)
(* the address was admitted Burst times within the last Burst intervals.   *)
(***************************************************************************)
RefusalIsEarned ==
    refused # NoAddr =>
        Cardinality({i \in DOMAIN admitted[refused] :
                        time - admitted[refused][i] < Burst * RefillInterval}) >= Burst

(***************************************************************************)
(* The map of buckets stays small under address churn: right after an      *)
(* admission it holds only addresses admitted within the last Burst        *)
(* intervals and the part of one on account before them.                   *)
(***************************************************************************)
BucketsAreRecent ==
    [][next_ticket' # next_ticket =>
        \A a \in DOMAIN buckets' :
            /\ admitted'[a] # <<>>
            /\ time - admitted'[a][Len(admitted'[a])] < Burst * RefillInterval]_rateVars
=============================================================================
