----------------------------- MODULE Negentropy -----------------------------
(***************************************************************************)
(* The Negentropy engine (core/src/sync/negentropy): how the two ends of   *)
(* one session find the difference between their sealed item sets.         *)
(*                                                                         *)
(* An item is a natural number; the numeric order is the (sort key, id)    *)
(* order.  Units lists the granularities at which a bound can be written:  *)
(* the largest unit is one sort key, the next one id byte, and so on, so   *)
(* that `a - a % u' is an item cut after a sort key or an id prefix and    *)
(* padded with zeros.  A bound is a number too, Infinity being above every *)
(* item.  The fingerprint of a range is the set of its items: the model    *)
(* assumes that SHA-256 over (sum of the ids, count) does not collide.     *)
(* Message sizes are counted in units of cost, because what an engine does *)
(* depends on the size of what it has written so far.                      *)
(***************************************************************************)
EXTENDS Integers, FiniteSets, FiniteSetsExt, Sequences, SequencesExt

CONSTANTS Items,            \* the items the two ends may hold
          Infinity,         \* the bound after every item
          Units,            \* the granularities of a bound, see above
          Buckets,          \* BUCKETS
          BoundSize,        \* cost of a bound and a mode
          IdSize,           \* cost of an id (ID_SIZE)
          FingerprintSize,  \* cost of a fingerprint (FINGERPRINT_SIZE)
          FrameLimits,      \* values of frame_limit, NoLimit standing for None
          FrameMargin,      \* FRAME_MARGIN
          NoLimit,
          MaxRounds,        \* how many rounds a session may take without a
          MaxLimitedRounds  \* limit, and with one

VARIABLE frame_limit        \* the engines' frame limit, which never changes

IdListThreshold == 2 * Buckets

SkipRange(b) == [bound |-> b, mode |-> "skip", ids |-> {}]
Fingerprint(b, S) == [bound |-> b, mode |-> "fingerprint", ids |-> S]
IdList(b, S) == [bound |-> b, mode |-> "ids", ids |-> S]

Size(r) ==
  BoundSize + CASE r.mode = "skip" -> 0
                [] r.mode = "fingerprint" -> FingerprintSize
                [] r.mode = "ids" -> IdSize * Cardinality(r.ids)

SizeOf(m) == FoldLeft(LAMBDA n, r : n + Size(r), 0, m)

ExceedsLimit(len) == frame_limit # NoLimit /\ len > frame_limit - FrameMargin

(* The items of S from bound lo up to, and not including, bound hi. *)
Between(S, lo, hi) == {x \in S : lo <= x /\ x < hi}

Sorted(S) ==
  [i \in 1..Cardinality(S) |->
     CHOOSE x \in S : Cardinality({y \in S : y < x}) = i - 1]

(* The coarsest bound that is after item prev and not after item next. *)
MinSeparating(prev, next) ==
  LET u == Max({v \in Units : next - (next % v) > prev}) IN next - (next % u)

-----------------------------------------------------------------------------
(* How a range that differs is written: an id list if it is short, and     *)
(* otherwise one fingerprint for each of Buckets parts of nearly equal     *)
(* size.                                                                   *)

(* Mutant: the remainder of the division is left out of every bucket. *)
BucketEndShort(n, i) == i * (n \div Buckets)

(* Mutant: the first bucket takes everything. *)
BucketEndLopsided(n, i) == IF i = 0 THEN 0 ELSE n

(* How many of n items are in the first i buckets. *)
BucketEnd(n, i) == i * (n \div Buckets) + Min({i, n % Buckets})

SplitRange(S, upperBound) ==
  LET items == Sorted(S)
      n == Len(items)
      End(i) == BucketEnd(n, i)
      Bucket(i) == {items[j] : j \in (End(i - 1) + 1)..End(i)}
      NextBound(i) == IF End(i) = n THEN upperBound
                      ELSE MinSeparating(items[End(i)], items[End(i) + 1])
  IN IF n < IdListThreshold
       THEN <<IdList(upperBound, S)>>
       ELSE [i \in 1..Buckets |-> Fingerprint(NextBound(i), Bucket(i))]

FlushSkip(skip, prevBound) == IF skip THEN <<SkipRange(prevBound)>> ELSE <<>>

(* Mutant: the whole range, whatever its size. *)
ResponseUncapped(S, len) == S

(* The ids a responder answers an id list with: in order, until what it    *)
(* has written is over the limit.                                          *)
Response(S, len) ==
  {x \in S : ~ ExceedsLimit(len + IdSize * Cardinality({y \in S : y < x}))}

-----------------------------------------------------------------------------
(* One pass of reconcile over an incoming message.  The pass state is the  *)
(* output so far (full), the bound up to which the input is processed      *)
(* (prev), the pending skip, what has been learnt, and whether the limit   *)
(* stopped the pass.                                                       *)

NewRound == [full |-> <<>>, prev |-> 0, skip |-> FALSE, have |-> {},
             need |-> {}, stop |-> FALSE]

(* The end of the loop body: `o' is appended, or dropped if it does not    *)
(* fit, and then everything from `upper' on is covered by one fingerprint. *)
Emit(st, S, o, upper, bound) ==
  IF ExceedsLimit(SizeOf(st.full) + SizeOf(o))
    THEN [st EXCEPT !.full = Append(@, Fingerprint(Infinity,
                                         Between(S, upper, Infinity))),
                    !.stop = TRUE]
    ELSE [st EXCEPT !.full = @ \o o, !.prev = bound]

OnSkip(st, S, r) ==
  Emit([st EXCEPT !.skip = TRUE], S, <<>>, r.bound, r.bound)

OnFingerprint(st, S, r) ==
  LET own == Between(S, st.prev, r.bound) IN
  IF r.ids = own
    THEN Emit([st EXCEPT !.skip = TRUE], S, <<>>, r.bound, r.bound)
    ELSE Emit([st EXCEPT !.skip = FALSE], S,
                 FlushSkip(st.skip, st.prev) \o SplitRange(own, r.bound),
                 r.bound, r.bound)

OnIdListInitiator(st, S, r) ==
  LET own == Between(S, st.prev, r.bound) IN
  Emit([st EXCEPT !.skip = TRUE,
                     !.have = @ \cup (own \ r.ids),
                     !.need = @ \cup (r.ids \ own)],
          S, <<>>, r.bound, r.bound)

(* Mutant: a truncated list still claims the whole range. *)
OnIdListResponderOverclaims(st, S, r) ==
  LET own == Between(S, st.prev, r.bound)
      sent == Response(own, SizeOf(st.full))
      o == FlushSkip(st.skip, st.prev) \o <<IdList(r.bound, sent)>>
  IN Emit([st EXCEPT !.skip = FALSE, !.full = @ \o o], S, <<>>, r.bound, r.bound)

OnIdListResponder(st, S, r) ==
  LET own == Between(S, st.prev, r.bound)
      sent == Response(own, SizeOf(st.full))
      end == IF sent = own THEN r.bound ELSE Min(own \ sent)
      o == FlushSkip(st.skip, st.prev) \o <<IdList(end, sent)>>
  IN Emit([st EXCEPT !.skip = FALSE, !.full = @ \o o], S, <<>>, end, r.bound)

OnRange(S, initiator, st, r) ==
  CASE st.stop -> st
    [] ~ st.stop /\ r.mode = "skip" -> OnSkip(st, S, r)
    [] ~ st.stop /\ r.mode = "fingerprint" -> OnFingerprint(st, S, r)
    [] ~ st.stop /\ r.mode = "ids" ->
         IF initiator THEN OnIdListInitiator(st, S, r)
                      ELSE OnIdListResponder(st, S, r)

Reconcile(S, initiator, m) ==
  FoldLeft(LAMBDA st, r : OnRange(S, initiator, st, r), NewRound, m)

Initiate(S) == SplitRange(S, Infinity)

-----------------------------------------------------------------------------
(* One session over a reliable link, from the first message until the      *)
(* initiator has no reply.                                                 *)

VARIABLES mine, theirs,  \* the sealed sets of the initiator and the responder
          msg,           \* the message in flight
          turn,          \* who processes it; "done" once the initiator stops
          have, need,    \* what the initiator has learnt
          rounds         \* messages the initiator has processed

vars == <<frame_limit, mine, theirs, msg, turn, have, need, rounds>>

Init ==
  /\ frame_limit \in FrameLimits
  /\ mine \in SUBSET Items
  /\ theirs \in SUBSET Items
  /\ msg = Initiate(mine)
  /\ turn = "responder"
  /\ have = {}
  /\ need = {}
  /\ rounds = 0

Respond ==
  /\ turn = "responder"
  /\ msg' = Reconcile(theirs, FALSE, msg).full
  /\ turn' = "initiator"
  /\ UNCHANGED <<frame_limit, mine, theirs, have, need, rounds>>

Continue ==
  /\ turn = "initiator"
  /\ LET st == Reconcile(mine, TRUE, msg) IN
       /\ have' = have \cup st.have
       /\ need' = need \cup st.need
       /\ msg' = st.full
       /\ turn' = IF st.full = <<>> THEN "done" ELSE "responder"
  /\ rounds' = rounds + 1
  /\ UNCHANGED <<frame_limit, mine, theirs>>

Next == Respond \/ Continue

Spec == Init /\ [][Next]_vars

-----------------------------------------------------------------------------
(* Messages between two ends have the right shape, and their bounds        *)
(* increase up to infinity: every range can hold an item, and the delta    *)
(* encoding of BoundCodec never has to saturate, so that each bound is     *)
(* decoded as it was meant.                                                *)
TypeOK ==
  /\ \A i \in DOMAIN msg :
       /\ msg[i].bound \in 1..Infinity
       /\ msg[i].ids \subseteq Items
  /\ \A i, j \in DOMAIN msg :
       i < j => msg[i].bound < msg[j].bound \/ msg[j].bound = Infinity
  /\ turn \in {"initiator", "responder", "done"}

(* When the initiator's engine reports completion it knows the difference  *)
(* of the two sets, both ways, and nothing else.                           *)
Exact == turn = "done" => have = mine \ theirs /\ need = theirs \ mine

(* Without a frame limit that is what happens for any two sets.             *)
ExactUnlimited == frame_limit = NoLimit => Exact

(* At any time, what the initiator has learnt is true: it never pushes an  *)
(* entry the peer has, nor expects one the peer lacks, whichever way the   *)
(* frame limit cut the messages.                                           *)
Sound == TypeOK /\ have \subseteq mine \ theirs /\ need \subseteq theirs \ mine

(* A reply never exceeds the frame limit: FRAME_MARGIN covers the last id, *)
(* the headers and the closing fingerprint that are added after the check. *)
FitsFrame ==
  frame_limit # NoLimit /\ (rounds > 0 \/ turn = "initiator") => SizeOf(msg) <= frame_limit

(* A session ends in a bounded number of rounds: splitting makes progress, *)
(* and with a frame limit every message still settles a part of the order. *)
EndsInTime ==
  LET most == IF frame_limit = NoLimit THEN MaxRounds ELSE MaxLimitedRounds
  IN  rounds <= most /\ (rounds = most => turn = "done")
=============================================================================
