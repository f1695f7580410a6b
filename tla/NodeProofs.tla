----------------------------- MODULE NodeProofs -----------------------------
(***************************************************************************)
(* Proofs about the node: what it pushes, its link table and the limiter   *)
(* in front of it, for entries of any size, any number of addresses and    *)
(* links, any burst, any cap and any timeouts.                             *)
(***************************************************************************)
EXTENDS Node, LimiterRate, Push, FiniteSetTheorems, TLAPS

(***************************************************************************)
(* The wire and the batches of push_batches: a padded message passes the   *)
(* gates of the receiver, and every batch of a push can be sent.           *)
(***************************************************************************)

(***************************************************************************)
(* Padding rounds up to a permitted length: one that is_padded_len takes,  *)
(* that is no longer than MAX_PADDED_LEN, and that fits a Noise message    *)
(* once the tag is added (link/driver.rs drops any other body).            *)
(***************************************************************************)
THEOREM PaddingIsPermitted ==
    ASSUME NEW n \in Nat, Encodes(n)
    PROVE  LET len == PaddedLen(HeaderLen + n)
           IN  /\ HeaderLen + n <= len
               /\ IsPaddedLen(len)
               /\ len + TagLen <= 65535
BY DEF Encodes, PaddedLen, IsPaddedLen, HeaderLen, MaxPaddedLen, LastBlock, TagLen, NoLen

\* encode_message refuses a payload by its length alone.
LEMMA EncodesUpTo ==
    ASSUME NEW n \in Nat
    PROVE  Encodes(n) <=> n <= MaxPaddedLen - HeaderLen
BY DEF Encodes, PaddedLen, HeaderLen, MaxPaddedLen, LastBlock, NoLen

-----------------------------------------------------------------------------
\* A head has 1 to 5 bytes, and 3 or less below 65536.
LEMMA HeadLenRange ==
    ASSUME NEW n \in Nat
    PROVE  /\ HeadLen(n) \in 1..5
           /\ n < 65536 => HeadLen(n) <= 3
           /\ n < 24 => HeadLen(n) = 1
BY DEF HeadLen

\* An entry has a length, which is not 0.
LEMMA SizeType ==
    ASSUME NEW e \in Entries
    PROVE  Size(e) \in Nat /\ Size(e) >= 1
<1>1. Ints[e] \in Nat /\ Payload[e] \in Nat
  BY EntriesAssumption
<1>2. HeadLen(32) \in Nat /\ HeadLen(64) \in Nat /\ HeadLen(Payload[e]) \in Nat
  BY <1>1, HeadLenRange
<1> QED
  BY <1>1, <1>2 DEF Size, EntryLen, BytesLen

(***************************************************************************)
(* What makes a batch fit: it is within the budget, or it is one entry,    *)
(* which has passed the door.  The number of its entries matters through   *)
(* the head of their array alone, so the crude bound by the length will do.*)
(***************************************************************************)
BatchFits(b) ==
    /\ Len(b.entries) <= b.len
    /\ \/ b.len <= PushBatchBudget
       \/ Len(b.entries) = 1 /\ Encodes(PushLen(1, b.len, 0))

LEMMA FittingBatchEncodes ==
    ASSUME NEW b \in Batches, BatchFits(b)
    PROVE  Encodes(PushLen(Len(b.entries), b.len, PushTtl))
<1> DEFINE count == Len(b.entries)
<1>1. count \in Nat /\ b.len \in Nat
  BY DEF Batches
<1>2. HeadLen(PushTtl) = 1 /\ HeadLen(0) = 1
  BY PushTtlAssumption, HeadLenRange
<1>3. CASE b.len <= PushBatchBudget
  <2>1. HeadLen(count) \in 1..3
    BY <1>1, <1>3, HeadLenRange DEF BatchFits, PushBatchBudget
  <2>2. PushLen(count, b.len, PushTtl) \in Nat
        /\ PushLen(count, b.len, PushTtl) <= MaxPaddedLen - HeaderLen
    BY <1>1, <1>2, <1>3, <2>1 DEF PushLen, PushBatchBudget, MaxPaddedLen, HeaderLen
  <2> QED
    BY <2>2, EncodesUpTo
<1>4. CASE count = 1 /\ Encodes(PushLen(1, b.len, 0))
  BY <1>2, <1>4 DEF PushLen
<1> QED
  BY <1>3, <1>4 DEF BatchFits

(***************************************************************************)
(* The inductive invariant: what is stored or to be visited has passed the *)
(* door, the counter of the loop is the length of the batch, and every     *)
(* batch fits.                                                             *)
(***************************************************************************)
PushInv ==
    /\ PushTypeOK
    /\ \A e \in kept : FitsAlone(e, 0)
    /\ \A i \in DOMAIN ids : FitsAlone(ids[i], 0)
    /\ batchBytes = batch.len
    /\ batch.entries = <<>> => batch = NoEntries
    /\ BatchFits(batch)
    /\ \A i \in DOMAIN messages : BatchFits(messages[i])

LEMMA PushInitInv == PushInit => PushInv
BY DEF PushInit, PushInv, PushTypeOK, Batches, NoEntries, BatchFits, PushBatchBudget

\* The first entry of a batch.
LEMMA FirstEntry ==
    ASSUME NEW e \in Entries, FitsAlone(e, 0)
    PROVE  /\ WithEntry(NoEntries, e) \in Batches
           /\ WithEntry(NoEntries, e).len = Size(e)
           /\ BatchFits(WithEntry(NoEntries, e))
BY SizeType DEF WithEntry, NoEntries, Batches, BatchFits, FitsAlone

\* A further entry, within the budget.
LEMMA FurtherEntry ==
    ASSUME NEW b \in Batches, BatchFits(b),
           NEW e \in Entries, b.len + Size(e) <= PushBatchBudget
    PROVE  /\ WithEntry(b, e) \in Batches
           /\ WithEntry(b, e).len = b.len + Size(e)
           /\ BatchFits(WithEntry(b, e))
BY SizeType DEF WithEntry, Batches, BatchFits

LEMMA StoreStepInv ==
    ASSUME PushInv, NEW e \in Entries, CreateEntry(e) \/ StorePushed(e)
    PROVE  PushInv'
BY Zenon DEF PushInv, PushTypeOK, CreateEntry, StorePushed, FitsAlone, loopVars, BatchFits, Batches

LEMMA StartPushInv ==
    ASSUME PushInv, NEW lacking \in Seq(kept), StartPush(lacking)
    PROVE  PushInv'
<1>1. lacking \in Seq(Entries) /\ \A i \in DOMAIN lacking : lacking[i] \in kept
  BY DEF PushInv, PushTypeOK
<1> QED
  BY <1>1 DEF PushInv, PushTypeOK, StartPush, BatchFits, Batches, FitsAlone

LEMMA VisitEntryInv ==
    ASSUME PushInv, VisitEntry
    PROVE  PushInv'
<1> DEFINE e == Head(ids)
<1>1. e \in Entries /\ FitsAlone(e, 0)
  BY DEF PushInv, PushTypeOK, VisitEntry
<1>2. Size(e) \in Nat
  BY <1>1, SizeType
<1>3. /\ kept' = kept /\ have' = have
      /\ ids' \in Seq(Entries)
      /\ \A i \in DOMAIN ids' : FitsAlone(ids'[i], 0)
  BY DEF PushInv, PushTypeOK, VisitEntry
<1>4. CASE Full(e)
  <2>1. /\ messages' = Append(messages, batch)
        /\ batch' = WithEntry(NoEntries, e) /\ batchBytes' = Size(e)
    BY <1>4 DEF VisitEntry
  <2>2. messages' \in Seq(Batches) /\ \A i \in DOMAIN messages' : BatchFits(messages'[i])
    BY <2>1 DEF PushInv, PushTypeOK
  <2>3. batch'.entries # <<>>
    BY <2>1 DEF WithEntry, NoEntries
  <2> QED
    BY <1>1, <1>2, <1>3, <2>1, <2>2, <2>3, FirstEntry DEF PushInv, PushTypeOK, FitsAlone
<1>5. CASE ~Full(e)
  <2>1. /\ messages' = messages
        /\ batch' = WithEntry(batch, e) /\ batchBytes' = batchBytes + Size(e)
    BY <1>5 DEF VisitEntry
  <2>2. batch'.entries # <<>>
    <3>1. batch.entries \in Seq(Entries)
      BY DEF PushInv, PushTypeOK, Batches
    <3>2. Append(batch.entries, e) # <<>>
      BY <1>1, <3>1
    <3> QED
      BY <2>1, <3>2 DEF WithEntry
  <2>3. /\ batch' \in Batches /\ BatchFits(batch')
        /\ batch'.len = batch.len + Size(e)
    <3>1. CASE batch.entries = <<>>
      BY <1>1, <1>2, <2>1, <3>1, FirstEntry DEF PushInv, NoEntries
    <3>2. CASE batch.entries # <<>>
      <4>1. batch \in Batches /\ BatchFits(batch) /\ batchBytes = batch.len
        BY DEF PushInv, PushTypeOK
      <4>2. batch.len \in Nat
        BY <4>1 DEF Batches
      <4>3. batch.len + Size(e) <= PushBatchBudget
        BY <1>2, <1>5, <3>2, <4>1, <4>2 DEF Full, PushBatchBudget
      <4> QED
        BY <1>1, <2>1, <4>1, <4>3, FurtherEntry
    <3> QED
      BY <3>1, <3>2
  <2> QED
    BY <1>2, <1>3, <2>1, <2>2, <2>3 DEF PushInv, PushTypeOK, FitsAlone
<1> QED
  BY <1>4, <1>5

LEMMA EndOfLoopInv ==
    ASSUME PushInv, LastBatch \/ Return
    PROVE  PushInv'
<1>1. CASE LastBatch
  <2>1. messages' \in Seq(Batches) /\ \A i \in DOMAIN messages' : BatchFits(messages'[i])
    BY <1>1 DEF LastBatch, PushInv, PushTypeOK
  <2> QED
    BY <1>1, <2>1 DEF LastBatch, PushInv, PushTypeOK, NoEntries, Batches, BatchFits,
                      PushBatchBudget, FitsAlone
<1>2. CASE Return
  BY <1>2 DEF Return, PushInv, PushTypeOK, FitsAlone, BatchFits, Batches
<1> QED
  BY <1>1, <1>2

LEMMA PushStepInv == PushInv /\ [PushNext]_pushVars => PushInv'
<1> SUFFICES ASSUME PushInv, [PushNext]_pushVars PROVE PushInv'
  OBVIOUS
<1>1. CASE \E e \in Entries : CreateEntry(e) \/ StorePushed(e)
  BY <1>1, StoreStepInv
<1>2. CASE \E lacking \in Seq(kept) : StartPush(lacking)
  BY <1>2, StartPushInv
<1>3. CASE PushLoop
  BY <1>3, VisitEntryInv, EndOfLoopInv DEF PushLoop
<1>4. CASE UNCHANGED pushVars
  BY <1>4 DEF pushVars, loopVars, PushInv, PushTypeOK, BatchFits, FitsAlone
<1> QED
  BY <1>1, <1>2, <1>3, <1>4 DEF PushNext

(***************************************************************************)
(* No push of a node ever fails to encode: whatever sizes its entries      *)
(* have, and whichever of them a session pushes in whatever order, the     *)
(* door of create_entry, the frames of the peers and the budget of         *)
(* push_batches are enough.                                                *)
(***************************************************************************)
THEOREM EveryPushFits == PushSpec => []PushesFit
<1>1. PushInv => PushesFit
  BY FittingBatchEncodes DEF PushInv, PushTypeOK, PushesFit
<1> QED
  BY <1>1, PushInitInv, PushStepInv, PTL DEF PushSpec

-----------------------------------------------------------------------------
(* Batches lose nothing.                                                   *)

\* A set of numbers has a least one.
LEMMA Least ==
    ASSUME NEW S \in SUBSET Nat, S # {}
    PROVE  \E m \in S : \A n \in S : m <= n
<1>1. PICK m \in S : \A n \in S : ~ (<<n, m>> \in OpToRel(<, Nat))
  BY NatLessThanWellFounded, WFMin, ZenonT(40)
<1>2. \A n \in S : ~ (n < m)
  BY <1>1, ZenonT(40) DEF OpToRel
<1> QED
  BY <1>2

WithMessage(joined, ms, i) == joined \o ms[i].entries

\* f joins the entries of the first i messages of ms, for every i up to k.
AreJoined(f, ms, k) ==
    f = [i \in 0..k |-> IF i = 0 THEN <<>> ELSE WithMessage(f[i - 1], ms, i)]

LEMMA JoinedLonger ==
    ASSUME NEW ms, NEW m \in Nat, m # 0, NEW f, AreJoined(f, ms, m - 1)
    PROVE  \E g : AreJoined(g, ms, m)
<1>1. \A n \in 0..m - 1 : f[n] = IF n = 0 THEN <<>> ELSE WithMessage(f[n - 1], ms, n)
  BY DEF AreJoined
<1> DEFINE g == [n \in 0..m |-> IF n = m THEN WithMessage(f[m - 1], ms, m) ELSE f[n]]
<1>2. \A n \in 0..m : g[n] = IF n = 0 THEN <<>> ELSE WithMessage(g[n - 1], ms, n)
  <2> SUFFICES ASSUME NEW n \in 0..m
               PROVE  g[n] = IF n = 0 THEN <<>> ELSE WithMessage(g[n - 1], ms, n)
    BY ZenonT(40)
  <2>1. CASE n = m
    <3>1. g[n] = WithMessage(f[m - 1], ms, m) /\ n # 0 /\ m - 1 \in 0..m /\ m - 1 # m
      BY <2>1
    <3>2. g[m - 1] = f[m - 1]
      BY <3>1
    <3> QED
      BY <2>1, <3>1, <3>2, Zenon
  <2>2. CASE n # m
    <3>1. n \in 0..m - 1 /\ g[n] = f[n]
      BY <2>2
    <3>2. n # 0 => n - 1 \in 0..m /\ n - 1 # m
      BY <3>1
    <3>3. n # 0 => g[n - 1] = f[n - 1]
      BY <3>2
    <3> QED
      BY <1>1, <3>1, <3>3, Zenon
  <2> QED
    BY <2>1, <2>2
<1>3. g = [n \in 0..m |-> g[n]]
  OBVIOUS
<1> HIDE DEF g
<1>4. g = [n \in 0..m |-> IF n = 0 THEN <<>> ELSE WithMessage(g[n - 1], ms, n)]
  BY <1>2, <1>3
<1> QED
  BY <1>4 DEF AreJoined

LEMMA JoinedExist ==
    ASSUME NEW ms \in Seq(Batches)
    PROVE  \E f : AreJoined(f, ms, Len(ms)) /\ Joined(ms) = f[Len(ms)]
<1> DEFINE Has(k) == \E f : AreJoined(f, ms, k)
           Lacks == {k \in 0..Len(ms) : ~Has(k)}
<1>1. Len(ms) \in Nat
  OBVIOUS
<1>2. Has(0)
  <2>1. AreJoined([i \in 0..0 |-> <<>>], ms, 0)
    BY DEF AreJoined
  <2> QED
    BY <2>1
<1>3. ASSUME NEW m \in 1..Len(ms), Has(m - 1) PROVE Has(m)
  BY <1>1, <1>3, JoinedLonger
<1> HIDE DEF Has
<1>4. Has(Len(ms))
  <2> SUFFICES ASSUME Lacks # {} PROVE FALSE
    BY <1>1
  <2>0. Lacks \in SUBSET Nat
    BY <1>1
  <2>1. PICK m \in Lacks : \A n \in Lacks : m <= n
    BY <2>0, Least, ZenonT(40)
  <2>2. m # 0
    BY <1>2, <2>1
  <2>3. m \in 1..Len(ms) /\ m - 1 \in 0..Len(ms) /\ m - 1 \notin Lacks
    BY <1>1, <2>1, <2>2
  <2> QED
    BY <1>3, <2>1, <2>3
<1> DEFINE h == CHOOSE f : AreJoined(f, ms, Len(ms))
<1>5. AreJoined(h, ms, Len(ms))
  BY <1>4, Zenon DEF Has
<1>6. Joined(ms) = h[Len(ms)]
  BY DEF Joined, AreJoined, WithMessage
<1> QED
  BY <1>5, <1>6, Zenon

\* The entries of all messages, when there is none and with one more.
LEMMA JoinedEntries ==
    ASSUME NEW ms \in Seq(Batches)
    PROVE  /\ ms = <<>> => Joined(ms) = <<>>
           /\ Joined(ms) \in Seq(Entries)
           /\ \A b \in Batches : Joined(Append(ms, b)) = Joined(ms) \o b.entries
<1>1. PICK f : AreJoined(f, ms, Len(ms)) /\ Joined(ms) = f[Len(ms)]
  BY JoinedExist
<1>2. /\ Len(ms) \in Nat /\ DOMAIN ms = 1..Len(ms)
      /\ \A i \in 1..Len(ms) : ms[i].entries \in Seq(Entries)
  <2>1. Len(ms) \in Nat /\ DOMAIN ms = 1..Len(ms) /\ \A i \in 1..Len(ms) : ms[i] \in Batches
    OBVIOUS
  <2>2. \A b \in Batches : b.entries \in Seq(Entries)
    BY DEF Batches
  <2> QED
    BY <2>1, <2>2
<1>3. \A i \in 0..Len(ms) : f[i] = IF i = 0 THEN <<>> ELSE WithMessage(f[i - 1], ms, i)
  BY <1>1 DEF AreJoined
<1>4. ms = <<>> => Joined(ms) = <<>>
  BY <1>1, <1>2, <1>3
<1>5. \A i \in 0..Len(ms) : f[i] \in Seq(Entries)
  <2> DEFINE Bad == {i \in 0..Len(ms) : f[i] \notin Seq(Entries)}
  <2> SUFFICES ASSUME Bad # {} PROVE FALSE
    OBVIOUS
  <2>0. Bad \in SUBSET Nat
    BY <1>2
  <2>1. PICK m \in Bad : \A n \in Bad : m <= n
    BY <2>0, Least, ZenonT(40)
  <2>2. f[0] = <<>>
    BY <1>2, <1>3
  <2>3. m # 0
    <3>1. f[0] \in Seq(Entries)
      BY <2>2
    <3> QED
      BY <2>1, <3>1, Zenon
  <2>4. m \in 1..Len(ms) /\ m - 1 \in 0..Len(ms) /\ f[m - 1] \in Seq(Entries)
    BY <1>2, <2>1, <2>3
  <2>5. f[m] = WithMessage(f[m - 1], ms, m)
    BY <1>3, <2>4
  <2>6. WithMessage(f[m - 1], ms, m) \in Seq(Entries)
    BY <1>2, <2>4 DEF WithMessage
  <2> QED
    BY <2>1, <2>5, <2>6, Zenon
<1>6. ASSUME NEW b \in Batches PROVE Joined(Append(ms, b)) = Joined(ms) \o b.entries
  <2> DEFINE longer == Append(ms, b)
  <2>1. /\ longer \in Seq(Batches) /\ Len(longer) = Len(ms) + 1 /\ longer[Len(ms) + 1] = b
        /\ \A i \in 1..Len(ms) : longer[i] = ms[i]
    BY <1>2
  <2> HIDE DEF longer
  <2>2. PICK g : AreJoined(g, longer, Len(longer)) /\ Joined(longer) = g[Len(longer)]
    BY <2>1, JoinedExist
  <2>3. \A i \in 0..Len(ms) + 1 : g[i] = IF i = 0 THEN <<>> ELSE WithMessage(g[i - 1], longer, i)
    BY <2>1, <2>2, ZenonT(40) DEF AreJoined
  <2>4. \A i \in 0..Len(ms) : g[i] = f[i]
    <3> DEFINE Bad == {i \in 0..Len(ms) : g[i] # f[i]}
    <3> SUFFICES ASSUME Bad # {} PROVE FALSE
      OBVIOUS
    <3>0. Bad \in SUBSET Nat
      BY <1>2
    <3>1. PICK m \in Bad : \A n \in Bad : m <= n
      BY <3>0, Least, ZenonT(40)
    <3>2. f[0] = <<>> /\ g[0] = <<>>
      BY <1>2, <1>3, <2>3
    <3>3. m # 0
      BY <3>1, <3>2
    <3>4. m \in 1..Len(ms) /\ m - 1 \in 0..Len(ms) /\ g[m - 1] = f[m - 1] /\ m \in 0..Len(ms) + 1
      BY <1>2, <3>1, <3>3
    <3>5. f[m] = WithMessage(f[m - 1], ms, m)
      BY <1>3, <3>4
    <3>6. g[m] = WithMessage(g[m - 1], longer, m)
      BY <2>3, <3>3, <3>4, Zenon
    <3>7. longer[m] = ms[m]
      BY <2>1, <3>4
    <3>8. WithMessage(g[m - 1], longer, m) = WithMessage(f[m - 1], ms, m)
      BY <3>4, <3>7 DEF WithMessage
    <3> QED
      BY <3>1, <3>5, <3>6, <3>8, Zenon
  <2>5. g[Len(ms) + 1] = g[Len(ms)] \o b.entries
    <3>1. /\ Len(ms) + 1 \in 0..Len(ms) + 1 /\ Len(ms) + 1 # 0 /\ (Len(ms) + 1) - 1 = Len(ms)
      BY <1>2
    <3>2. g[Len(ms) + 1] = WithMessage(g[(Len(ms) + 1) - 1], longer, Len(ms) + 1)
      BY <2>3, <3>1, Zenon
    <3> QED
      BY <2>1, <3>1, <3>2, ZenonT(40) DEF WithMessage
  <2>6. g[Len(ms)] = f[Len(ms)]
    BY <1>2, <2>4
  <2> QED
    BY <1>1, <2>1, <2>2, <2>5, <2>6 DEF longer
<1>7. Joined(ms) \in Seq(Entries)
  BY <1>1, <1>2, <1>5
<1> QED
  BY <1>4, <1>6, <1>7

\* PushesAll with the types it needs.
AllInv == PushInv /\ PushesAll

LEMMA Associates ==
    ASSUME NEW p \in Seq(Entries), NEW q \in Seq(Entries), NEW r \in Seq(Entries)
    PROVE  p \o (q \o r) = (p \o q) \o r
  OBVIOUS

LEMMA Regrouped ==
    ASSUME NEW j \in Seq(Entries), NEW b \in Seq(Entries), NEW e \in Entries, NEW t \in Seq(Entries)
    PROVE  /\ (j \o b) \o (<<e>> \o t) = ((j \o b) \o <<e>>) \o t
           /\ (j \o b) \o (<<e>> \o t) = (j \o Append(b, e)) \o t
<1>1. <<e>> \in Seq(Entries) /\ j \o b \in Seq(Entries) /\ Append(b, e) = b \o <<e>>
  OBVIOUS
<1>2. (j \o b) \o (<<e>> \o t) = ((j \o b) \o <<e>>) \o t
  BY <1>1, Associates, ZenonT(40)
<1>3. (j \o b) \o <<e>> = j \o Append(b, e)
  <2>1. j \o (b \o <<e>>) = (j \o b) \o <<e>>
    BY <1>1, Associates, ZenonT(40)
  <2> QED
    BY <1>1, <2>1, ZenonT(40)
<1> QED
  BY <1>2, <1>3, Zenon

LEMMA AllVisited ==
    ASSUME AllInv, VisitEntry
    PROVE  PushesAll'
<1>1. /\ messages \in Seq(Batches) /\ batch \in Batches /\ batch.entries \in Seq(Entries)
      /\ ids \in Seq(Entries) /\ ids # <<>>
  BY DEF AllInv, PushInv, PushTypeOK, VisitEntry, Batches
<1>2. Joined(messages) \in Seq(Entries)
  BY <1>1, JoinedEntries, Zenon
<1>3. PICK e \in Entries, t \in Seq(Entries) : e = Head(ids) /\ t = Tail(ids) /\ ids = <<e>> \o t
  <2>1. Head(ids) \in Entries /\ Tail(ids) \in Seq(Entries) /\ ids = <<Head(ids)>> \o Tail(ids)
    BY <1>1
  <2> QED
    BY <2>1, ZenonT(40)
<1>4. (Joined(messages) \o batch.entries) \o (<<e>> \o t) = have
  BY <1>3, Zenon DEF AllInv, PushesAll
<1>5. CASE Full(e)
  <2>1. /\ messages' = Append(messages, batch) /\ batch'.entries = <<e>> /\ ids' = t
        /\ have' = have
    BY <1>3, <1>5 DEF VisitEntry, WithEntry, NoEntries
  <2>2. Joined(messages') = Joined(messages) \o batch.entries
    BY <1>1, <2>1, JoinedEntries, Zenon
  <2>3. ((Joined(messages) \o batch.entries) \o <<e>>) \o t = have
    BY <1>1, <1>2, <1>4, Regrouped, ZenonT(40)
  <2> QED
    BY <2>1, <2>2, <2>3, Zenon DEF PushesAll
<1>6. CASE ~Full(e)
  <2>1. /\ messages' = messages /\ batch'.entries = Append(batch.entries, e) /\ ids' = t
        /\ have' = have
    BY <1>3, <1>6 DEF VisitEntry, WithEntry
  <2>2. (Joined(messages) \o Append(batch.entries, e)) \o t = have
    BY <1>1, <1>2, <1>4, Regrouped, ZenonT(40)
  <2> QED
    BY <2>1, <2>2, Zenon DEF PushesAll
<1> QED
  BY <1>5, <1>6

LEMMA AllPushed ==
    ASSUME AllInv, [PushNext]_pushVars
    PROVE  PushesAll'
<1>1. /\ messages \in Seq(Batches) /\ batch \in Batches /\ batch.entries \in Seq(Entries)
      /\ ids \in Seq(Entries) /\ have \in Seq(Entries)
  BY DEF AllInv, PushInv, PushTypeOK, Batches
<1>2. Joined(messages) \in Seq(Entries) /\ (messages = <<>> => Joined(messages) = <<>>)
  BY <1>1, JoinedEntries
<1>3. CASE /\ messages' = messages /\ batch' = batch /\ ids' = ids /\ have' = have
  BY <1>3 DEF AllInv, PushesAll
<1>4. ASSUME NEW lacking \in Seq(kept), StartPush(lacking) PROVE PushesAll'
  <2>1. /\ have = <<>> /\ have' = lacking /\ ids' = lacking /\ batch' = batch
        /\ messages' = messages /\ lacking \in Seq(Entries)
    BY <1>4 DEF StartPush, Pushing, AllInv, PushInv, PushTypeOK
  <2>2. Joined(messages) \o batch.entries \o ids = <<>>
    BY <2>1 DEF AllInv, PushesAll
  <2>3. Joined(messages) = <<>> /\ batch.entries = <<>>
    BY <1>1, <1>2, <2>2
  <2> QED
    BY <2>1, <2>3 DEF PushesAll
<1>5. CASE LastBatch
  <2>1. /\ ids = <<>> /\ messages' = Append(messages, batch) /\ batch'.entries = <<>>
        /\ ids' = ids /\ have' = have
    BY <1>5 DEF LastBatch, NoEntries
  <2>2. Joined(messages') = Joined(messages) \o batch.entries
    BY <1>1, <2>1, JoinedEntries, Zenon
  <2> QED
    BY <1>1, <1>2, <2>1, <2>2 DEF AllInv, PushesAll
<1>6. CASE Return
  <2>1. ids = <<>> /\ ids' = ids /\ batch' = batch /\ batch.entries = <<>> /\ have' = <<>> /\ messages' = <<>>
    BY <1>6 DEF Return, NoEntries
  <2>2. <<>> \in Seq(Batches)
    OBVIOUS
  <2>3. Joined(messages') = <<>>
    BY <2>1, <2>2, JoinedEntries, Zenon
  <2> QED
    BY <2>1, <2>3 DEF PushesAll
<1>7. CASE VisitEntry
  BY <1>7, AllVisited
<1>8. CASE \E e \in Entries : CreateEntry(e) \/ StorePushed(e)
  BY <1>3, <1>8 DEF CreateEntry, StorePushed, loopVars
<1>9. CASE UNCHANGED pushVars
  BY <1>3, <1>9 DEF pushVars, loopVars
<1> QED
  BY <1>4, <1>5, <1>6, <1>7, <1>8, <1>9 DEF PushNext, PushLoop

(***************************************************************************)
(* push_batches pushes every entry it is called with, once and in order,   *)
(* however many batches they take.                                         *)
(***************************************************************************)
THEOREM EverythingIsPushed == PushSpec => []PushesAll
<1>1. PushInit => AllInv
  <2> SUFFICES ASSUME PushInit PROVE PushesAll
    BY PushInitInv DEF AllInv
  <2>1. messages = <<>> /\ batch.entries = <<>> /\ ids = <<>> /\ have = <<>>
    BY DEF PushInit, NoEntries
  <2>2. Joined(messages) = <<>>
    <3>1. <<>> \in Seq(Batches)
      OBVIOUS
    <3> QED
      BY <2>1, <3>1, JoinedEntries, Zenon
  <2> QED
    BY <2>1, <2>2 DEF PushesAll
<1>2. AllInv /\ [PushNext]_pushVars => AllInv'
  BY PushStepInv, AllPushed DEF AllInv
<1>3. AllInv => PushesAll
  BY DEF AllInv
<1> QED
  BY <1>1, <1>2, <1>3, PTL DEF PushSpec

-----------------------------------------------------------------------------
(***************************************************************************)
(* The node.                                                               *)
(*                                                                         *)
(* The invariants of Node are inductive together once two facts are added  *)
(* (Fresh): link ids and tickets are handed out in order, so the next one  *)
(* is not in use.                                                          *)
(***************************************************************************)
Fresh ==
    /\ DOMAIN links \subseteq 0..next_link_id - 1
    /\ DOMAIN half_open \subseteq 0..next_ticket - 1

IInv ==
    /\ TypeOK
    /\ Fresh
    /\ TicketsMatchLinks
    /\ TimersAgree
    /\ ClosedOnce
    /\ NothingFromTheFuture

-----------------------------------------------------------------------------
(***************************************************************************)
(* A lazy refill gives a bucket again: tokens stay within the burst and    *)
(* the time of the last refill moves forward, never past now.              *)
(***************************************************************************)
LEMMA DivFacts ==
    ASSUME NEW n \in Nat, NEW d \in Nat \ {0}
    PROVE  /\ n \div d \in Nat
           /\ (n \div d) * d \in Nat
           /\ (n \div d) * d <= n
  OBVIOUS

LEMMA RefilledBucket ==
    ASSUME NEW b \in Bucket, NEW now \in Nat, b.last_refill <= now
    PROVE  /\ Refilled(b, now) \in Bucket
           /\ Refilled(b, now).last_refill <= now
  <1> DEFINE n == (now - b.last_refill) \div RefillInterval
  <1>1. now - b.last_refill \in Nat /\ RefillInterval \in Nat \ {0} /\ Burst \in Nat
    BY LimiterAssumption DEF Bucket
  <1>2. n \in Nat /\ n * RefillInterval \in Nat /\ n * RefillInterval <= now - b.last_refill
    BY <1>1, DivFacts
  <1>3. AtMost(b.tokens + n, Burst) \in 0..Burst
    BY <1>1, <1>2 DEF AtMost, Bucket
  <1> HIDE DEF n
  <1>4. Refilled(b, now) = [tokens |-> AtMost(b.tokens + n, Burst),
                            last_refill |-> b.last_refill + n * RefillInterval]
    BY DEF Refilled, n
  <1> QED BY <1>1, <1>2, <1>3, <1>4 DEF Bucket

\* The clamp yields a time that is not before any the node has worked with.
LEMMA ClampFacts ==
    ASSUME TypeOK, NEW r \in Readings
    PROVE  Clamp(r) \in Nat /\ Clamp(r) >= last_now
  BY DEF TypeOK, Readings, Clamp

(***************************************************************************)
(* An admission keeps the limiter's state well formed, adds exactly the    *)
(* ticket it hands out, and dates no bucket after now.                     *)
(***************************************************************************)
LEMMA AdmitStep ==
    ASSUME LimiterTypeOK, NEW a \in Addrs, NEW now \in Nat, Admit(a, now),
           \A x \in DOMAIN buckets : buckets[x].last_refill <= now
    PROVE  /\ LimiterTypeOK'
           /\ DOMAIN half_open' = DOMAIN half_open \cup {next_ticket}
           /\ \A t \in DOMAIN half_open :
                 t # next_ticket => half_open'[t] = half_open[t]
           /\ half_open'[next_ticket] = now + HalfOpenTimeout
           /\ \A x \in DOMAIN buckets' : buckets'[x].last_refill <= now
  <1> DEFINE b == Refilled(BucketOf(a, now), now)
             spent == [b EXCEPT !.tokens = @ - 1]
  <1>1. Burst \in Nat \ {0} /\ HalfOpenTimeout \in Nat
    BY LimiterAssumption
  <1>2. BucketOf(a, now) \in Bucket /\ BucketOf(a, now).last_refill <= now
    BY <1>1 DEF BucketOf, Bucket, LimiterTypeOK
  <1>3. b \in Bucket /\ b.last_refill <= now
    BY <1>2, RefilledBucket
  <1>4. /\ b.tokens > 0
        /\ buckets' = Collect(WithBucket(a, spent), now)
        /\ half_open' = WithTicket(next_ticket, now + HalfOpenTimeout)
        /\ next_ticket' = next_ticket + 1
    BY DEF Admit
  <1> HIDE DEF b
  <1>5. spent \in Bucket /\ spent.last_refill <= now
    BY <1>1, <1>3, <1>4 DEF Bucket
  <1> HIDE DEF spent
  <1>6. /\ DOMAIN buckets' \subseteq Addrs
        /\ \A x \in DOMAIN buckets' :
              buckets'[x] \in Bucket /\ buckets'[x].last_refill <= now
    BY <1>4, <1>5 DEF Collect, WithBucket, LimiterTypeOK
  <1>7. /\ DOMAIN half_open' = DOMAIN half_open \cup {next_ticket}
        /\ \A t \in DOMAIN half_open :
              t # next_ticket => half_open'[t] = half_open[t]
        /\ half_open'[next_ticket] = now + HalfOpenTimeout
    BY <1>4 DEF WithTicket
  <1> QED BY <1>1, <1>4, <1>6, <1>7 DEF LimiterTypeOK

\* A refusal leaves the tickets alone and dates no bucket after now.
LEMMA RefuseStep ==
    ASSUME LimiterTypeOK, NEW a \in Addrs, NEW now \in Nat,
           RefuseFull(a, now) \/ RefuseRate(a, now),
           \A x \in DOMAIN buckets : buckets[x].last_refill <= now
    PROVE  /\ LimiterTypeOK'
           /\ UNCHANGED <<half_open, next_ticket>>
           /\ \A x \in DOMAIN buckets' : buckets'[x].last_refill <= now
  <1> DEFINE b == Refilled(BucketOf(a, now), now)
  <1>1. BucketOf(a, now) \in Bucket /\ BucketOf(a, now).last_refill <= now
    BY LimiterAssumption DEF BucketOf, Bucket, LimiterTypeOK
  <1>2. b \in Bucket /\ b.last_refill <= now
    BY <1>1, RefilledBucket
  <1>3. CASE RefuseFull(a, now)
    BY <1>3 DEF RefuseFull, limiterVars, LimiterTypeOK
  <1>4. CASE RefuseRate(a, now)
    <2>1. buckets' = WithBucket(a, b) /\ UNCHANGED <<half_open, next_ticket>>
      BY <1>4 DEF RefuseRate
    <2> HIDE DEF b
    <2> QED BY <1>2, <2>1 DEF WithBucket, LimiterTypeOK
  <1> QED BY <1>3, <1>4

(***************************************************************************)
(* Removing links together with all their tickets, and reporting each once *)
(* as closed, keeps the invariant: the common part of SettleClosed and     *)
(* Tick.                                                                   *)
(***************************************************************************)
LEMMA RemoveStep ==
    ASSUME IInv, NEW gone \in SUBSET DOMAIN links,
           links' = Minus(gone),
           half_open' = Without(TicketsOf(gone)),
           reported' = Report(gone),
           last_now' \in Nat, last_now' >= last_now,
           UNCHANGED <<buckets, next_ticket, next_link_id, clock>>
    PROVE  IInv'
  <1>1. TypeOK'
    BY DEF IInv, TypeOK, LimiterTypeOK, Minus, Without, Report
  <1>2. Fresh'
    BY DEF IInv, Fresh, Minus, Without
  <1>3. DOMAIN links' = DOMAIN links \ gone /\ \A l \in DOMAIN links' : links'[l] = links[l]
    BY Zenon DEF Minus
  <1>4. TicketsOf(DOMAIN links)' = TicketsOf(DOMAIN links) \ TicketsOf(gone)
    BY <1>3 DEF IInv, TicketsOf, TicketsMatchLinks
  <1>5. TicketsMatchLinks'
    BY <1>3, <1>4, ZenonT(40) DEF IInv, TicketsMatchLinks, Without
  <1>6. TimersAgree'
    <2> SUFFICES ASSUME NEW l \in DOMAIN links', links'[l].ticket # None
                 PROVE  half_open'[links'[l].ticket] = links'[l].opened + HalfOpenTimeout
      BY DEF TimersAgree
    <2>1. links'[l].ticket \in DOMAIN half_open'
      BY <1>5 DEF TicketsMatchLinks, TicketsOf
    <2> QED BY <1>3, <2>1 DEF IInv, TimersAgree, Without
  <1>7. ClosedOnce'
    BY <1>3 DEF IInv, ClosedOnce, Report, TypeOK, Fresh
  <1>8. NothingFromTheFuture'
    BY <1>3 DEF IInv, NothingFromTheFuture, TypeOK, Link, LimiterTypeOK, Bucket
  <1> QED BY <1>1, <1>2, <1>5, <1>6, <1>7, <1>8, Zenon DEF IInv

\* Opening a link, with a new ticket or with none, keeps the invariant.
LEMMA OpenStep ==
    ASSUME IInv, NEW ticket, NEW now \in Nat, OpenLink(ticket, now),
           last_now' = now, now >= last_now, LimiterTypeOK', clock' = clock,
           \A a \in DOMAIN buckets' : buckets'[a].last_refill <= now,
           \/ ticket = None /\ UNCHANGED <<half_open, next_ticket>>
           \/ /\ ticket = next_ticket
              /\ next_ticket' = next_ticket + 1
              /\ DOMAIN half_open' = DOMAIN half_open \cup {next_ticket}
              /\ \A t \in DOMAIN half_open :
                    t # next_ticket => half_open'[t] = half_open[t]
              /\ half_open'[next_ticket] = now + HalfOpenTimeout
    PROVE  IInv'
  <1> DEFINE new == next_link_id
             link == [ticket |-> ticket, established |-> FALSE, opened |-> now]
  <1>1. /\ new \in Nat /\ new \notin DOMAIN links /\ next_link_id' = new + 1
        /\ next_ticket \in Nat /\ next_ticket \notin DOMAIN half_open
        /\ next_ticket # None
    BY DEF IInv, TypeOK, LimiterTypeOK, Fresh, OpenLink, None
  <1>2. /\ DOMAIN links' = DOMAIN links \cup {new}
        /\ links'[new] = link
        /\ \A l \in DOMAIN links : links'[l] = links[l]
    BY <1>1 DEF OpenLink
  <1>3. /\ DOMAIN reported' = DOMAIN reported \cup {new}
        /\ reported'[new] = 0
        /\ \A l \in DOMAIN reported : l # new => reported'[l] = reported[l]
    BY DEF OpenLink
  <1>4. link \in Link
    BY <1>1 DEF Link
  <1>5. TypeOK'
    <2>1. DOMAIN links' \subseteq Nat /\ \A l \in DOMAIN links' : links'[l] \in Link
      BY <1>1, <1>2, <1>4, ZenonT(40) DEF IInv, TypeOK
    <2>2. DOMAIN reported = 0..new - 1 /\ \A l \in DOMAIN reported : reported[l] \in Nat
      BY DEF IInv, TypeOK
    <2>3. DOMAIN reported' = 0..next_link_id' - 1
      BY <1>1, <1>3, <2>2
    <2>4. \A l \in DOMAIN reported' : reported'[l] \in Nat
      BY <1>3, <2>2
    <2> QED BY <1>1, <2>1, <2>3, <2>4 DEF IInv, TypeOK
  <1>6. Fresh'
    BY <1>1, <1>2 DEF IInv, Fresh
  <1>7. TicketsOf(DOMAIN links)' = TicketsOf(DOMAIN links) \cup ({ticket} \ {None})
    <2>1. \A t : t \in TicketsOf(DOMAIN links)' <=>
                t # None /\ \E m \in DOMAIN links \cup {new} : links'[m].ticket = t
      BY <1>2 DEF TicketsOf
    <2>2. \A t : t \in TicketsOf(DOMAIN links) <=>
                t # None /\ \E m \in DOMAIN links : links[m].ticket = t
      BY DEF TicketsOf
    <2>3. \A t : (\E m \in DOMAIN links \cup {new} : links'[m].ticket = t) <=>
                (\E m \in DOMAIN links : links[m].ticket = t) \/ t = ticket
      BY <1>2
    <2>4. \A t : t \in TicketsOf(DOMAIN links)' <=>
                t \in TicketsOf(DOMAIN links) \cup ({ticket} \ {None})
      BY <2>1, <2>2, <2>3, ZenonT(40)
    <2> QED BY <2>4
  <1>8. \A l \in DOMAIN links : links[l].ticket # None => links[l].ticket \in DOMAIN half_open
    BY DEF IInv, TicketsMatchLinks, TicketsOf
  <1>9. TicketsMatchLinks'
    <2>1. DOMAIN half_open' = TicketsOf(DOMAIN links)'
      BY <1>1, <1>7, ZenonT(40) DEF IInv, TicketsMatchLinks
    <2>2. \A l \in DOMAIN links' : links'[l].established => links'[l].ticket = None
      BY <1>2 DEF IInv, TicketsMatchLinks
    <2>3. \A l, m \in DOMAIN links' :
             links'[l].ticket # None /\ links'[l].ticket = links'[m].ticket => l = m
      BY <1>1, <1>2, <1>8 DEF IInv, TicketsMatchLinks
    <2> QED BY <2>1, <2>2, <2>3, ZenonT(40) DEF TicketsMatchLinks
  <1>10. TimersAgree'
    BY <1>1, <1>2, <1>8 DEF IInv, TimersAgree
  <1>11. ClosedOnce'
    BY <1>1, <1>2, <1>3 DEF IInv, ClosedOnce, TypeOK
  <1>12. NothingFromTheFuture'
    BY <1>2 DEF IInv, NothingFromTheFuture, TypeOK, Link
  <1> QED BY <1>5, <1>6, <1>9, <1>10, <1>11, <1>12, ZenonT(40) DEF IInv

\* A completed handshake gives the link's ticket back and keeps the invariant.
LEMMA EstablishStep ==
    ASSUME IInv, NEW l \in DOMAIN links, SettleEstablished(l),
           last_now' \in Nat, last_now' >= last_now,
           UNCHANGED <<buckets, next_ticket, next_link_id, clock>>
    PROVE  IInv'
  <1>1. /\ DOMAIN links' = DOMAIN links
        /\ links'[l] = [links[l] EXCEPT !.established = TRUE, !.ticket = None]
        /\ \A m \in DOMAIN links : m # l => links'[m] = links[m]
    BY DEF SettleEstablished
  <1>2. links[l] \in Link
    BY DEF IInv, TypeOK
  <1>3. /\ links'[l].established /\ links'[l].ticket = None
        /\ links'[l].opened = links[l].opened
        /\ links'[l] \in Link
    BY <1>1, <1>2, ZenonT(40) DEF Link
  <1>4. half_open' = Without(TicketsOf({l})) /\ reported' = reported
    BY DEF SettleEstablished
  <1>5. TypeOK'
    BY <1>1, <1>3, <1>4, ZenonT(40) DEF IInv, TypeOK, LimiterTypeOK, Without
  <1>6. Fresh'
    BY <1>1, <1>4 DEF IInv, Fresh, Without
  <1>7. TicketsOf(DOMAIN links)' = TicketsOf(DOMAIN links) \ TicketsOf({l})
    <2>1. \A t : t \in TicketsOf(DOMAIN links)' <=>
                t # None /\ \E m \in DOMAIN links : links'[m].ticket = t
      BY <1>1 DEF TicketsOf
    <2>2. \A t : t \in TicketsOf(DOMAIN links) \ TicketsOf({l}) <=>
                t # None /\ t # links[l].ticket /\ \E m \in DOMAIN links : links[m].ticket = t
      BY DEF TicketsOf
    <2>3. \A m \in DOMAIN links : m # l /\ links[m].ticket # None =>
                                     links[m].ticket # links[l].ticket
      BY DEF IInv, TicketsMatchLinks
    <2>4. \A t : (\E m \in DOMAIN links : links'[m].ticket = t) /\ t # None <=>
                t # None /\ t # links[l].ticket /\ \E m \in DOMAIN links : links[m].ticket = t
      BY <1>1, <1>3, <2>3, ZenonT(40)
    <2> QED BY <2>1, <2>2, <2>4
  <1>8. TicketsMatchLinks'
    BY <1>1, <1>3, <1>4, <1>7, ZenonT(40) DEF IInv, TicketsMatchLinks, Without
  <1>9. TimersAgree'
    <2> SUFFICES ASSUME NEW m \in DOMAIN links', links'[m].ticket # None
                 PROVE  half_open'[links'[m].ticket] = links'[m].opened + HalfOpenTimeout
      BY DEF TimersAgree
    <2>1. links'[m].ticket \in DOMAIN half_open' /\ m # l
      BY <1>3, <1>8 DEF TicketsMatchLinks, TicketsOf
    <2> QED BY <1>1, <1>4, <2>1 DEF IInv, TimersAgree, Without
  <1>10. ClosedOnce'
    BY <1>1, <1>4 DEF IInv, ClosedOnce
  <1>11. NothingFromTheFuture'
    <2>1. \A m \in DOMAIN links' :
             links'[m].opened = links[m].opened /\ links[m].opened \in Nat
      BY <1>1, <1>3, ZenonT(40) DEF IInv, TypeOK, Link
    <2>2. \A a \in DOMAIN buckets : buckets[a].last_refill \in Nat
      BY DEF IInv, TypeOK, LimiterTypeOK, Bucket
    <2> QED BY <1>1, <2>1, <2>2 DEF IInv, TypeOK, NothingFromTheFuture
  <1> QED BY <1>5, <1>6, <1>8, <1>9, <1>10, <1>11 DEF IInv

\* A tick removes the timed-out links and the holders of expired tickets, and
\* exactly the tickets those links held.
LEMMA TickStep ==
    ASSUME IInv, NEW r \in Readings, Tick(r)
    PROVE  IInv'
  <1> DEFINE now      == Clamp(r)
             timedOut == {l \in DOMAIN links : TimedOut(links[l], now)}
             spent    == Expired(now) \ TicketsOf(timedOut)
             expired  == {l \in DOMAIN links \ timedOut : links[l].ticket \in spent}
             gone     == timedOut \cup expired
  <1>1. now \in Nat /\ now >= last_now
    BY ClampFacts DEF IInv
  <1>2. /\ last_now' = now
        /\ links' = Minus(gone)
        /\ half_open' = Without(TicketsOf(timedOut) \cup spent)
        /\ reported' = Report(gone)
        /\ UNCHANGED <<buckets, next_ticket, next_link_id, clock>>
    BY DEF Tick
  <1>3. TicketsOf(gone) = TicketsOf(timedOut) \cup spent
    <2>1. spent \subseteq TicketsOf(DOMAIN links)
      BY DEF IInv, TicketsMatchLinks, Expired
    <2> HIDE DEF spent
    <2>2. \A t \in spent : \E l \in DOMAIN links : links[l].ticket = t /\ t # None
      BY <2>1 DEF TicketsOf
    <2>3. \A t \in spent : t \notin TicketsOf(timedOut)
      BY DEF spent
    <2>4. TicketsOf(gone) = TicketsOf(timedOut) \cup TicketsOf(expired)
      BY DEF TicketsOf
    <2>5. TicketsOf(expired) \subseteq spent
      BY DEF TicketsOf
    <2>6. ASSUME NEW t \in spent PROVE t \in TicketsOf(expired)
      <3>1. PICK l \in DOMAIN links : links[l].ticket = t /\ t # None
        BY <2>2
      <3>2. l \notin timedOut
        BY <2>3, <3>1 DEF TicketsOf
      <3>3. l \in expired
        BY <3>1, <3>2
      <3> HIDE DEF expired
      <3> QED BY <3>1, <3>3 DEF TicketsOf
    <2> QED BY <2>4, <2>5, <2>6, ZenonT(40)
  <1>4. gone \in SUBSET DOMAIN links
    OBVIOUS
  <1> HIDE DEF gone, spent, timedOut, now
  <1> QED BY <1>1, <1>2, <1>3, <1>4, RemoveStep, ZenonT(40)

\* Closing one link is the removal of the set that holds only it.
LEMMA ClosedStep ==
    ASSUME IInv, NEW l \in DOMAIN links, SettleClosed(l),
           last_now' \in Nat, last_now' >= last_now,
           UNCHANGED <<buckets, next_ticket, next_link_id, clock>>
    PROVE  IInv'
  BY RemoveStep DEF SettleClosed

\* A call that touches no link keeps what the invariant says of them.
LEMMA LinksStay ==
    ASSUME IInv, Quiet, LimiterTypeOK', last_now' \in Nat, clock' \in Nat,
           UNCHANGED <<next_ticket, next_link_id>>
    PROVE  TypeOK' /\ Fresh' /\ ClosedOnce' /\ TimersAgree' /\ TicketsMatchLinks'
  <1>1. /\ links' = links /\ half_open' = half_open /\ reported' = reported
        /\ next_ticket' = next_ticket /\ next_link_id' = next_link_id
    BY DEF Quiet
  <1>2. TypeOK'
    BY <1>1, ZenonT(40) DEF IInv, TypeOK
  <1>3. Fresh' /\ ClosedOnce' /\ TimersAgree'
    BY <1>1, ZenonT(40) DEF IInv, Fresh, ClosedOnce, TimersAgree
  <1>4. TicketsMatchLinks'
    BY <1>1, ZenonT(40) DEF IInv, TicketsMatchLinks, TicketsOf
  <1> QED BY <1>2, <1>3, <1>4, Zenon

LEMMA QuietStep ==
    ASSUME IInv, Quiet, last_now' \in Nat, last_now' >= last_now, clock' \in Nat,
           UNCHANGED <<buckets, next_ticket, next_link_id>>
    PROVE  IInv'
  <1>1. TypeOK' /\ Fresh' /\ ClosedOnce' /\ TimersAgree' /\ TicketsMatchLinks'
    <2>1. LimiterTypeOK'
      BY DEF IInv, Quiet, TypeOK, LimiterTypeOK
    <2> QED BY <2>1, LinksStay
  <1>2. NothingFromTheFuture'
    BY DEF IInv, Quiet, NothingFromTheFuture, TypeOK, Link, LimiterTypeOK, Bucket
  <1> QED BY <1>1, <1>2, Zenon DEF IInv

-----------------------------------------------------------------------------
LEMMA InitInvariant == Init => IInv
  BY DEF Init, LimiterInit, IInv, TypeOK, LimiterTypeOK, Fresh, TicketsMatchLinks,
         TicketsOf, TimersAgree, ClosedOnce, NothingFromTheFuture

LEMMA NextInvariant == IInv /\ [Next]_vars => IInv'
  <1> SUFFICES ASSUME IInv, [Next]_vars PROVE IInv'
    OBVIOUS
  <1> USE DEF IInv
  <1>1. ASSUME NEW r \in Readings, Connect(r) PROVE IInv'
    <2>1. Clamp(r) \in Nat /\ Clamp(r) >= last_now
      BY ClampFacts
    <2>2. /\ last_now' = Clamp(r) /\ OpenLink(None, Clamp(r))
          /\ UNCHANGED <<buckets, half_open, next_ticket, clock>>
      BY <1>1 DEF Connect, limiterVars
    <2>3. LimiterTypeOK'
      BY <2>2, Zenon DEF TypeOK, LimiterTypeOK
    <2>4. \A a \in DOMAIN buckets' : buckets'[a].last_refill <= Clamp(r)
      BY <2>1, <2>2 DEF NothingFromTheFuture, TypeOK, LimiterTypeOK, Bucket
    <2> HIDE DEF IInv
    <2> QED BY <2>1, <2>2, <2>3, <2>4, OpenStep
  <1>2. ASSUME NEW r \in Readings, NEW a \in Addrs, Accept(a, r) PROVE IInv'
    <2>1. Clamp(r) \in Nat /\ Clamp(r) >= last_now
      BY ClampFacts
    <2>2. /\ last_now' = Clamp(r) /\ Admit(a, Clamp(r))
          /\ OpenLink(next_ticket, Clamp(r)) /\ UNCHANGED clock
      BY <1>2 DEF Accept
    <2>3. \A x \in DOMAIN buckets : buckets[x].last_refill <= Clamp(r)
      BY <2>1 DEF NothingFromTheFuture, TypeOK, LimiterTypeOK, Bucket
    <2>4. next_ticket' = next_ticket + 1
      BY <2>2 DEF Admit
    <2>5. /\ LimiterTypeOK'
          /\ DOMAIN half_open' = DOMAIN half_open \cup {next_ticket}
          /\ \A t \in DOMAIN half_open : t # next_ticket => half_open'[t] = half_open[t]
          /\ half_open'[next_ticket] = Clamp(r) + HalfOpenTimeout
          /\ \A x \in DOMAIN buckets' : buckets'[x].last_refill <= Clamp(r)
      BY <2>1, <2>2, <2>3, AdmitStep, ZenonT(40) DEF TypeOK
    <2> HIDE DEF IInv
    <2> QED BY <2>1, <2>2, <2>4, <2>5, OpenStep, ZenonT(40)
  <1>3. ASSUME NEW r \in Readings, NEW a \in Addrs, AcceptRefused(a, r) PROVE IInv'
    <2>1. Clamp(r) \in Nat /\ Clamp(r) >= last_now
      BY ClampFacts
    <2>2. /\ last_now' = Clamp(r)
          /\ RefuseFull(a, Clamp(r)) \/ RefuseRate(a, Clamp(r))
          /\ UNCHANGED <<links, next_link_id, clock, reported>>
      BY <1>3 DEF AcceptRefused
    <2>3. \A x \in DOMAIN buckets : buckets[x].last_refill <= Clamp(r)
      BY <2>1 DEF NothingFromTheFuture, TypeOK, LimiterTypeOK, Bucket
    <2>4. /\ LimiterTypeOK' /\ UNCHANGED <<half_open, next_ticket>>
          /\ \A x \in DOMAIN buckets' : buckets'[x].last_refill <= Clamp(r)
      BY <2>1, <2>2, <2>3, RefuseStep, ZenonT(40) DEF TypeOK
    <2>5. TypeOK' /\ Fresh' /\ ClosedOnce' /\ TimersAgree' /\ TicketsMatchLinks'
      <3>1. /\ UNCHANGED <<next_ticket, next_link_id>> /\ Quiet
            /\ last_now' \in Nat /\ clock' \in Nat
        BY <2>1, <2>2, <2>4 DEF Quiet, TypeOK
      <3> HIDE DEF IInv
      <3> QED BY <2>4, <3>1, LinksStay
    <2>6. NothingFromTheFuture'
      BY <2>1, <2>2, <2>4 DEF NothingFromTheFuture, TypeOK, Link
    <2> QED BY <2>5, <2>6
  <1>4. ASSUME NEW r \in Readings, NEW l \in Nat, OnBytes(l, r) PROVE IInv'
    <2>1. Clamp(r) \in Nat /\ Clamp(r) >= last_now
      BY ClampFacts
    <2>2. last_now' = Clamp(r) /\ UNCHANGED <<buckets, next_ticket, next_link_id, clock>>
      BY <1>4, Zenon DEF OnBytes
    <2>3. CASE Quiet
      BY <2>1, <2>2, <2>3, QuietStep DEF TypeOK
    <2>4. CASE l \in DOMAIN links /\ SettleClosed(l)
      BY <2>1, <2>2, <2>4, ClosedStep
    <2>5. CASE l \in DOMAIN links /\ SettleEstablished(l)
      BY <2>1, <2>2, <2>5, EstablishStep
    <2> QED BY <1>4, <2>3, <2>4, <2>5 DEF OnBytes
  <1>5. ASSUME NEW r \in Readings, NEW l \in Nat, OnTransportClosed(l, r) PROVE IInv'
    <2>1. Clamp(r) \in Nat /\ Clamp(r) >= last_now
      BY ClampFacts
    <2>2. last_now' = Clamp(r) /\ UNCHANGED <<buckets, next_ticket, next_link_id, clock>>
      BY <1>5 DEF OnTransportClosed
    <2>3. CASE l \in DOMAIN links
      BY <1>5, <2>1, <2>2, <2>3, ClosedStep, ZenonT(40) DEF OnTransportClosed
    <2>4. CASE l \notin DOMAIN links
      BY <1>5, <2>1, <2>2, <2>4, QuietStep DEF OnTransportClosed, TypeOK
    <2> QED BY <2>3, <2>4
  <1>6. ASSUME NEW r \in Readings, Tick(r) PROVE IInv'
    BY <1>6, TickStep
  <1>7. ASSUME NEW l \in DOMAIN links, StartSync(l) PROVE IInv'
    <2>1. /\ last_now' \in Nat /\ last_now' >= last_now /\ clock' \in Nat
          /\ UNCHANGED <<buckets, next_ticket, next_link_id, clock>>
      BY <1>7 DEF StartSync, TypeOK
    <2> QED BY <1>7, <2>1, ClosedStep, QuietStep DEF StartSync
  <1>8. CASE Elapse
    BY <1>8, QuietStep DEF Elapse, Quiet, limiterVars, TypeOK
  <1>9. CASE UNCHANGED vars
    BY <1>9, QuietStep DEF vars, limiterVars, nodeVars, Quiet, TypeOK
  <1>10. \A l \in 0..next_link_id - 1 : l \in Nat
    BY DEF TypeOK
  <1> QED BY <1>1, <1>2, <1>3, <1>4, <1>5, <1>6, <1>7, <1>8, <1>9, <1>10, ZenonT(40) DEF Next

LEMMA Invariance == Spec => []IInv
  BY InitInvariant, NextInvariant, PTL DEF Spec

(***************************************************************************)
(* The half-open slots in use are exactly the tickets of the links still   *)
(* in handshake (settle, retire, tick): no slot leaks and none is shared.  *)
(* The driver's and the limiter's timer of a handshake started together.   *)
(***************************************************************************)
THEOREM HandshakesAreTracked == Spec => []HandshakesTracked
  BY Invariance, PTL DEF IInv, HandshakesTracked

\* Each link is reported closed exactly once, when it leaves the node.
THEOREM ClosedReportedOnce == Spec => []ClosedOnce
  BY Invariance, PTL DEF IInv

\* No stored time is later than the node's own, despite stale clock readings.
THEOREM NoFutureTimes == Spec => []NothingFromTheFuture
  BY Invariance, PTL DEF IInv

-----------------------------------------------------------------------------
(***************************************************************************)
(* What the handshake limiter promises of rates.                           *)
(*                                                                         *)
(* Everything is said of a bucket b and the times ts at which its address  *)
(* was admitted.  An address without a bucket counts as one whose bucket   *)
(* is full now, which is what BucketOf makes of it: so dropping a bucket   *)
(* is a step like any other.                                               *)
(***************************************************************************)
\* With k tokens left at the refill at r, and the i-th of m admissions at t:
\* from that admission on the bucket has given no more than it could.
Few(k, r, m, i, t) ==
    (k + m - i) * RefillInterval < Burst * RefillInterval + r - t

\* An admission that took one of the missing tokens was not long before the
\* last refill.
Recent(k, r, m, i, t) ==
    i > m - (Burst - k) => r - t <= (k + m - i) * RefillInterval

\* What holds of a bucket at any time.
Sound(b, ts, now) ==
    /\ b \in Bucket /\ b.last_refill <= now
    /\ ts \in Seq(0..now)
    /\ Burst - b.tokens <= Len(ts)
    /\ \A i \in DOMAIN ts : /\ Few(b.tokens, b.last_refill, Len(ts), i, ts[i])
                            /\ Recent(b.tokens, b.last_refill, Len(ts), i, ts[i])

\* The inductive invariant.
RateInv ==
    /\ RateBound
    /\ RefusalIsEarned
    /\ \A a \in Addrs : Sound(BucketOf(a, time), admitted[a], time)

-----------------------------------------------------------------------------
(* Arithmetic of whole intervals.                                          *)

LEMMA Times ==
    ASSUME NEW d \in Nat \ {0}, NEW x \in Int, NEW y \in Int
    PROVE  /\ x * d \in Int
           /\ (x + y) * d = x * d + y * d
           /\ (x - y) * d = x * d - y * d
           /\ x <= y => x * d <= y * d
           /\ x * d < y * d => x < y
           /\ 1 * d = d
           /\ 0 * d = 0
OBVIOUS

LEMMA Division ==
    ASSUME NEW n \in Nat, NEW d \in Nat \ {0}
    PROVE  /\ n \div d \in Nat
           /\ (n \div d) * d <= n
           /\ n < (n \div d) * d + d
OBVIOUS

\* A refill by n intervals moves the tokens and the time of the refill alike.
LEMMA RefillArithmetic ==
    ASSUME NEW k \in Nat, NEW l \in Nat, NEW n \in Nat, NEW r \in Int,
           NEW m \in Int, NEW i \in Int, NEW t \in Int, i <= m,
           l <= k + n, l = Burst \/ l = k + n,
           Few(k, r, m, i, t), Recent(k, r, m, i, t)
    PROVE  /\ Few(l, r + n * RefillInterval, m, i, t)
           /\ Recent(l, r + n * RefillInterval, m, i, t)
<1> DEFINE R == RefillInterval
           x == k + m - i
           y == l + m - i
<1>1. R \in Nat \ {0} /\ Burst \in Nat
  BY LimiterAssumption
<1>2. x \in Int /\ y \in Int /\ y <= x + n /\ x + n \in Int
  OBVIOUS
<1>3. l = k + n => y = x + n
  OBVIOUS
<1>4. x * R < Burst * R + r - t
  BY DEF Few
<1>5. i > m - (Burst - k) => r - t <= x * R
  BY DEF Recent
<1> HIDE DEF x, y, R
<1>6. y * R <= (x + n) * R /\ (x + n) * R = x * R + n * R
  BY <1>1, <1>2, Times
<1>7. x * R \in Int /\ y * R \in Int /\ n * R \in Int /\ Burst * R \in Int
  BY <1>1, <1>2, Times
<1>8. y * R < Burst * R + (r + n * R) - t
  BY <1>4, <1>6, <1>7
<1>9. i > m - (Burst - l) => (r + n * R) - t <= y * R
  <2> SUFFICES ASSUME i > m - (Burst - l)
               PROVE  (r + n * R) - t <= y * R
    OBVIOUS
  <2>1. l = k + n /\ i > m - (Burst - k)
    BY <1>1
  <2> QED
    BY <1>3, <1>5, <1>6, <1>7, <2>1
<1> QED
  BY <1>8, <1>9 DEF Few, Recent, x, y, R

\* Taking a token at now: for the earlier admissions nothing moves, and the
\* new one is accounted for by the interval that is not over.
LEMMA SpendArithmetic ==
    ASSUME NEW k \in 1..Burst, NEW r \in Int, NEW m \in Nat, NEW now \in Int,
           r <= now, now - r < RefillInterval
    PROVE  /\ \A i, t \in Int : Few(k, r, m, i, t) => Few(k - 1, r, m + 1, i, t)
           /\ \A i, t \in Int : Recent(k, r, m, i, t) => Recent(k - 1, r, m + 1, i, t)
           /\ Few(k - 1, r, m + 1, m + 1, now)
           /\ Recent(k - 1, r, m + 1, m + 1, now)
<1> DEFINE R == RefillInterval
<1>1. R \in Nat \ {0} /\ Burst \in Nat /\ k \in Nat
  BY LimiterAssumption
<1>2. \A i \in Int : /\ (k - 1) + (m + 1) - i = k + m - i
                     /\ m + 1 - (Burst - (k - 1)) = m - (Burst - k)
  BY <1>1
<1>3. (k - 1) + (m + 1) - (m + 1) = k - 1
  BY <1>1
<1>4. /\ (k - 1) * R = k * R - R /\ k * R <= Burst * R /\ 0 <= (k - 1) * R
      /\ k * R \in Int /\ Burst * R \in Int
  <2>1. (k - 1) * R = k * R - 1 * R /\ 1 * R = R /\ k * R \in Int
    BY <1>1, Times
  <2>2. k <= Burst => k * R <= Burst * R
    BY <1>1, Times
  <2>3. 0 <= k - 1 => 0 * R <= (k - 1) * R
    BY <1>1, Times
  <2>4. 0 * R = 0 /\ Burst * R \in Int
    BY <1>1, Times
  <2> QED
    BY <1>1, <2>1, <2>2, <2>3, <2>4
<1> HIDE DEF R
<1>5. (k - 1) * R < Burst * R + r - now /\ r - now <= (k - 1) * R
  BY <1>1, <1>4 DEF R
<1>6. Few(k - 1, r, m + 1, m + 1, now) /\ Recent(k - 1, r, m + 1, m + 1, now)
  BY <1>3, <1>5 DEF Few, Recent, R
<1>7. ASSUME NEW i \in Int, NEW t \in Int
      PROVE  /\ Few(k, r, m, i, t) => Few(k - 1, r, m + 1, i, t)
             /\ Recent(k, r, m, i, t) => Recent(k - 1, r, m + 1, i, t)
  <2>1. (k - 1) + (m + 1) - i = k + m - i /\ m + 1 - (Burst - (k - 1)) = m - (Burst - k)
    BY <1>2
  <2>2. Few(k, r, m, i, t) => Few(k - 1, r, m + 1, i, t)
    BY <2>1 DEF Few
  <2>3. ASSUME Recent(k, r, m, i, t)
        PROVE  Recent(k - 1, r, m + 1, i, t)
    <3> SUFFICES ASSUME i > m + 1 - (Burst - (k - 1))
                 PROVE  r - t <= ((k - 1) + (m + 1) - i) * RefillInterval
      BY <1>1 DEF Recent, R
    <3>1. i > m - (Burst - k)
      BY <2>1
    <3>2. r - t <= (k + m - i) * RefillInterval
      BY <2>3, <3>1 DEF Recent
    <3> QED
      BY <2>1, <3>2
  <2> QED
    BY <2>2, <2>3
<1> QED
  BY <1>6, <1>7

\* A bucket that a refill at now would fill is as good as a full one.
LEMMA DropArithmetic ==
    ASSUME NEW k \in 0..Burst, NEW r \in Int, NEW m \in Int, NEW now \in Int,
           NEW i \in Int, NEW t \in Int, i <= m,
           ~(now - r < (Burst - k) * RefillInterval), Few(k, r, m, i, t)
    PROVE  Few(Burst, now, m, i, t) /\ Recent(Burst, now, m, i, t)
<1> DEFINE R == RefillInterval
           x == k + m - i
           y == Burst - k
<1>1. R \in Nat \ {0} /\ Burst \in Nat /\ x \in Int /\ y \in Int
  BY LimiterAssumption
<1>2. Burst + m - i = x + y
  BY <1>1
<1>3. (x + y) * R = x * R + y * R /\ x * R \in Int /\ y * R \in Int /\ Burst * R \in Int
  <2> HIDE DEF x, y, R
  <2> QED
    BY <1>1, Times
<1>4. x * R < Burst * R + r - t /\ ~(now - r < y * R)
  BY DEF Few
<1> HIDE DEF x, y, R
<1>5. (x + y) * R < Burst * R + now - t
  BY <1>3, <1>4
<1>6. Few(Burst, now, m, i, t)
  BY <1>2, <1>5 DEF Few, R
<1>7. ~(i > m - (Burst - Burst))
  BY <1>1
<1> QED
  BY <1>6, <1>7 DEF Recent

-----------------------------------------------------------------------------
(* What the limiter does to a bucket.                                      *)

LEMMA SoundFacts ==
    ASSUME NEW now \in Nat, NEW b, NEW ts, Sound(b, ts, now)
    PROVE  /\ b.tokens \in 0..Burst /\ b.tokens \in Nat
           /\ b.last_refill \in Nat /\ b.last_refill \in Int
           /\ now - b.last_refill \in Nat
           /\ Len(ts) \in Nat /\ Len(ts) \in Int /\ DOMAIN ts = 1..Len(ts)
           /\ \A i \in DOMAIN ts :
                i \in Int /\ i <= Len(ts) /\ ts[i] \in Int /\ ts[i] \in 0..now
<1>1. Burst \in Nat
  BY LimiterAssumption
<1>2. /\ b \in [tokens : 0..Burst, last_refill : Nat] /\ b.last_refill <= now
      /\ ts \in Seq(0..now)
  BY DEF Sound, Bucket
<1> QED
  BY <1>1, <1>2

\* The lazy refill of admit.
LEMMA RefillSound ==
    ASSUME NEW now \in Nat, NEW b, NEW ts, Sound(b, ts, now)
    PROVE  /\ Sound(Refilled(b, now), ts, now)
           /\ now - Refilled(b, now).last_refill < RefillInterval
<1> DEFINE R == RefillInterval
           n == (now - b.last_refill) \div R
           k == AtMost(b.tokens + n, Burst)
           r == b.last_refill + n * R
           c == Refilled(b, now)
<1>1. R \in Nat \ {0} /\ Burst \in Nat
  BY LimiterAssumption
<1>2. n \in Nat /\ n * R <= now - b.last_refill /\ now - b.last_refill < n * R + R
  BY <1>1, SoundFacts, Division, ZenonT(40)
<1>3. c = [tokens |-> k, last_refill |-> r]
  BY DEF Refilled
<1> HIDE DEF n
<1>4. n * R \in Nat
  BY <1>1, <1>2
<1>5. b.tokens \in 0..Burst /\ b.last_refill \in Nat /\ now - b.last_refill \in Nat
  BY SoundFacts
<1>6. /\ k \in 0..Burst /\ k \in Nat /\ k <= b.tokens + n /\ Burst - k <= Burst - b.tokens
      /\ k = Burst \/ k = b.tokens + n
  BY <1>1, <1>2, <1>5 DEF AtMost
<1> HIDE DEF R
<1>7. r \in Nat /\ r <= now /\ now - r < R
  BY <1>1, <1>2, <1>4, <1>5
<1> HIDE DEF k, c
<1>8. c \in Bucket /\ c.tokens = k /\ c.last_refill = r
  BY <1>3, <1>6, <1>7, ZenonT(40) DEF Bucket
<1>9. ASSUME NEW i \in DOMAIN ts
      PROVE  Few(k, r, Len(ts), i, ts[i]) /\ Recent(k, r, Len(ts), i, ts[i])
  <2>1. /\ i \in Int /\ i <= Len(ts) /\ ts[i] \in Int /\ Len(ts) \in Int
        /\ b.tokens \in Nat /\ b.last_refill \in Int
    BY SoundFacts
  <2>2. /\ Few(b.tokens, b.last_refill, Len(ts), i, ts[i])
        /\ Recent(b.tokens, b.last_refill, Len(ts), i, ts[i])
    BY DEF Sound
  <2> QED
    BY <1>2, <1>6, <2>1, <2>2, RefillArithmetic, ZenonT(40) DEF R
<1> HIDE DEF r
<1>10. Burst - k <= Len(ts) /\ ts \in Seq(0..now)
  <2>1. Burst - b.tokens <= Len(ts) /\ ts \in Seq(0..now) /\ Len(ts) \in Nat
    BY SoundFacts DEF Sound
  <2> QED
    BY <1>1, <1>5, <1>6, <2>1
<1>11. Sound(c, ts, now)
  BY <1>7, <1>8, <1>9, <1>10 DEF Sound
<1> QED
  BY <1>7, <1>8, <1>11 DEF c, R

\* The token that an admission takes.
LEMMA SpendSound ==
    ASSUME NEW now \in Nat, NEW b, NEW ts, Sound(b, ts, now),
           b.tokens > 0, now - b.last_refill < RefillInterval
    PROVE  Sound([b EXCEPT !.tokens = @ - 1], Append(ts, now), now)
<1> DEFINE c == [b EXCEPT !.tokens = @ - 1]
           us == Append(ts, now)
           k == b.tokens
           r == b.last_refill
           m == Len(ts)
<1>1. Burst \in Nat /\ RefillInterval \in Nat \ {0}
  BY LimiterAssumption
<1>2. k \in 1..Burst /\ r \in Int /\ r \in Nat /\ m \in Nat /\ r <= now /\ now \in Int
  BY <1>1, SoundFacts
<1>3. c \in Bucket /\ c.tokens = k - 1 /\ c.last_refill = r
  <2>1. b \in [tokens : 0..Burst, last_refill : Nat]
    BY DEF Sound, Bucket
  <2>2. k - 1 \in 0..Burst
    BY <1>1, <1>2
  <2> QED
    BY <2>1, <2>2 DEF Bucket
<1>4. /\ us \in Seq(0..now) /\ Len(us) = m + 1
      /\ DOMAIN us = DOMAIN ts \cup {m + 1}
      /\ us[m + 1] = now /\ \A i \in DOMAIN ts : us[i] = ts[i]
  <2>1. ts \in Seq(0..now)
    BY DEF Sound
  <2> QED
    BY <2>1
<1>5. \A i \in DOMAIN ts : i \in Int /\ ts[i] \in Int
  BY SoundFacts
<1>6. \A i \in DOMAIN ts : Few(k, r, m, i, ts[i]) /\ Recent(k, r, m, i, ts[i])
  BY DEF Sound
<1>7. Burst - k <= m
  BY Zenon DEF Sound
<1> HIDE DEF c, us, k, r, m
<1>8. /\ \A i, t \in Int : Few(k, r, m, i, t) => Few(k - 1, r, m + 1, i, t)
      /\ \A i, t \in Int : Recent(k, r, m, i, t) => Recent(k - 1, r, m + 1, i, t)
      /\ Few(k - 1, r, m + 1, m + 1, now)
      /\ Recent(k - 1, r, m + 1, m + 1, now)
  BY <1>2, SpendArithmetic, ZenonT(40) DEF k, r
<1>9. \A i \in DOMAIN us : /\ Few(k - 1, r, m + 1, i, us[i])
                           /\ Recent(k - 1, r, m + 1, i, us[i])
  BY <1>4, <1>5, <1>6, <1>8, Zenon
<1>10. Burst - (k - 1) <= m + 1
  BY <1>1, <1>2, <1>7
<1>11. Sound(c, us, now)
  BY <1>2, <1>3, <1>4, <1>9, <1>10 DEF Sound
<1> QED
  BY <1>11 DEF c, us

\* Collecting a bucket: its address is from now on seen as full.
LEMMA DropSound ==
    ASSUME NEW now \in Nat, NEW b, NEW ts, Sound(b, ts, now), ~StillRefilling(b, now)
    PROVE  Sound([tokens |-> Burst, last_refill |-> now], ts, now)
<1> DEFINE c == [tokens |-> Burst, last_refill |-> now]
<1>1. Burst \in Nat
  BY LimiterAssumption
<1>2. c \in Bucket /\ c.tokens = Burst /\ c.last_refill = now
  BY <1>1 DEF Bucket
<1>3. ASSUME NEW i \in DOMAIN ts
      PROVE  Few(Burst, now, Len(ts), i, ts[i]) /\ Recent(Burst, now, Len(ts), i, ts[i])
  <2>1. Few(b.tokens, b.last_refill, Len(ts), i, ts[i])
    BY DEF Sound
  <2>2. ~(now - b.last_refill < (Burst - b.tokens) * RefillInterval)
    BY DEF StillRefilling
  <2>3. /\ i \in Int /\ i <= Len(ts) /\ ts[i] \in Int /\ Len(ts) \in Int
        /\ b.tokens \in 0..Burst /\ b.last_refill \in Int /\ now \in Int
    BY SoundFacts
  <2> QED
    BY <2>1, <2>2, <2>3, DropArithmetic
<1>4. Burst - Burst <= Len(ts) /\ now <= now /\ ts \in Seq(0..now)
  BY <1>1, SoundFacts DEF Sound
<1> HIDE DEF c
<1>5. Sound(c, ts, now)
  BY <1>2, <1>3, <1>4, ZenonT(40) DEF Sound
<1> QED
  BY <1>5 DEF c

\* Time passes: for a bucket that is kept, and for one that is not.
LEMMA WaitSound ==
    ASSUME NEW now \in Nat, NEW b, NEW ts, Sound(b, ts, now)
    PROVE  /\ Sound(b, ts, now + 1)
           /\ b = [tokens |-> Burst, last_refill |-> now] =>
                Sound([tokens |-> Burst, last_refill |-> now + 1], ts, now + 1)
<1>1. now + 1 \in Nat /\ 0..now \subseteq 0..(now + 1)
  OBVIOUS
<1>2. ts \in Seq(0..(now + 1))
  <2>1. ts \in Seq(0..now)
    BY DEF Sound
  <2> QED
    BY <1>1, <2>1
<1>3. b.last_refill <= now + 1
  BY SoundFacts
<1>4. Sound(b, ts, now + 1)
  BY <1>2, <1>3 DEF Sound
<1>5. ASSUME b = [tokens |-> Burst, last_refill |-> now]
      PROVE  ~StillRefilling(b, now + 1)
  <2>1. b.tokens = Burst /\ b.last_refill = now
    BY <1>5
  <2>2. Burst - Burst = 0 /\ 0 * RefillInterval = 0
    BY LimiterAssumption
  <2> QED
    BY <2>1, <2>2 DEF StillRefilling
<1> QED
  BY <1>1, <1>4, <1>5, DropSound

-----------------------------------------------------------------------------
(* What a sound bucket says of the admissions.                             *)

\* The admissions from the i-th to the last one.
LEMMA SoundBound ==
    ASSUME NEW now \in Nat, NEW b, NEW ts, Sound(b, ts, now), NEW i \in DOMAIN ts
    PROVE  Len(ts) - i + 1 <= Burst + 1 + (now - ts[i]) \div RefillInterval
<1> DEFINE R == RefillInterval
           k == b.tokens
           m == Len(ts)
           q == (now - ts[i]) \div R
           x == k + m - i
<1>1. R \in Nat \ {0} /\ Burst \in Nat
  BY LimiterAssumption
<1>2. /\ k \in Nat /\ m \in Nat /\ i \in Int /\ ts[i] \in Int /\ now - ts[i] \in Nat
      /\ b.last_refill \in Int /\ b.last_refill <= now
  BY SoundFacts
<1>3. q \in Nat /\ now - ts[i] < q * R + R
  BY <1>1, <1>2, Division, ZenonT(40)
<1>4. x * R < Burst * R + b.last_refill - ts[i]
  BY DEF Sound, Few
<1>5. x \in Int
  BY <1>2
<1> HIDE DEF x, q, R, m, k
<1>6. /\ x * R \in Int /\ Burst * R \in Int /\ q * R \in Int
      /\ ((Burst + q) + 1) * R = (Burst * R + q * R) + R
  <2>1. x * R \in Int /\ Burst * R \in Int /\ q * R \in Int
    BY <1>1, <1>3, <1>5, Times
  <2>2. (Burst + q) * R = Burst * R + q * R /\ Burst + q \in Int
    BY <1>1, <1>3, Times
  <2>3. ((Burst + q) + 1) * R = (Burst + q) * R + 1 * R /\ 1 * R = R
    BY <1>1, <2>2, Times
  <2> QED
    BY <2>1, <2>2, <2>3
<1>7. x * R < ((Burst + q) + 1) * R
  BY <1>1, <1>2, <1>3, <1>4, <1>6
<1>8. x < (Burst + q) + 1
  BY <1>1, <1>3, <1>5, <1>7, Times
<1>9. m - i + 1 <= Burst + 1 + q
  BY <1>1, <1>2, <1>3, <1>8 DEF x
<1> QED
  BY <1>9 DEF q, m, R

\* An empty bucket: the last Burst admissions are recent.
LEMMA SoundRefusal ==
    ASSUME NEW now \in Nat, NEW b, NEW ts, Sound(b, ts, now),
           b.tokens = 0, now - b.last_refill < RefillInterval
    PROVE  Cardinality({i \in DOMAIN ts : now - ts[i] < Burst * RefillInterval}) >= Burst
<1> DEFINE R == RefillInterval
           m == Len(ts)
           S == {i \in DOMAIN ts : now - ts[i] < Burst * R}
           T == (m - Burst + 1)..m
<1>1. R \in Nat \ {0} /\ Burst \in Nat
  BY LimiterAssumption
<1>2. /\ m \in Nat /\ DOMAIN ts = 1..m /\ \A i \in DOMAIN ts : ts[i] \in Int
      /\ b.last_refill \in Int
  BY SoundFacts, Zenon
<1>3. Burst <= m
  BY <1>1, <1>2 DEF Sound
<1>4. T \subseteq DOMAIN ts
  BY <1>1, <1>2, <1>3
<1>5. ASSUME NEW i \in T
      PROVE  now - ts[i] < Burst * R
  <2>1. i \in DOMAIN ts /\ i \in Int /\ ts[i] \in Int
    BY <1>2, <1>4
  <2>2. i > m - (Burst - 0) /\ 0 + m - i = m - i /\ m - i <= Burst - 1 /\ m - i \in Int
    BY <1>1, <1>2
  <2>3. b.last_refill - ts[i] <= (0 + m - i) * R
    BY <2>1, <2>2, Zenon DEF Sound, Recent
  <2>4. (m - i) * R <= (Burst - 1) * R /\ (m - i) * R \in Int
    BY <1>1, <2>2, Times
  <2>5. (Burst - 1) * R = Burst * R - R /\ Burst * R \in Int
    BY <1>1, Times
  <2>6. b.last_refill - ts[i] <= Burst * R - R
    <3>1. b.last_refill - ts[i] <= (m - i) * R /\ (m - i) * R <= Burst * R - R
      BY <2>2, <2>3, <2>4, <2>5
    <3> HIDE DEF m, R
    <3> QED
      BY <1>1, <1>2, <2>1, <2>4, <2>5, <3>1
  <2>7. now - b.last_refill < R
    OBVIOUS
  <2> HIDE DEF R
  <2> QED
    BY <1>1, <1>2, <2>1, <2>5, <2>6, <2>7
<1>6. T \subseteq S
  BY <1>4, <1>5
<1>7. IsFiniteSet(S)
  <2>1. IsFiniteSet(1..m)
    BY <1>2, FS_Interval
  <2>2. S \subseteq 1..m
    BY <1>2
  <2> QED
    BY <2>1, <2>2, FS_Subset
<1>8. Cardinality(T) = Burst
  <2>1. m - Burst + 1 \in Int /\ m \in Int
    BY <1>1, <1>2
  <2>2. Cardinality(T) = IF m - Burst + 1 > m THEN 0 ELSE m - (m - Burst + 1) + 1
    BY <2>1, FS_Interval, ZenonT(40)
  <2> QED
    BY <1>1, <1>2, <2>2
<1>9. Cardinality(T) <= Cardinality(S) /\ Cardinality(S) \in Nat
  BY <1>6, <1>7, FS_Subset, FS_CardinalityType, ZenonT(40)
<1> QED
  BY <1>1, <1>8, <1>9

\* A bucket that is still refilling: its address was admitted not long ago.
LEMMA SoundKept ==
    ASSUME NEW now \in Nat, NEW b, NEW ts, Sound(b, ts, now), StillRefilling(b, now)
    PROVE  ts # <<>> /\ now - ts[Len(ts)] < Burst * RefillInterval
<1> DEFINE R == RefillInterval
           k == b.tokens
           m == Len(ts)
<1>1. R \in Nat \ {0} /\ Burst \in Nat
  BY LimiterAssumption, Zenon
<1>2. /\ k \in 0..Burst /\ k \in Nat /\ m \in Nat /\ DOMAIN ts = 1..m
      /\ \A i \in DOMAIN ts : ts[i] \in Int
      /\ b.last_refill \in Int /\ b.last_refill <= now
  BY SoundFacts
<1>3. now - b.last_refill < (Burst - k) * R
  BY DEF StillRefilling
<1>4. (Burst - k) * R = Burst * R - k * R /\ Burst * R \in Int /\ k * R \in Int
  BY <1>1, <1>2, Times
<1>5. Burst > k
  <2> SUFFICES ASSUME Burst = k PROVE FALSE
    BY <1>1, <1>2
  <2> QED
    BY <1>2, <1>3, <1>4
<1>6. Burst - k <= m
  BY DEF Sound
<1>7. m >= 1 /\ m \in DOMAIN ts /\ m > m - (Burst - k) /\ k + m - m = k
  BY <1>1, <1>2, <1>5, <1>6
<1>8. b.last_refill - ts[m] <= (k + m - m) * R
  BY <1>7 DEF Sound, Recent
<1>9. now - ts[m] < Burst * R
  <2>1. b.last_refill - ts[m] <= k * R /\ ts[m] \in Int
    BY <1>2, <1>7, <1>8
  <2>2. now - b.last_refill < Burst * R - k * R
    BY <1>3, <1>4
  <2> HIDE DEF k, m, R
  <2> QED
    BY <1>2, <1>4, <2>1, <2>2
<1>10. ts # <<>>
  BY <1>7
<1> QED
  BY <1>9, <1>10

-----------------------------------------------------------------------------
(* The steps.                                                              *)

LEMMA StateFacts ==
    ASSUME RateTypeOK
    PROVE  /\ time \in Nat /\ time <= LastTime /\ LastTime \in Nat
           /\ DOMAIN admitted = Addrs
           /\ \A a \in Addrs : admitted[a] \in Seq(0..LastTime)
  BY TimeAssumption DEF RateTypeOK

\* An admission: the bucket is refilled, gives a token, and every bucket that
\* is as good as full goes.
LEMMA RateAdmitStep ==
    ASSUME RateInv, NEW a \in Addrs, Admit(a, time), refused' = NoAddr,
           admitted' = [admitted EXCEPT ![a] = Append(@, time)], time' = time
    PROVE  /\ RateInv'
           /\ \A x \in DOMAIN buckets' :
                /\ admitted'[x] # <<>>
                /\ time - admitted'[x][Len(admitted'[x])] < Burst * RefillInterval
<1> DEFINE b == Refilled(BucketOf(a, time), time)
           c == [b EXCEPT !.tokens = @ - 1]
           seen(x) == IF x = a THEN c ELSE BucketOf(x, time)
<1>1. RateTypeOK /\ time \in Nat
  BY StateFacts DEF RateInv, RateBound
<1>2. Sound(b, admitted[a], time) /\ time - b.last_refill < RefillInterval
  BY <1>1, RefillSound DEF RateInv
<1>3. b.tokens > 0 /\ buckets' = Collect(WithBucket(a, c), time)
  BY DEF Admit
<1> HIDE DEF b
<1>4. Sound(c, Append(admitted[a], time), time)
  BY <1>1, <1>2, <1>3, SpendSound
<1> HIDE DEF c
<1>5. ASSUME NEW x \in Addrs
      PROVE  admitted'[x] = IF x = a THEN Append(admitted[a], time) ELSE admitted[x]
  BY <1>1, StateFacts
<1>6. ASSUME NEW x \in Addrs
      PROVE  Sound(seen(x), admitted'[x], time)
  BY <1>4, <1>5, ZenonT(40) DEF RateInv
<1>7. /\ DOMAIN buckets' \subseteq DOMAIN buckets \cup {a}
      /\ \A x \in DOMAIN buckets' : buckets'[x] = seen(x) /\ StillRefilling(seen(x), time)
      /\ \A x \in (DOMAIN buckets \cup {a}) \ DOMAIN buckets' : ~StillRefilling(seen(x), time)
  BY <1>3, ZenonT(40) DEF Collect, WithBucket, BucketOf
<1>8. DOMAIN buckets \subseteq Addrs
  BY <1>1, Zenon DEF RateTypeOK, LimiterTypeOK
<1>9. ASSUME NEW x \in Addrs
      PROVE  Sound(IF x \in DOMAIN buckets' THEN buckets'[x]
                   ELSE [tokens |-> Burst, last_refill |-> time], admitted'[x], time)
  <2>1. CASE x \in DOMAIN buckets'
    BY <1>6, <1>7, <2>1, ZenonT(40)
  <2>2. CASE x \in (DOMAIN buckets \cup {a}) \ DOMAIN buckets'
    <3>1. ~StillRefilling(seen(x), time)
      BY <1>7, <2>2, Zenon
    <3> HIDE DEF seen
    <3> QED
      BY <1>1, <1>6, <2>2, <3>1, DropSound, ZenonT(40)
  <2>3. CASE x \notin DOMAIN buckets \cup {a}
    <3>1. seen(x) = [tokens |-> Burst, last_refill |-> time] /\ x \notin DOMAIN buckets'
      BY <1>7, <2>3 DEF BucketOf
    <3> QED
      BY <1>6, <3>1, ZenonT(40)
  <2> QED
    BY <2>1, <2>2, <2>3, ZenonT(40)
<1>10. \A x \in Addrs : Sound(BucketOf(x, time), admitted[x], time)'
  BY <1>9 DEF BucketOf
<1> HIDE DEF seen
<1>11. RateTypeOK'
  <2>1. \A x \in DOMAIN buckets' : x \in Addrs /\ buckets'[x] \in Bucket
    BY <1>6, <1>7, <1>8 DEF Sound
  <2>2. /\ half_open' = WithTicket(next_ticket, time + HalfOpenTimeout)
        /\ next_ticket' = next_ticket + 1
    BY Zenon DEF Admit
  <2>3. LimiterTypeOK'
    <3>1. /\ next_ticket \in Nat /\ time + HalfOpenTimeout \in Nat /\ next_ticket + 1 \in Nat
          /\ DOMAIN half_open \subseteq Nat /\ \A t \in DOMAIN half_open : half_open[t] \in Nat
      BY <1>1, LimiterAssumption DEF LimiterTypeOK, RateTypeOK
    <3>2. DOMAIN half_open' \subseteq Nat /\ \A t \in DOMAIN half_open' : half_open'[t] \in Nat
      BY <2>2, <3>1 DEF WithTicket
    <3> QED
      BY <2>1, <2>2, <3>1, <3>2, ZenonT(40) DEF LimiterTypeOK
  <2>4. admitted' \in [Addrs -> Seq(0..LastTime)]
    <3>1. Append(admitted[a], time) \in Seq(0..LastTime)
      BY <1>1, StateFacts
    <3> QED
      BY <1>1, <3>1 DEF RateTypeOK
  <2> QED
    BY <1>1, <2>3, <2>4, ZenonT(40) DEF RateTypeOK
<1>12. RateBound'
  <2> SUFFICES ASSUME NEW x \in Addrs, NEW i \in DOMAIN admitted'[x],
                      NEW j \in DOMAIN admitted'[x], i <= j
               PROVE  j - i + 1 <= Burst + 1
                        + (admitted'[x][j] - admitted'[x][i]) \div RefillInterval
    BY <1>11 DEF RateBound
  <2>1. CASE x # a
    <3>1. admitted'[x] = admitted[x]
      BY <1>5, <2>1
    <3> QED
      BY <3>1, ZenonT(40) DEF RateInv, RateBound
  <2>2. CASE x = a
    <3> DEFINE ts == admitted[a]
               us == Append(ts, time)
    <3>1. admitted'[x] = us /\ ts \in Seq(0..LastTime)
      BY <1>1, <1>5, <2>2, StateFacts
    <3>2. /\ Len(us) = Len(ts) + 1 /\ us[Len(us)] = time
          /\ DOMAIN us = 1..Len(us) /\ DOMAIN ts = 1..Len(ts) /\ Len(ts) \in Nat
          /\ \A l \in DOMAIN ts : us[l] = ts[l]
      BY <3>1
    <3>3. CASE j = Len(us)
      <4>1. Len(us) - i + 1 <= Burst + 1 + (time - us[i]) \div RefillInterval
        BY <1>1, <1>4, <3>1, SoundBound, ZenonT(40)
      <4> QED
        BY <3>1, <3>2, <3>3, <4>1, ZenonT(40)
    <3>4. CASE j # Len(us)
      <4>1. i \in DOMAIN ts /\ j \in DOMAIN ts
        BY <3>1, <3>2, <3>4
      <4>2. j - i + 1 <= Burst + 1 + (ts[j] - ts[i]) \div RefillInterval
        BY <4>1 DEF RateInv, RateBound
      <4> QED
        BY <3>1, <3>2, <4>1, <4>2, ZenonT(40)
    <3> QED
      BY <3>3, <3>4, ZenonT(40)
  <2> QED
    BY <2>1, <2>2, ZenonT(40)
<1>13. RefusalIsEarned'
  BY DEF RefusalIsEarned
<1>14. ASSUME NEW x \in DOMAIN buckets'
       PROVE  /\ admitted'[x] # <<>>
              /\ time - admitted'[x][Len(admitted'[x])] < Burst * RefillInterval
  <2>1. x \in Addrs /\ StillRefilling(seen(x), time)
    BY <1>7, <1>8
  <2> QED
    BY <1>1, <1>6, <2>1, SoundKept, ZenonT(40)
<1> QED
  BY <1>10, <1>12, <1>13, <1>14, ZenonT(40) DEF RateInv

\* A refusal for want of a token: the refilled bucket is kept.
LEMMA RateRefuseStep ==
    ASSUME RateInv, NEW a \in Addrs, RefuseRate(a, time), refused' = a,
           UNCHANGED <<time, admitted>>
    PROVE  RateInv'
<1> DEFINE b == Refilled(BucketOf(a, time), time)
<1>1. RateTypeOK /\ time \in Nat
  BY StateFacts DEF RateInv, RateBound
<1>2. Sound(b, admitted[a], time) /\ time - b.last_refill < RefillInterval
  BY <1>1, RefillSound DEF RateInv
<1>3. b.tokens = 0 /\ buckets' = WithBucket(a, b) /\ UNCHANGED <<half_open, next_ticket>>
  BY ZenonT(40) DEF RefuseRate
<1> HIDE DEF b
<1>4. \A x \in Addrs : Sound(BucketOf(x, time), admitted[x], time)'
  BY <1>2, <1>3 DEF WithBucket, BucketOf, RateInv
<1>5. RateTypeOK'
  <2>1. b \in Bucket
    BY <1>2, Zenon DEF Sound
  <2>2. LimiterTypeOK'
    BY <1>1, <1>3, <2>1, ZenonT(40) DEF RateTypeOK, LimiterTypeOK, WithBucket
  <2> QED
    BY <1>1, <2>2 DEF RateTypeOK
<1>6. RateBound'
  BY <1>5, Zenon DEF RateInv, RateBound
<1>7. RefusalIsEarned'
  BY <1>1, <1>2, <1>3, SoundRefusal, ZenonT(40) DEF RefusalIsEarned
<1> QED
  BY <1>4, <1>6, <1>7 DEF RateInv

\* Steps that leave the buckets and the admissions as they are.
LEMMA OtherStep ==
    ASSUME RateInv, RateTypeOK', time' \in {time, time + 1}, UNCHANGED <<buckets, admitted>>,
           refused' = NoAddr
    PROVE  RateInv'
<1>1. RateTypeOK /\ time \in Nat
  BY StateFacts, Zenon DEF RateInv, RateBound
<1>2. RateBound'
  BY DEF RateInv, RateBound
<1>3. RefusalIsEarned'
  BY Zenon DEF RefusalIsEarned
<1>4. ASSUME NEW x \in Addrs
      PROVE  Sound(BucketOf(x, time), admitted[x], time)'
  <2>1. Sound(BucketOf(x, time), admitted[x], time)
    BY Zenon DEF RateInv
  <2>2. CASE time' = time
    BY <2>1, <2>2, ZenonT(40) DEF BucketOf
  <2>3. CASE time' = time + 1 /\ x \in DOMAIN buckets
    BY <1>1, <2>1, <2>3, WaitSound, ZenonT(40) DEF BucketOf
  <2>4. CASE time' = time + 1 /\ x \notin DOMAIN buckets
    <3>1. BucketOf(x, time) = [tokens |-> Burst, last_refill |-> time]
      BY <2>4 DEF BucketOf
    <3>2. BucketOf(x, time)' = [tokens |-> Burst, last_refill |-> time + 1]
      BY <2>4, ZenonT(40) DEF BucketOf
    <3>3. Sound([tokens |-> Burst, last_refill |-> time + 1], admitted[x], time + 1)
      BY <1>1, <2>1, <3>1, WaitSound
    <3> QED
      BY <2>4, <3>2, <3>3
  <2> QED
    BY <2>2, <2>3, <2>4
<1> QED
  BY <1>2, <1>3, <1>4, ZenonT(40) DEF RateInv

\* What an admission leaves in the map of buckets, as BucketsAreRecent has it.
RecentAfter ==
    next_ticket' # next_ticket =>
        \A a \in DOMAIN buckets' :
            /\ admitted'[a] # <<>>
            /\ time - admitted'[a][Len(admitted'[a])] < Burst * RefillInterval

LEMMA InitHolds == RateInit => RateInv
<1> SUFFICES ASSUME RateInit PROVE RateInv
  OBVIOUS
<1>1. /\ DOMAIN buckets = {} /\ DOMAIN half_open = {} /\ next_ticket = 0
      /\ time = 0 /\ refused = NoAddr
      /\ admitted = [a \in Addrs |-> <<>>]
  BY DEF RateInit, LimiterInit
<1>2. <<>> \in Seq(0..LastTime) /\ <<>> \in Seq(0..0) /\ Len(<<>>) = 0 /\ DOMAIN <<>> = {}
  OBVIOUS
<1>3. RateTypeOK
  BY <1>1, <1>2, TimeAssumption DEF RateTypeOK, LimiterTypeOK
<1>4. RateBound
  BY <1>1, <1>2, <1>3 DEF RateBound
<1>5. RefusalIsEarned
  BY <1>1 DEF RefusalIsEarned
<1>6. ASSUME NEW a \in Addrs
      PROVE  Sound(BucketOf(a, time), admitted[a], time)
  <2> DEFINE full == [tokens |-> Burst, last_refill |-> 0]
  <2>1. full \in Bucket /\ full.last_refill <= 0 /\ Burst - full.tokens <= 0
    BY LimiterAssumption DEF Bucket
  <2>2. BucketOf(a, time) = full /\ admitted[a] = <<>>
    BY <1>1 DEF BucketOf
  <2> HIDE DEF full
  <2>3. Sound(full, <<>>, 0)
    BY <1>2, <2>1 DEF Sound
  <2> QED
    BY <1>1, <2>2, <2>3, ZenonT(40)
<1> QED
  BY <1>4, <1>5, <1>6 DEF RateInv

LEMMA NextHolds == RateInv /\ [RateNext]_rateVars => RateInv' /\ RecentAfter
<1> SUFFICES ASSUME RateInv, [RateNext]_rateVars PROVE RateInv' /\ RecentAfter
  BY ZenonT(40)
<1>1. RateTypeOK /\ time \in Nat
  BY StateFacts DEF RateInv, RateBound
<1>2. ASSUME NEW a \in Addrs, Ask(a) PROVE RateInv' /\ RecentAfter
  <2>1. CASE RefuseFull(a, time) /\ refused' = NoAddr /\ UNCHANGED <<time, admitted>>
    <3>1. RateTypeOK' /\ UNCHANGED <<buckets, next_ticket>>
      BY <1>1, <2>1, ZenonT(40) DEF RefuseFull, limiterVars, RateTypeOK, LimiterTypeOK
    <3> QED
      BY <2>1, <3>1, OtherStep, ZenonT(40) DEF RecentAfter
  <2>2. CASE RefuseRate(a, time) /\ refused' = a /\ UNCHANGED <<time, admitted>>
    <3>1. next_ticket' = next_ticket
      BY <2>2 DEF RefuseRate
    <3> QED
      BY <2>2, <3>1, RateRefuseStep, ZenonT(40) DEF RecentAfter
  <2>3. CASE /\ Admit(a, time) /\ refused' = NoAddr /\ time' = time
             /\ admitted' = [admitted EXCEPT ![a] = Append(@, time)]
    BY <2>3, RateAdmitStep, ZenonT(40) DEF RecentAfter
  <2> QED
    BY <1>2, <2>1, <2>2, <2>3, ZenonT(40) DEF Ask
<1>3. ASSUME NEW ts, half_open' = Without(ts), UNCHANGED <<buckets, next_ticket>>,
             refused' = NoAddr, UNCHANGED <<time, admitted>>
      PROVE  RateInv' /\ RecentAfter
  <2>1. RateTypeOK'
    BY <1>1, <1>3 DEF Without, RateTypeOK, LimiterTypeOK
  <2> QED
    BY <1>3, <2>1, OtherStep DEF RecentAfter
<1>4. ASSUME NEW t \in DOMAIN half_open, Finish(t) PROVE RateInv' /\ RecentAfter
  BY <1>3, <1>4 DEF Finish, Release
<1>5. CASE Sweep
  BY <1>3, <1>5, Zenon DEF Sweep, Expire
<1>6. CASE RateElapse
  <2>1. RateTypeOK' /\ time' = time + 1 /\ refused' = NoAddr
        /\ UNCHANGED <<buckets, next_ticket, admitted>>
    BY <1>1, <1>6, TimeAssumption DEF RateElapse, limiterVars, RateTypeOK, LimiterTypeOK
  <2> QED
    BY <2>1, OtherStep, ZenonT(40) DEF RecentAfter
<1>7. CASE UNCHANGED rateVars
  <2>1. UNCHANGED <<buckets, half_open, next_ticket, time, admitted, refused>>
    BY <1>7, ZenonT(40) DEF rateVars, limiterVars
  <2>2. RateInv'
    BY <2>1 DEF RateInv, RateBound, RefusalIsEarned, RateTypeOK, LimiterTypeOK, BucketOf
  <2> QED
    BY <2>1, <2>2 DEF RecentAfter
<1> QED
  BY <1>2, <1>4, <1>5, <1>6, <1>7 DEF RateNext

(***************************************************************************)
(* HandshakeLimiter::admit never gives an address more than its burst, one *)
(* token for each interval gone by and one more for the part of an         *)
(* interval on account, over any stretch of its admissions: whatever other *)
(* addresses do, and however often its bucket is collected in between.     *)
(***************************************************************************)
THEOREM RateIsBounded == RateSpec => []RateBound
<1>1. RateInv => RateBound
  BY DEF RateInv
<1> QED
  BY <1>1, InitHolds, NextHolds, PTL DEF RateSpec

(***************************************************************************)
(* An address that admit refuses for want of a token has had its Burst     *)
(* admissions within the last Burst intervals: no address is refused for   *)
(* what others did.                                                        *)
(***************************************************************************)
THEOREM RefusalsAreEarned == RateSpec => []RefusalIsEarned
<1>1. RateInv => RefusalIsEarned
  BY DEF RateInv
<1> QED
  BY <1>1, InitHolds, NextHolds, PTL DEF RateSpec

(***************************************************************************)
(* The collection at the end of admit leaves buckets only for addresses    *)
(* admitted within the last Burst intervals.                               *)
(***************************************************************************)
THEOREM BucketsStayRecent == RateSpec => BucketsAreRecent
<1>1. RateInv /\ [RateNext]_rateVars =>
        [next_ticket' # next_ticket =>
            \A a \in DOMAIN buckets' :
                /\ admitted'[a] # <<>>
                /\ time - admitted'[a][Len(admitted'[a])] < Burst * RefillInterval]_rateVars
  BY NextHolds DEF RecentAfter
<1> QED
  BY <1>1, InitHolds, NextHolds, PTL DEF RateSpec, BucketsAreRecent

=============================================================================
