-------------------------------- MODULE Push --------------------------------
(***************************************************************************)
(* How entries get into a node and from there into GOSSIP_PUSH messages    *)
(* (core api/node.rs create_entry, sync/session.rs handle_push and         *)
(* push_batches).  An entry may have any size that fits a frame; a session *)
(* that must push many of them splits them into batches.  A message that   *)
(* does not encode ends the link, and would end every link of the node     *)
(* that has this entry to push.                                            *)
(*                                                                         *)
(* The loop of push_batches is one action per turn; the node stays locked  *)
(* meanwhile.                                                              *)
(***************************************************************************)
EXTENDS Wire, Sequences

CONSTANTS
    Entries,
    Ints,       \* entry -> the bytes of its sort key and its kind
    Payload,    \* entry -> the bytes of its payload
    PushTtl     \* push_ttl of the configuration

PushBatchBudget == 32 * 1024    \* PUSH_BATCH_BUDGET

\* The integers of an entry take 1 to 9 bytes each, and the door of
\* create_entry, which tries a ttl of 0, speaks for ttls as short as that.
ASSUME EntriesAssumption ==
    Ints \in [Entries -> 2..18] /\ Payload \in [Entries -> Nat]

ASSUME PushTtlAssumption == PushTtl \in 0..23

VARIABLES
    kept,       \* the entries of the store
    have,       \* the entries that push_batches was called with
    ids,        \* those it has still to visit
    batch,      \* the entries of the batch, and their length on the wire
    batchBytes, \* batch_bytes
    messages    \* the batches that have become messages

loopVars == <<have, ids, batch, batchBytes, messages>>
pushVars == <<kept, loopVars>>

NoEntries == [entries |-> <<>>, len |-> 0]

PushInit ==
    /\ kept = {}
    /\ have = <<>> /\ ids = <<>> /\ messages = <<>>
    /\ batch = NoEntries /\ batchBytes = 0

Size(e) == EntryLen(Ints[e], Payload[e])

Pushing == have # <<>>

-----------------------------------------------------------------------------
\* A push of the entry alone encodes.
FitsAlone(e, ttl) == Encodes(PushLen(1, Size(e), ttl))

\* create_entry, past the guard at the door.
CreateEntry(e) ==
    /\ ~Pushing
    /\ FitsAlone(e, 0)
    /\ kept' = kept \cup {e}
    /\ UNCHANGED loopVars

\* handle_push, of an entry that came in a message of a peer.  With other
\* entries, a longer ttl or a longer encoding the message was longer still.
StorePushed(e) ==
    /\ ~Pushing
    /\ Encodes(PushLen(1, Size(e), 0))
    /\ kept' = kept \cup {e}
    /\ UNCHANGED loopVars

-----------------------------------------------------------------------------
(* push_batches.                                                           *)

\* A round of a session has found entries that the peer lacks.
StartPush(lacking) ==
    /\ ~Pushing
    /\ have' = lacking /\ ids' = lacking
    /\ UNCHANGED <<kept, batch, batchBytes, messages>>

WithEntry(b, e) == [entries |-> Append(b.entries, e), len |-> b.len + Size(e)]

\* Mutant of Full: the budget is compared before the entry is counted.
FullLate(e) == batch.entries # <<>> /\ batchBytes > PushBatchBudget

Full(e) == batch.entries # <<>> /\ batchBytes + Size(e) > PushBatchBudget

\* Mutant of VisitEntry: the batch that is full is not sent.
VisitEntryDropping ==
    /\ ids # <<>>
    /\ LET e == Head(ids)
       IN  IF Full(e)
             THEN /\ batch' = WithEntry(NoEntries, e)
                  /\ batchBytes' = Size(e)
                  /\ UNCHANGED messages
             ELSE /\ batch' = WithEntry(batch, e)
                  /\ batchBytes' = batchBytes + Size(e)
                  /\ UNCHANGED messages
    /\ ids' = Tail(ids)
    /\ UNCHANGED <<kept, have>>

\* One turn of the loop.
VisitEntry ==
    /\ ids # <<>>
    /\ LET e == Head(ids)
       IN  IF Full(e)
             THEN /\ messages' = Append(messages, batch)
                  /\ batch' = WithEntry(NoEntries, e)
                  /\ batchBytes' = Size(e)
             ELSE /\ batch' = WithEntry(batch, e)
                  /\ batchBytes' = batchBytes + Size(e)
                  /\ UNCHANGED messages
    /\ ids' = Tail(ids)
    /\ UNCHANGED <<kept, have>>

\* The last batch, after the loop.
LastBatch ==
    /\ ids = <<>> /\ batch # NoEntries
    /\ messages' = Append(messages, batch)
    /\ batch' = NoEntries
    /\ batchBytes' = 0
    /\ UNCHANGED <<kept, have, ids>>

\* The messages are returned, to be sealed and sent.
Return ==
    /\ Pushing /\ ids = <<>> /\ batch = NoEntries
    /\ have' = <<>> /\ messages' = <<>>
    /\ UNCHANGED <<kept, ids, batch, batchBytes>>

PushLoop == VisitEntry \/ LastBatch \/ Return

PushNext ==
    \/ \E e \in Entries : CreateEntry(e) \/ StorePushed(e)
    \/ \E lacking \in Seq(kept) : StartPush(lacking)
    \/ PushLoop

PushSpec == PushInit /\ [][PushNext]_pushVars

-----------------------------------------------------------------------------
\* A batch is a sequence of entries and their length.
Batches == [entries : Seq(Entries), len : Nat]

\* The loop works on entries.
PushTypeOK ==
    /\ kept \subseteq Entries
    /\ have \in Seq(Entries) /\ ids \in Seq(Entries)
    /\ batch \in Batches /\ batchBytes \in Nat
    /\ messages \in Seq(Batches)

(***************************************************************************)
(* Every message that push_batches makes encodes, whatever entries the     *)
(* store took and in whatever order they are pushed ("an entry too large   *)
(* for one frame would poison every future push that includes it, so       *)
(* refuse it at the door", api/node.rs).                                   *)
(***************************************************************************)
PushesFit ==
    \A i \in DOMAIN messages :
        Encodes(PushLen(Len(messages[i].entries), messages[i].len, PushTtl))

\* The entries of all the messages ms, in order.
Joined(ms) ==
    LET upTo[i \in 0..Len(ms)] == IF i = 0 THEN <<>> ELSE upTo[i - 1] \o ms[i].entries
    IN  upTo[Len(ms)]

(***************************************************************************)
(* Batches lose nothing: what is in the messages, in the batch and still   *)
(* to be visited is, in this order, what push_batches was called with.     *)
(***************************************************************************)
PushesAll == Joined(messages) \o batch.entries \o ids = have
=============================================================================
