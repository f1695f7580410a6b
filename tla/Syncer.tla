------------------------------- MODULE Syncer -------------------------------
(***************************************************************************)
(* The sync sessions of one end of a link (core/src/sync/session.rs), as   *)
(* operators on the state of a Syncer.                                     *)
(*                                                                         *)
(* Entries are numbered in their sort order.  The reconciliation engine is *)
(* kept as what a session learns from it: each reply of the responder      *)
(* settles a part of the difference between the two snapshots, its frame   *)
(* limit permitting all or only some of it, by naming the responder's      *)
(* entries there; the session ends when nothing is left.  With a frame     *)
(* limit the engine may also pass over the rest of the order without       *)
(* finding what differs there: a range that does not fit is dropped, and   *)
(* the two closing fingerprints match.  (The first message has the         *)
(* initiator's fingerprints: it stands for its snapshot.)  How the engine  *)
(* does that is module Negentropy.                                         *)
(***************************************************************************)
EXTENDS Integers, FiniteSets, Sequences

CONSTANTS
    MaxSessions,   \* SyncConfig.max_sessions
    FrameLimited,  \* whether SyncConfig.frame_limit is set, which it is by default
    PushBatch      \* entries per GOSSIP_PUSH, for PUSH_BATCH_BUDGET

\* Each end of a link has a session of its own beside the other's (the default
\* is 8), and a push carries at least one entry.
ASSUME SyncerAssumption ==
    /\ MaxSessions \in Nat /\ MaxSessions >= 2
    /\ FrameLimited \in BOOLEAN
    /\ PushBatch \in Nat /\ PushBatch >= 1

\* LinkRole: the initiator's sessions have even ids, the responder's odd ones.
Initiator == 0
Responder == 1

NoSessions == [s \in {} |-> 0]

\* ours and theirs: the open sessions by who opened them, sid -> session.  For the
\* properties, missed is what the last session of ours has passed over.
NewSyncer(role) ==
    [role |-> role, ours |-> NoSessions, theirs |-> NoSessions, next_sid |-> role, missed |-> {}]

OpenSessions(sy) == Cardinality(DOMAIN sy.ours) + Cardinality(DOMAIN sy.theirs)

With(f, k, v) == [x \in DOMAIN f \cup {k} |-> IF x = k THEN v ELSE f[x]]
Less(f, k) == [x \in DOMAIN f \ {k} |-> f[x]]

\* RECON_MSG is split by direction, which the id's parity tells (session_key).
ReconInit(sid, snap) == [type |-> "RECON_INIT", sid |-> sid, snap |-> snap]
ReconAsk(sid, todo)  == [type |-> "RECON_ASK", sid |-> sid, todo |-> todo]
ReconReply(sid, done, ids, todo, missed) ==
    [type |-> "RECON_REPLY", sid |-> sid, done |-> done, ids |-> ids, todo |-> todo, missed |-> missed]
ReconDone(sid)       == [type |-> "RECON_DONE", sid |-> sid]
GossipPush(es)       == [type |-> "GOSSIP_PUSH", entries |-> es]
ErrorMsg             == [type |-> "ERROR"]

-----------------------------------------------------------------------------
CanOpen(sy) == OpenSessions(sy) < MaxSessions

\* open_session: seal a snapshot of the store under the next id of our parity.
OpenSession(sy, store) ==
    [sy EXCEPT !.ours = With(@, sy.next_sid, [snap |-> store, pushed |-> {}]),
               !.next_sid = @ + 2,
               !.missed = {}]

(***************************************************************************)
(* What handling a message leads to: the syncer, the store, the messages   *)
(* to send, the sessions of ours that ended, and the error, if any, that   *)
(* closes the link.                                                        *)
(***************************************************************************)
Outcome(sy, store, replies, ended, error) ==
    [sy |-> sy, store |-> store, replies |-> replies, ended |-> ended, error |-> error]

Quietly(sy, store) == Outcome(sy, store, <<>>, {}, "none")
Fails(sy, store, error) == Outcome(sy, store, <<>>, {}, error)

\* EntryStore::insert, for one entry of a push; after a failure the rest of
\* the push is not looked at.
Insert(acc, e, room) ==
    IF acc.error # "none" \/ e \in acc.store
    THEN acc
    ELSE IF Cardinality(acc.store) >= room
         THEN [acc EXCEPT !.error = "ResourceLimit"]
         ELSE [acc EXCEPT !.store = @ \cup {e}]

\* handle_push: what was stored before a failure stays stored.
Inserted(sy, store, es, room) ==
    LET after[i \in 0..Len(es)] ==
            IF i = 0 THEN Quietly(sy, store) ELSE Insert(after[i - 1], es[i], room)
    IN  after

HandlePush(sy, store, m, room) == {Inserted(sy, store, m.entries, room)[Len(m.entries)]}

\* What a range dropped at the frame limit can hide: as all that follows it
\* matches, the upper end of what is left.
Hidden(todo) ==
    {{}} \cup IF FrameLimited THEN {{e \in todo : e >= b} : b \in todo} ELSE {}

\* What a round can do with what is left: settle a part, and pass over another.
Rounds(todo) ==
    {p \in (SUBSET todo) \X Hidden(todo) :
        p[1] \cap p[2] = {} /\ (todo # {} => p[1] \cup p[2] # {})}

\* One reply of the responder's engine: some of what is left, all at best.
Replies(sid, snap, todo) ==
    {ReconReply(sid, p[1], snap \cap p[1], todo \ (p[1] \cup p[2]), p[2] \ snap) : p \in Rounds(todo)}

\* What the engine's first pass finds to be settled.
Difference(s, t) == (s \ t) \cup (t \ s)

\* Mutant of HandleInit: a session settled by its first reply is not recorded.
HandleInitForgets(sy, store, m) ==
    IF m.sid % 2 = sy.role \/ m.sid \in DOMAIN sy.theirs
    THEN {Fails(sy, store, "Violation")}
    ELSE IF ~CanOpen(sy)
         THEN {Fails(sy, store, "ResourceLimit")}
         ELSE {Outcome(IF r.todo = {}
                       THEN sy
                       ELSE [sy EXCEPT !.theirs = With(@, m.sid, [snap |-> store])],
                       store, <<r>>, {}, "none") : r \in Replies(m.sid, store, Difference(store, m.snap))}

\* handle_init: the sender's parity, no session of that id, and the cap.
HandleInit(sy, store, m) ==
    IF m.sid % 2 = sy.role \/ m.sid \in DOMAIN sy.theirs
    THEN {Fails(sy, store, "Violation")}
    ELSE IF ~CanOpen(sy)
         THEN {Fails(sy, store, "ResourceLimit")}
         ELSE {Outcome([sy EXCEPT !.theirs = With(@, m.sid, [snap |-> store])],
                       store, <<r>>, {}, "none") : r \in Replies(m.sid, store, Difference(store, m.snap))}

\* handle_recon_msg in a session the peer opened: the engine replies.
HandleAsk(sy, store, m) ==
    IF m.sid \notin DOMAIN sy.theirs
    THEN {Fails(sy, store, "Violation")}
    ELSE {Outcome(sy, store, <<r>>, {}, "none") :
              r \in Replies(m.sid, sy.theirs[m.sid].snap, m.todo)}

\* push_batches, for entries in sort order.
InOrder(es) ==
    CHOOSE s \in [1..Cardinality(es) -> es] : \A i, j \in DOMAIN s : i < j => s[i] < s[j]

PushBatches(es) ==
    LET all == InOrder(es)
        Nth(i) == GossipPush(SubSeq(all, (i - 1) * PushBatch + 1,
                              IF i * PushBatch < Len(all) THEN i * PushBatch ELSE Len(all)))
    IN  [i \in 1..(Len(all) + PushBatch - 1) \div PushBatch |-> Nth(i)]

\* What this round shows the peer to lack and we have not pushed yet.
Have(session, m) == ((session.snap \cap m.done) \ m.ids) \ session.pushed

\* handle_recon_msg in a session of ours: push what the peer lacks, then go on
\* or, with nothing left, finish the session.
HandleReply(sy, store, m) ==
    IF m.sid \notin DOMAIN sy.ours
    THEN {Fails(sy, store, "Violation")}
    ELSE LET have == Have(sy.ours[m.sid], m)
             kept == [sy EXCEPT !.ours[m.sid].pushed = @ \cup have, !.missed = @ \cup m.missed]
             over == [sy EXCEPT !.ours = Less(@, m.sid), !.missed = @ \cup m.missed]
         IN  {IF m.todo # {}
              THEN Outcome(kept, store, PushBatches(have) \o <<ReconAsk(m.sid, m.todo)>>, {}, "none")
              ELSE Outcome(over, store, PushBatches(have) \o <<ReconDone(m.sid)>>, {m.sid}, "none")}

\* handle_done, for a session of either side.
HandleDone(sy, store, m) ==
    IF m.sid \in DOMAIN sy.theirs
    THEN {Quietly([sy EXCEPT !.theirs = Less(@, m.sid)], store)}
    ELSE IF m.sid \in DOMAIN sy.ours
         THEN {Outcome([sy EXCEPT !.ours = Less(@, m.sid)], store, <<>>, {m.sid}, "none")}
         ELSE {Fails(sy, store, "Violation")}

\* handle_message_into: the outcomes a message may have, in a store with room
\* for that many entries.
HandleMessage(sy, store, m, room) ==
    CASE m.type = "GOSSIP_PUSH" -> HandlePush(sy, store, m, room)
      [] m.type = "RECON_INIT"  -> HandleInit(sy, store, m)
      [] m.type = "RECON_ASK"   -> HandleAsk(sy, store, m)
      [] m.type = "RECON_REPLY" -> HandleReply(sy, store, m)
      [] m.type = "RECON_DONE"  -> HandleDone(sy, store, m)
=============================================================================
