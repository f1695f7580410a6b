-------------------------------- MODULE Mesh --------------------------------
(***************************************************************************)
(* Nodes, the links between them and the scheduling of their sync sessions *)
(* (android NodeRuntime and SyncScheduler over the core's Node, LinkDriver *)
(* and Syncer).                                                            *)
(*                                                                         *)
(* A link carries messages in order each way until either end closes it; a *)
(* closed link is never used again.  Every call into a node runs under its *)
(* mutex: one call, with the events it dispatches and the sessions it      *)
(* starts at the end, is one action.  A call to onBytes may bring any      *)
(* number of whole messages.                                               *)
(***************************************************************************)
EXTENDS Syncer

CONSTANTS
    Nodes,
    Links,
    Entries,    \* a set of integers
    Networks    \* the networks to look at, each a record of
                \*   topology: link -> <<the node that connects, the one that accepts>>
                \*   links:    the links that come up
                \*   author:   new entry -> the node that signs it
                \*   seed:     node -> the entries in its store at the start
                \*   room:     node -> entries its store may hold (MAX_ENTRIES)
                \*   lossy:    whether transports may fail

\* Every link joins two nodes, and a store starts within its limit.
ASSUME NetworksAssumption ==
    /\ Entries \subseteq Int
    /\ \A w \in Networks :
          /\ w.topology \in [Links -> Nodes \X Nodes]
          /\ w.room \in [Nodes -> Nat]
          /\ w.seed \in [Nodes -> SUBSET Entries]
          /\ \A n \in Nodes : IsFiniteSet(w.seed[n]) /\ Cardinality(w.seed[n]) <= w.room[n]

VARIABLES
    net,       \* the network, which never changes
    store,     \* node -> its entries
    ends,      \* end of a link -> [state, sy]
    chan,      \* end of a link -> messages on their way to it
    pending,   \* SyncScheduler.pending of all nodes: ends to be synced
    active,    \* SyncScheduler.active of all nodes: end -> the session started
    faults     \* what sync errors have closed links so far

vars == <<net, store, ends, chan, pending, active, faults>>

None == -1
Ends == Links \X {Initiator, Responder}
NodeOf(x) == net.topology[x[1]][x[2] + 1]
Peer(x) == <<x[1], 1 - x[2]>>

Fresh(x) == [state |-> "idle", sy |-> NewSyncer(x[2])]

Init ==
    /\ net \in Networks
    /\ store = net.seed
    /\ ends = [x \in Ends |-> Fresh(x)]
    /\ chan = [x \in Ends |-> <<>>]
    /\ pending = {}
    /\ active = [x \in Ends |-> None]
    /\ faults = {}

IsUp(x) == ends[x].state = "up"
UpAt(n) == {x \in Ends : NodeOf(x) = n /\ IsUp(x)}

\* The message that completes the responder's handshake.
Final == [type |-> "HANDSHAKE"]

-----------------------------------------------------------------------------
(***************************************************************************)
(* drainSyncsLocked, which every call ends with: start a session on each   *)
(* pending link of the node that has none active; a refused start stays    *)
(* pending.  The arguments are the state as the call leaves it.            *)
(***************************************************************************)
Startable(n, es, pend, act) ==
    {x \in pend : /\ NodeOf(x) = n
                  /\ act[x] = None
                  /\ es[x].state = "up"
                  /\ CanOpen(es[x].sy)}

Drain(n, st, es, ch, pend, act) ==
    LET go == Startable(n, es, pend, act)
    IN  /\ ends' = [x \in Ends |->
                       IF x \in go THEN [es[x] EXCEPT !.sy = OpenSession(@, st[n])] ELSE es[x]]
        /\ chan' = [x \in Ends |->
                       IF Peer(x) \in go /\ es[x].state # "closed"
                       THEN Append(ch[x], ReconInit(es[Peer(x)].sy.next_sid, st[n])) ELSE ch[x]]
        /\ pending' = pend \ go
        /\ active' = [x \in Ends |-> IF x \in go THEN es[x].sy.next_sid ELSE act[x]]
        /\ store' = st

-----------------------------------------------------------------------------
(***************************************************************************)
(* The handshake of a link has come to its last message: the connecting    *)
(* node has sent it and is established; the accepting one will be when it  *)
(* arrives.                                                                *)
(***************************************************************************)
Establish(l) ==
    LET x == <<l, Initiator>>
        y == <<l, Responder>>
    IN  /\ l \in net.links
        /\ ends[x].state = "idle"
        /\ ends[y].state = "idle"
        /\ Drain(NodeOf(x), store,
                 [ends EXCEPT ![x].state = "up", ![y].state = "handshake"],
                 [chan EXCEPT ![y] = <<Final>>],
                 pending \cup {x}, active)
        /\ UNCHANGED <<net, faults>>

\* createEntry: a new entry, announced on every established link.
CreateEntry(n, e) ==
    /\ e \in DOMAIN net.author /\ n = net.author[e]
    /\ e \notin store[n]
    /\ Cardinality(store[n]) < net.room[n]
    /\ Drain(n, [store EXCEPT ![n] = @ \cup {e}], ends, chan, pending \cup UpAt(n), active)
    /\ UNCHANGED <<net, faults>>

(***************************************************************************)
(* LinkDriver::on_bytes over one message: what it does to the end, the     *)
(* store, the frames to write and the events to dispatch.  A sync error    *)
(* closes the link with an ERROR frame; an ERROR closes it silently, which *)
(* drops the frames not written yet.  Once closed, the rest of the bytes   *)
(* is ignored.                                                             *)
(***************************************************************************)
Body(acc, m, room) ==
    IF acc.state = "closed"
    THEN {acc}
    ELSE IF m.type = "HANDSHAKE"
    THEN {[acc EXCEPT !.state = "up", !.established = TRUE]}
    ELSE IF m.type = "ERROR"
    THEN {[acc EXCEPT !.state = "closed", !.out = <<>>]}
    ELSE {[acc EXCEPT !.sy = o.sy,
                      !.store = o.store,
                      !.state = IF o.error = "none" THEN @ ELSE "closed",
                      !.out = @ \o (IF o.error = "none" THEN o.replies ELSE <<ErrorMsg>>),
                      !.ended = @ \cup o.ended,
                      !.error = o.error] :
             o \in HandleMessage(acc.sy, acc.store, m, room)}

Begun(x) ==
    [state |-> ends[x].state, sy |-> ends[x].sy, store |-> store[NodeOf(x)],
     out |-> <<>>, ended |-> {}, established |-> FALSE, error |-> "none"]

\* What may have come of a call after each of the messages on their way.
Bodies(x) ==
    LET after[i \in 0..Len(chan[x])] ==
            IF i = 0
            THEN {Begun(x)}
            ELSE UNION {Body(acc, chan[x][i], net.room[NodeOf(x)]) : acc \in after[i - 1]}
    IN  after

\* Mutant of Requested: received entries are not announced to other links.
RequestedNoRelay(x, acc) ==
    IF acc.established /\ acc.state = "up" THEN {x} ELSE {}

\* Mutant of Requested: a link that established waits for the store to grow.
RequestedOnChange(x, acc) ==
    IF acc.store # store[NodeOf(x)] THEN UpAt(NodeOf(x)) \ {x} ELSE {}

\* Mutant of Requested: a call that ends in an error announces nothing, though
\* it may have stored the first entries of a push.
RequestedOnSuccess(x, acc) ==
    IF acc.error # "none"
    THEN {}
    ELSE (IF acc.established /\ acc.state = "up" THEN {x} ELSE {})
            \cup (IF acc.store # store[NodeOf(x)] THEN UpAt(NodeOf(x)) \ {x} ELSE {})

\* The links whose sync is requested: this one when it established, all the
\* others when the store has grown, even if the call ended in an error.
Requested(x, acc) ==
    (IF acc.established /\ acc.state = "up" THEN {x} ELSE {})
        \cup (IF acc.store # store[NodeOf(x)] THEN UpAt(NodeOf(x)) \ {x} ELSE {})

\* Mutant of Freed: completed sessions stay active in the scheduler.
FreedOnClose(x, acc) ==
    [active EXCEPT ![x] = IF acc.state = "closed" THEN None ELSE @]

\* The scheduler lets go of a session that ended, and of a closed link.
Freed(x, acc) ==
    [active EXCEPT ![x] = IF acc.state = "closed" \/ @ \in acc.ended THEN None ELSE @]

\* onBytes with the first k messages on their way, and the dispatch of the
\* events: closed links leave the scheduler, ended sessions are completed.
OnBytes(x, k) ==
    LET n == NodeOf(x)
    IN  /\ ends[x].state \in {"handshake", "up"}
        /\ k \in 1..Len(chan[x])
        /\ \E acc \in Bodies(x)[k] :
             LET down == acc.state = "closed"
             IN  /\ Drain(n, [store EXCEPT ![n] = acc.store],
                          [ends EXCEPT ![x] = [state |-> acc.state,
                                               sy |-> IF down THEN NewSyncer(x[2]) ELSE acc.sy]],
                          [chan EXCEPT ![x] = IF down THEN <<>> ELSE SubSeq(@, k + 1, Len(@)),
                                       ![Peer(x)] = IF ends[Peer(x)].state = "closed"
                                                    THEN <<>> ELSE @ \o acc.out],
                          (pending \cup Requested(x, acc)) \ (IF down THEN {x} ELSE {}),
                          Freed(x, acc))
                 /\ faults' = faults \cup ({acc.error} \ {"none"})
        /\ UNCHANGED net

\* onTransportClosed: the connection is lost, or this end gave it up.
OnTransportClosed(x) ==
    /\ net.lossy \/ ends[Peer(x)].state = "closed"
    /\ ends[x].state \in {"handshake", "up"}
    /\ Drain(NodeOf(x), store,
             [ends EXCEPT ![x] = [state |-> "closed", sy |-> NewSyncer(x[2])]],
             [chan EXCEPT ![x] = <<>>],
             pending \ {x},
             [active EXCEPT ![x] = None])
    /\ UNCHANGED <<net, faults>>

\* A tick retries the starts that were refused.
Tick(n) ==
    /\ Drain(n, store, ends, chan, pending, active)
    /\ UNCHANGED <<net, faults>>

Next ==
    \/ \E l \in Links : Establish(l)
    \/ \E n \in Nodes, e \in Entries : CreateEntry(n, e)
    \/ \E x \in Ends : \E k \in 1..Len(chan[x]) : OnBytes(x, k)
    \/ \E x \in Ends : OnTransportClosed(x)
    \/ \E n \in Nodes : Tick(n)

Spec == Init /\ [][Next]_vars

(***************************************************************************)
(* Fairness: a transport that stays open delivers, and its reader thread   *)
(* passes on what arrives; a connection gone at one end is noticed at the  *)
(* other.  No entry need be created and no link opened.                    *)
(***************************************************************************)
Notice(x) == ends[Peer(x)].state = "closed" /\ OnTransportClosed(x)

FairSpec ==
    /\ Spec
    /\ \A x \in Ends : WF_vars(\E k \in 1..Len(chan[x]) : OnBytes(x, k))
    /\ \A x \in Ends : WF_vars(Notice(x))

-----------------------------------------------------------------------------
\* Stores, channels and sessions have their types: an end opens sessions of
\* its own parity only (session_key).
TypeOK ==
    /\ store \in [Nodes -> SUBSET Entries]
    /\ \A x \in Ends :
        /\ ends[x].state \in {"idle", "handshake", "up", "closed"}
        /\ ends[x].sy.next_sid \in Nat
        /\ \A sid \in DOMAIN ends[x].sy.ours : sid \in Nat /\ sid % 2 = x[2]
        /\ \A sid \in DOMAIN ends[x].sy.theirs : sid \in Nat /\ sid % 2 # x[2]
        /\ active[x] \in {None} \cup Nat
    /\ pending \subseteq Ends

BothUp(l) == IsUp(<<l, Initiator>>) /\ IsUp(<<l, Responder>>)
StoreAt(x) == store[NodeOf(x)]
Missed(x) == ends[x].sy.missed

(***************************************************************************)
(* Correct peers never trip each other's checks: whatever the interleaving *)
(* of the two directions, no session message meets a session that is not   *)
(* there, and no link is closed for having too many.  A store that is full *)
(* is the only sync error there is.                                        *)
(***************************************************************************)
NoSyncFaults ==
    /\ TypeOK
    /\ "Violation" \notin faults
    /\ "ResourceLimit" \in faults => \E n \in Nodes : Cardinality(store[n]) = net.room[n]

(***************************************************************************)
(* The scheduler and the core agree on which session runs: a session the   *)
(* scheduler holds active is open in the core, and the other way round, so *)
(* no finished or lost session keeps a link from being synced again.       *)
(***************************************************************************)
ActiveIsOpen ==
    \A x \in Ends :
        DOMAIN ends[x].sy.ours = (IF active[x] = None THEN {} ELSE {active[x]})

(***************************************************************************)
(* No change is forgotten, whatever arrived or was created while earlier   *)
(* sessions worked on their snapshots: on a link with nothing on its way   *)
(* and no session running, an end lacks an entry of the other only if the  *)
(* engine passed over it in the other's last session, which takes a frame  *)
(* limit; without one the two have the same entries.                       *)
(***************************************************************************)
SettledLinksAgree ==
    \A l \in Links :
        LET x == <<l, Initiator>>
            y == <<l, Responder>>
        IN  BothUp(l) /\ chan[x] = <<>> /\ chan[y] = <<>> /\ active[x] = None /\ active[y] = None
                => /\ StoreAt(x) \ StoreAt(y) \subseteq Missed(x)
                   /\ StoreAt(y) \ StoreAt(x) \subseteq Missed(y)
                   /\ ~FrameLimited => StoreAt(x) = StoreAt(y)

(***************************************************************************)
(* Entries relay: what one end of a link holds, the other end comes to     *)
(* hold, as long as the link lasts and no session passes over it at the    *)
(* frame limit.  Over several links this carries an entry to every node    *)
(* reached ("supporting eventual relay", ADR 0017).                        *)
(***************************************************************************)
EntriesSpread ==
    \A l \in Links, e \in Entries :
        LET both == {<<l, Initiator>>, <<l, Responder>>}
        IN  (BothUp(l) /\ \E x \in both : e \in StoreAt(x))
                ~> (~BothUp(l) \/ \A x \in both : e \in StoreAt(x) \/ e \in Missed(Peer(x)))
=============================================================================
