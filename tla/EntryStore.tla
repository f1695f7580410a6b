----------------------------- MODULE EntryStore -----------------------------
(***************************************************************************)
(* The store of a node (core store/mod.rs) over its ordered index, filled  *)
(* by create_entry and by the pushes of peers, and read by the windows of  *)
(* sessions: a session works on a snapshot, and pushes what its peer lacks *)
(* of it in batches.                                                       *)
(*                                                                         *)
(* An entry is its item: the sort key, and an id within the key.           *)
(***************************************************************************)
EXTENDS OrderIndex, Push

CONSTANTS
    IdsPerKey,
    MaxPushed   \* bound: sessions push from a store of at most this size

ASSUME StoreAssumption ==
    IdsPerKey \in Nat \ {0} /\ Entries = 0 .. NumItems + IdsPerKey - 1

SortKey(e) == e \div IdsPerKey
Reserved == NumItems \div IdsPerKey     \* the sort key 2^64 - 1

vars == <<root, held, pushVars>>

Init == IndexInit /\ PushInit

-----------------------------------------------------------------------------
\* insert: the reserved sort key is refused, an entry that is held ignored.
InsertEntry(e) ==
    /\ SortKey(e) # Reserved
    /\ \/ e \notin held /\ Insert(e)
       \/ e \in held /\ UNCHANGED <<root, held>>

Create(e) == InsertEntry(e) /\ CreateEntry(e)

Receive(e) == InsertEntry(e) /\ StorePushed(e)

\* Mutant of Snapshot: the bound of a key is its last item, not its first.
SnapshotLate(since, until) ==
    LET rank(key) == LowerBound(root, (key + 1) * IdsPerKey - 1)
        lo == rank(since)
        hi == rank(until)
    IN  IterRange(root, lo, IF hi > lo THEN hi ELSE lo)

\* snapshot, of the window [since, until); an item with id 0 is the bound.
Snapshot(since, until) ==
    LET rank(key) == LowerBound(root, key * IdsPerKey)
        lo == rank(since)
        hi == rank(until)
    IN  IterRange(root, lo, IF hi > lo THEN hi ELSE lo)

\* A session over a window finds that its peer lacks some of the entries.
Session(since, until) ==
    /\ Cardinality(held) <= MaxPushed
    /\ \E lacking \in SUBSET Seqs!ToSet(Snapshot(since, until)) :
          /\ lacking # {}
          /\ StartPush(SelectSeq(Snapshot(since, until), LAMBDA e : e \in lacking))
    /\ UNCHANGED <<root, held>>

Next ==
    \/ \E e \in Entries : Create(e) \/ Receive(e)
    \/ \E since, until \in 0..Reserved : Session(since, until)
    \/ PushLoop /\ UNCHANGED <<root, held>>

Spec == Init /\ [][Next]_vars

-----------------------------------------------------------------------------
(***************************************************************************)
(* A window holds exactly the entries with a sort key from since to before *)
(* until, in order: nothing if the window is empty or upside down, and all *)
(* that is stored if until is the reserved key ("naturally means           *)
(* everything from since ... without special-casing", store/mod.rs).       *)
(***************************************************************************)
WindowsAgree ==
    /\ PushTypeOK /\ kept = held
    /\ \A since, until \in 0..Reserved :
          Snapshot(since, until) =
            SelectSeq(Snapshot(0, Reserved),
                      LAMBDA e : since <= SortKey(e) /\ SortKey(e) < until)
    /\ Seqs!ToSet(Snapshot(0, Reserved)) = held

(***************************************************************************)
(* What sessions ask of the store is answered as the sorted set of its     *)
(* entries would answer: the queries of the index by which reconciliation  *)
(* navigates, and the windows that it works on.                            *)
(***************************************************************************)
QueriesAgree == IndexAgrees /\ WindowsAgree
=============================================================================
