----------------------------- MODULE OrderIndex -----------------------------
(***************************************************************************)
(* The ordered index of a store (core store/order.rs): a weight-balanced   *)
(* tree that keeps, in each node, the count and the sum of the ids below   *)
(* it.  Reconciliation navigates by its ranks and takes its fingerprints   *)
(* from its sums, so a wrong summary anywhere is a wrong set difference.   *)
(*                                                                         *)
(* A tree is a nested record; the arena that holds the nodes in the code   *)
(* is left out.  Items are numbers in their total order, and the id of an  *)
(* item is a power of two, so that a sum tells which ids are in it.        *)
(***************************************************************************)
EXTENDS Integers, Sequences, FiniteSets

CONSTANTS
    NumItems,   \* the items are 0 .. NumItems - 1
    Delta,      \* DELTA
    Gamma       \* GAMMA

VARIABLES
    root,       \* the tree
    held        \* the items for which insert returned true

Seqs == INSTANCE SequencesExt

Items == 0 .. NumItems - 1
Modulus == 2 ^ NumItems
IdOf(item) == 2 ^ item
Combine(a, b) == (a + b) % Modulus
Negate(a) == (Modulus - a) % Modulus

Nil == [count |-> 0, sum |-> 0]
Weight(t) == t.count + 1

\* pull_up: a node over its two subtrees.
PullUp(item, l, r) ==
    [item |-> item, left |-> l, right |-> r,
     count |-> 1 + l.count + r.count,
     sum |-> Combine(IdOf(item), Combine(l.sum, r.sum))]

\* Mutant of RotateLeft: the new root keeps the summary it had as a child.
RotateLeftStale(t) ==
    [t.right EXCEPT !.left = PullUp(t.item, t.left, t.right.left)]

RotateLeft(t) ==
    PullUp(t.right.item, PullUp(t.item, t.left, t.right.left), t.right.right)

RotateRight(t) ==
    PullUp(t.left.item, t.left.left, PullUp(t.item, t.left.right, t.right))

\* Mutant of Balance: never a double rotation.
BalanceSingle(t) ==
    CASE Weight(t.left) * Delta < Weight(t.right) -> RotateLeft(t)
      [] Weight(t.right) * Delta < Weight(t.left) -> RotateRight(t)
      [] OTHER -> t

Balance(t) ==
    CASE Weight(t.left) * Delta < Weight(t.right) ->
            IF Weight(t.right.left) < Gamma * Weight(t.right.right)
              THEN RotateLeft(t)
              ELSE RotateLeft(PullUp(t.item, t.left, RotateRight(t.right)))
      [] Weight(t.right) * Delta < Weight(t.left) ->
            IF Weight(t.left.right) < Gamma * Weight(t.left.left)
              THEN RotateRight(t)
              ELSE RotateRight(PullUp(t.item, RotateLeft(t.left), t.right))
      [] OTHER -> t

\* insert_at; on an equal item the tree is returned as it was.
RECURSIVE InsertAt(_, _)
InsertAt(t, item) ==
    IF t = Nil THEN PullUp(item, Nil, Nil)
    ELSE IF item = t.item THEN t
    ELSE IF item < t.item
      THEN Balance(PullUp(t.item, InsertAt(t.left, item), t.right))
      ELSE Balance(PullUp(t.item, t.left, InsertAt(t.right, item)))

RECURSIVE ItemAt(_, _)
ItemAt(t, rank) ==
    CASE rank < t.left.count -> ItemAt(t.left, rank)
      [] rank = t.left.count -> t.item
      [] OTHER -> ItemAt(t.right, rank - t.left.count - 1)

RECURSIVE LowerBound(_, _)
LowerBound(t, bound) ==
    IF t = Nil THEN 0
    ELSE IF t.item < bound THEN t.left.count + 1 + LowerBound(t.right, bound)
    ELSE LowerBound(t.left, bound)

\* prefix_summary, of the first k items.
RECURSIVE PrefixSummary(_, _)
PrefixSummary(t, k) ==
    IF t = Nil \/ k = 0 THEN [count |-> 0, sum |-> 0]
    ELSE IF k <= t.left.count THEN PrefixSummary(t.left, k)
    ELSE LET rest == PrefixSummary(t.right, k - t.left.count - 1)
         IN  [count |-> t.left.count + 1 + rest.count,
              sum |-> Combine(t.left.sum, Combine(IdOf(t.item), rest.sum))]

Summary(t, lo, hi) ==
    [count |-> PrefixSummary(t, hi).count - PrefixSummary(t, lo).count,
     sum |-> Combine(PrefixSummary(t, hi).sum, Negate(PrefixSummary(t, lo).sum))]

\* iter_range: the stack holds the subtrees still to be yielded, the next on top.
RECURSIVE Seeded(_, _)
Seeded(t, rank) ==
    CASE t = Nil -> <<>>
      [] t # Nil /\ rank < t.left.count -> <<t>> \o Seeded(t.left, rank)
      [] t # Nil /\ rank = t.left.count -> <<t>>
      [] OTHER -> Seeded(t.right, rank - t.left.count - 1)

RECURSIVE LeftmostPath(_)
LeftmostPath(t) == IF t = Nil THEN <<>> ELSE <<t>> \o LeftmostPath(t.left)

\* RangeIter.next, until nothing remains.
RECURSIVE Yielded(_, _)
Yielded(stack, remaining) ==
    IF remaining = 0 \/ stack = <<>> THEN <<>>
    ELSE <<Seqs!Last(stack).item>> \o Yielded(Seqs!Front(stack) \o LeftmostPath(Seqs!Last(stack).right), remaining - 1)

IterRange(t, lo, hi) == Yielded(Seeded(t, lo), hi - lo)

IndexInit == root = Nil /\ held = {}

\* insert, of an item that is new or not; it returns whether the count grew.
Insert(item) ==
    /\ root' = InsertAt(root, item)
    /\ held' = IF root'.count > root.count THEN held \cup {item} ELSE held

-----------------------------------------------------------------------------
\* The reference: the items in order, and the sum of their ids.
Below(item) == Cardinality({i \in held : i < item})
Reference == [r \in 0 .. Cardinality(held) - 1 |-> CHOOSE i \in held : Below(i) = r]
RECURSIVE RefSum(_, _)
RefSum(lo, hi) == IF lo = hi THEN 0 ELSE IdOf(Reference[lo]) + RefSum(lo + 1, hi)

RECURSIVE Subtrees(_)
Subtrees(t) == IF t = Nil THEN {} ELSE {t} \cup Subtrees(t.left) \cup Subtrees(t.right)

Ranges == {p \in (0..root.count) \X (0..root.count) : p[1] <= p[2]}

\* The tree has a node for each item insert took, and counts them.
IndexTypeOK ==
    /\ root.count = Cardinality(held)
    /\ {t.item : t \in Subtrees(root)} = held

(***************************************************************************)
(* After any insertions no subtree is more than Delta times the weight of  *)
(* its sibling, so one rotation, single or double, at each node of the     *)
(* insertion path always suffices.                                         *)
(***************************************************************************)
Balanced ==
    /\ IndexTypeOK
    /\ \A t \in Subtrees(root) :
          /\ Weight(t.left) * Delta >= Weight(t.right)
          /\ Weight(t.right) * Delta >= Weight(t.left)

(***************************************************************************)
(* Ranks are right both ways: item_at gives the item of a rank, and        *)
(* lower_bound the rank of every bound, present or not.                    *)
(***************************************************************************)
RanksAgree ==
    /\ \A r \in DOMAIN Reference : ItemAt(root, r) = Reference[r]
    /\ \A b \in Items : LowerBound(root, b) = Below(b)

(***************************************************************************)
(* The summary of every range of ranks, from two prefixes and a            *)
(* subtraction that wraps, is the count and the id-sum of the items there. *)
(***************************************************************************)
SummariesAgree ==
    \A p \in Ranges :
        Summary(root, p[1], p[2]) = [count |-> p[2] - p[1], sum |-> RefSum(p[1], p[2])]

(***************************************************************************)
(* The iterator yields the items of every range, in order, and stops.      *)
(***************************************************************************)
RangesAgree ==
    \A p \in Ranges :
        IterRange(root, p[1], p[2]) = [k \in 1 .. p[2] - p[1] |-> Reference[p[1] + k - 1]]

(***************************************************************************)
(* Every query of the tree answers as the sorted sequence of the items     *)
(* would, whatever rotations the order of insertion has caused.            *)
(***************************************************************************)
IndexAgrees == RanksAgree /\ SummariesAgree /\ RangesAgree
=============================================================================
