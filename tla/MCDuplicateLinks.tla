-------------------------- MODULE MCDuplicateLinks --------------------------
(* Who initiates the links, for the runs of DuplicateLinks. *)
EXTENDS DuplicateLinks

MCFingerprint == [n \in {"a", "b"} |-> IF n = "a" THEN 1 ELSE 2]

\* Crossed links; the larger fingerprint has connected twice.
MCCrossed == [l \in {1, 2, 3} |-> IF l = 1 THEN "a" ELSE "b"]

\* The same node has connected twice, to two addresses of its peer.
MCRotated == [l \in {1, 2} |-> "a"]
=============================================================================
