------------------------------- MODULE MCMesh -------------------------------
(***************************************************************************)
(* Small meshes of up to three nodes, two links and two entries.           *)
(***************************************************************************)
EXTENDS Mesh, TLC

CONSTANTS a, b, c, l1, l2

Chain == l1 :> <<a, b>> @@ l2 :> <<b, c>>
Double == l1 :> <<a, b>> @@ l2 :> <<b, a>>

NoSeed == [n \in Nodes |-> {}]
Roomy == [n \in Nodes |-> Cardinality(Entries)]

MCNetworks == {
    \* Two nodes on one link, each with a message to write.
    [topology |-> Chain, links |-> {l1}, author |-> 1 :> a @@ 2 :> b,
     seed |-> NoSeed, room |-> Roomy, lossy |-> TRUE],
    \* Three nodes in a line.
    [topology |-> Chain, links |-> {l1, l2}, author |-> 1 :> a,
     seed |-> NoSeed, room |-> Roomy, lossy |-> TRUE],
    \* Two nodes that have connected to each other.
    [topology |-> Double, links |-> {l1, l2}, author |-> 1 :> a,
     seed |-> NoSeed, room |-> Roomy, lossy |-> FALSE],
    \* Three nodes in a line; the middle one has room for one of two entries.
    [topology |-> Chain, links |-> {l1, l2}, author |-> <<>>,
     seed |-> [NoSeed EXCEPT ![a] = {1, 2}],
     room |-> [Roomy EXCEPT ![b] = 1], lossy |-> FALSE]
}
=============================================================================
