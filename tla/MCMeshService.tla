---------------------------- MODULE MCMeshService ----------------------------
(***************************************************************************)
(* Two instances of the service one after the other and no peer in range,  *)
(* while Bluetooth goes off once; one instance with a peer, until the      *)
(* backoff has stopped growing; and two instances with a peer, of which    *)
(* the second meets what the first has left.                               *)
(***************************************************************************)
EXTENDS MeshService

MCScenarios == {
    [last |-> 2, offs |-> 1, peers |-> FALSE, time |-> 0],
    [last |-> 1, offs |-> 0, peers |-> TRUE, time |-> 5],
    [last |-> 2, offs |-> 0, peers |-> TRUE, time |-> 0]
}
=============================================================================
