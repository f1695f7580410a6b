--------------------------- MODULE DuplicateLinks ---------------------------
(***************************************************************************)
(* Two nodes with several links between them, and the rule by which each   *)
(* closes its duplicates (android policy/DuplicateLinkPolicy.kt and        *)
(* mesh/ConnectionRegistry.kt).                                            *)
(*                                                                         *)
(* Each end numbers its links as its own core opens them, so the two ends  *)
(* of a link have unrelated ids.  The end that initiated a link is         *)
(* established first; the other when the last handshake message arrives.   *)
(* An end that closes a link closes its socket, which the other end        *)
(* notices later.  A link that a core closes may first drain its last      *)
(* frames, and is listed as established for as long.                       *)
(***************************************************************************)
EXTENDS Naturals, FiniteSets

CONSTANTS
    Links,
    Initiator,     \* link -> the node that connected
    Fingerprint,   \* node -> its place in the order of fingerprints
    MaxCloses      \* bound: links that the cores close

Nodes == {"a", "b"}
Other(n) == CHOOSE m \in Nodes : m # n

ASSUME LinksAssumption ==
    /\ IsFiniteSet(Links) /\ Initiator \in [Links -> Nodes]
    /\ Fingerprint \in [Nodes -> Nat]
    /\ MaxCloses \in Nat

VARIABLES
    id,         \* node -> link -> its id there, 0 until the core opens it
    phase,      \* node -> link -> "new", "open", "established", "draining", "closed"
    lost        \* the links that a core has closed

linksVars == <<id, phase, lost>>

LinksInit ==
    /\ id = [n \in Nodes |-> [l \in Links |-> 0]]
    /\ phase = [n \in Nodes |-> [l \in Links |-> "new"]]
    /\ lost = {}

\* The ids of a node count up and are never reused.
NextId(n) == 1 + Cardinality({l \in Links : id[n][l] # 0})

\* NodeRuntime.connect or accept, then register.
Register(n, l) ==
    /\ phase[n][l] = "new"
    /\ id' = [id EXCEPT ![n][l] = NextId(n)]
    /\ phase' = [phase EXCEPT ![n][l] = "open"]
    /\ UNCHANGED lost

-----------------------------------------------------------------------------
(* DuplicateLinkPolicy.victims, for node n and its links ls to the other.  *)

WeInitiated(n, l) == Initiator[l] = n

Lowest(n, ls) == CHOOSE l \in ls : \A m \in ls : id[n][l] <= id[n][m]

\* Mutant of Keeper: the lowest id, whoever initiated the link.
KeeperLowest(n, ls) == Lowest(n, ls)

\* The link initiated by the smaller fingerprint, if there is one.
Keeper(n, ls) ==
    LET initiatedByUs == Fingerprint[n] < Fingerprint[Other(n)]
        candidates == {l \in ls : WeInitiated(n, l) = initiatedByUs}
    IN  IF candidates # {} THEN Lowest(n, candidates) ELSE Lowest(n, ls)

\* Nodes with the same fingerprint are one node, which keeps nothing.
Victims(n, ls) ==
    CASE Cardinality(ls) < 2 -> {}
      [] Cardinality(ls) >= 2 /\ Fingerprint[n] = Fingerprint[Other(n)] -> ls
      [] OTHER -> ls \ {Keeper(n, ls)}

-----------------------------------------------------------------------------
\* establishedFingerprints, which keeps a link until it is shut down.
EstablishedAt(n) == {l \in Links : phase[n][l] \in {"established", "draining"}}

\* onEstablished: the link is listed, and the victims among all the links to
\* this remote are shut down.  The initiator is first; the last message of the
\* handshake may arrive although the initiator has closed the link since.
OnEstablished(n, l) ==
    LET victims == Victims(n, EstablishedAt(n) \cup {l})
    IN  /\ phase[n][l] = "open"
        /\ phase[Other(n)][l] \in
              (IF WeInitiated(n, l) THEN {"open"} ELSE {"established", "draining", "closed"})
        /\ phase' = [phase EXCEPT ![n] =
                        [m \in Links |-> IF m \in victims THEN "closed"
                                         ELSE IF m = l THEN "established" ELSE @[m]]]
        /\ UNCHANGED <<id, lost>>

\* The core ends a link, at its lifetime or over what it received; if it has
\* a last frame for the peer the link drains first.
CoreCloses(n, l) ==
    /\ Cardinality(lost) < MaxCloses
    /\ phase[n][l] = "established"
    /\ \E s \in {"draining", "closed"} : phase' = [phase EXCEPT ![n][l] = s]
    /\ lost' = lost \cup {l}
    /\ UNCHANGED id

\* The writer has written the last frame, or has given up.
Drained(n, l) ==
    /\ phase[n][l] = "draining"
    /\ phase' = [phase EXCEPT ![n][l] = "closed"]
    /\ UNCHANGED <<id, lost>>

\* The read loop meets the last frame or the close of the other end.
RemoteClosed(n, l) ==
    /\ phase[Other(n)][l] \in {"draining", "closed"}
    /\ phase[n][l] \in {"open", "established"}
    /\ phase' = [phase EXCEPT ![n][l] = "closed"]
    /\ UNCHANGED <<id, lost>>

LinksNext ==
    \E n \in Nodes, l \in Links :
        \/ Register(n, l) \/ OnEstablished(n, l)
        \/ CoreCloses(n, l) \/ Drained(n, l) \/ RemoteClosed(n, l)

LinksSpec == LinksInit /\ [][LinksNext]_linksVars

-----------------------------------------------------------------------------
\* An id is held by one link of a node, from its registration on.
LinksTypeOK ==
    /\ lost \subseteq Links
    /\ \A n \in Nodes : \A l \in Links :
          /\ id[n][l] \in 0..Cardinality(Links)
          /\ phase[n][l] \in {"new", "open", "established", "draining", "closed"}
    /\ \A n \in Nodes : \A l, m \in Links : id[n][l] = id[n][m] /\ id[n][l] # 0 => l = m

Settled == \A n \in Nodes, l \in Links : phase[n][l] \in {"established", "closed"}

Survivors == {l \in Links : \A n \in Nodes : phase[n][l] = "established"}

\* The links that the rule prefers.
Preferred == {l \in Links : Fingerprint[Initiator[l]] <= Fingerprint[Other(Initiator[l])]}

(***************************************************************************)
(* Both ends close the same links: when all is settled the two nodes have  *)
(* one link left ("Both ends evaluate the same rule on the same inputs and *)
(* therefore close the same link", PROTOCOL 9.1.5).  Only a core can leave *)
(* them without, by closing a link that the rule prefers: a link that is   *)
(* still draining counts for the rule, and its rivals are shut down.       *)
(***************************************************************************)
OneSurvives ==
    /\ LinksTypeOK
    /\ Settled => Cardinality(Survivors) <= 1
    /\ Settled /\ Survivors = {} => lost \cap Preferred # {}
=============================================================================
