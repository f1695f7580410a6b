---------------------------- MODULE IdentityStore ----------------------------
(***************************************************************************)
(* The identity of the device and the start of the process that loads it   *)
(* (android identity/IdentityStore.kt and RacnetApplication.kt).           *)
(*                                                                         *)
(* An identity is a number: generateIdentity never gives one twice.  What  *)
(* is on the disk is the envelope, sealed under the key that the Keystore  *)
(* held under KEY_ALIAS then.  persist runs only when there is no file, so *)
(* AtomicFile never has an earlier one to set aside as ".bak".             *)
(*                                                                         *)
(* Android's AtomicFile, up to API 29, writes a first file in place; later *)
(* ones write beside it and rename.  minSdk is 29.                         *)
(***************************************************************************)
EXTENDS Naturals, FiniteSets

VARIABLES
    writes,     \* how this device's AtomicFile writes, "inPlace" or "rename"
    identityFile, \* identity.bin
    alias,      \* the key under KEY_ALIAS, 0 for none
    keys,       \* how many keys the Keystore has made
    made,       \* how many identities generateIdentity has made
    losses,     \* how often the Keystore has dropped the key
    stage,      \* where RacnetApplication.onCreate is, "down" without a process
    identity,   \* the identity it works with, 0 for none
    used        \* the identities with which nodes have been opened

identityVars == <<writes, identityFile, alias, keys, made, losses, stage, identity, used>>

NoFile == [state |-> "absent", key |-> 0, identity |-> 0]
Torn == [state |-> "torn", key |-> 0, identity |-> 0]
Envelope(key, id) == [state |-> "whole", key |-> key, identity |-> id]

IdentityInit ==
    /\ writes \in {"inPlace", "rename"}
    /\ identityFile = NoFile
    /\ alias = 0 /\ keys = 0 /\ made = 0 /\ losses = 0
    /\ stage = "down" /\ identity = 0
    /\ used = {}

-----------------------------------------------------------------------------
\* key(): the key under the alias, made if there is none.  StrongBox or not
\* makes no difference to what it seals.
Key == IF alias = 0 THEN keys + 1 ELSE alias

TakeKey ==
    /\ alias' = Key
    /\ keys' = IF alias = 0 THEN keys + 1 ELSE keys

\* Any exception on the way ends in startupError; nothing is removed.
StartupFails ==
    /\ stage \in {"load", "persist", "open"}
    /\ stage' = "error" /\ identity' = 0
    /\ UNCHANGED <<writes, identityFile, alias, keys, made, losses, used>>

StartProcess ==
    /\ stage = "down"
    /\ stage' = "load"
    /\ UNCHANGED <<writes, identityFile, alias, keys, made, losses, identity, used>>

\* load, of an envelope under the key there is now: a key made just for this
\* does not open it.
LoadFile ==
    /\ stage = "load"
    /\ identityFile.state = "whole"
    /\ TakeKey
    /\ IF identityFile.key = Key
         THEN stage' = "open" /\ identity' = identityFile.identity
         ELSE stage' = "error" /\ identity' = 0
    /\ UNCHANGED <<writes, identityFile, made, losses, used>>

\* load, of a file that unwrap or the cipher refuses.
LoadTorn ==
    /\ stage = "load"
    /\ identityFile.state = "torn"
    /\ stage' = "error"
    /\ UNCHANGED <<writes, identityFile, alias, keys, made, losses, identity, used>>

Generated ==
    /\ identity' = made + 1
    /\ made' = made + 1
    /\ stage' = "persist"
    /\ UNCHANGED <<writes, identityFile, alias, keys, losses, used>>

\* Mutant of Generate: an identity that cannot be read is replaced.
GenerateAnyway ==
    /\ stage = "load" /\ (identityFile.state # "whole" \/ identityFile.key # alias)
    /\ Generated

\* loadOrCreate, when load has found no file.
Generate == stage = "load" /\ identityFile.state = "absent" /\ Generated

\* persist, up to startWrite.
StartWrite ==
    /\ stage = "persist"
    /\ TakeKey
    /\ identityFile' = IF writes = "inPlace" THEN Torn ELSE identityFile
    /\ stage' = "write"
    /\ UNCHANGED <<writes, made, losses, identity, used>>

\* write or finishWrite throws: failWrite removes what was written.
FailWrite ==
    /\ stage = "write"
    /\ identityFile' = NoFile
    /\ stage' = "error" /\ identity' = 0
    /\ UNCHANGED <<writes, alias, keys, made, losses, used>>

FinishWrite ==
    /\ stage = "write"
    /\ identityFile' = Envelope(keys, identity)
    /\ stage' = "open"
    /\ UNCHANGED <<writes, alias, keys, made, losses, identity, used>>

\* The node is opened with the identity, and _ready is set.
OpenNode ==
    /\ stage = "open"
    /\ stage' = "ready"
    /\ used' = used \cup {identity}
    /\ UNCHANGED <<writes, identityFile, alias, keys, made, losses, identity>>

\* The process ends, at any point: what was written in place stays as it is.
ProcessDies ==
    /\ stage # "down"
    /\ stage' = "down" /\ identity' = 0
    /\ UNCHANGED <<writes, identityFile, alias, keys, made, losses, used>>

\* The Keystore drops the key, as when its hardware is reset; what a write under
\* way has sealed, it has sealed with the last key made.
LoseKey ==
    /\ alias # 0
    /\ alias' = 0 /\ losses' = losses + 1
    /\ UNCHANGED <<writes, identityFile, keys, made, stage, identity, used>>

Startup ==
    \/ LoadFile \/ LoadTorn \/ Generate
    \/ StartWrite \/ FinishWrite \/ FailWrite
    \/ OpenNode \/ StartupFails

IdentityNext == StartProcess \/ Startup \/ ProcessDies \/ LoseKey

IdentitySpec == IdentityInit /\ [][IdentityNext]_identityVars

-----------------------------------------------------------------------------
Stages == {"down", "load", "persist", "write", "open", "ready", "error"}

\* The file and the fields of the start-up have their types.
IdentityTypeOK ==
    /\ writes \in {"inPlace", "rename"}
    /\ identityFile \in [state : {"absent", "torn", "whole"}, key : Nat, identity : Nat]
    /\ alias \in Nat /\ keys \in Nat /\ made \in Nat /\ losses \in Nat /\ identity \in Nat
    /\ stage \in Stages
    /\ used \subseteq Nat

(***************************************************************************)
(* The author never changes silently: all nodes this device ever opens, in *)
(* all its processes, have one identity, and it is the one on the disk,    *)
(* which stays readable as long as the Keystore keeps its key.  Processes  *)
(* die and writes fail at any step ("Unreadable identities are preserved   *)
(* and reported at startup instead of silently changing the author key").  *)
(* Where AtomicFile renames, no death leaves a file that cannot be read.   *)
(***************************************************************************)
IdentityKept ==
    /\ IdentityTypeOK
    /\ \A a, b \in used : a = b
    /\ \A a \in used : identityFile.state = "whole" /\ identityFile.identity = a
    /\ identityFile.state = "whole" /\ losses = 0 => identityFile.key = alias
    /\ identityFile.state = "torn" => writes = "inPlace"
=============================================================================
