--------------------------------- MODULE App ---------------------------------
(***************************************************************************)
(* The process of the app, over all its lives: the start-up that loads the *)
(* identity and opens the node (IdentityStore) and the board (Board), which *)
(* MainActivity shows only when the start-up is done.                      *)
(***************************************************************************)
EXTENDS Board, IdentityStore

CONSTANTS
    MaxDeaths,      \* bound: how often the process ends
    MaxLosses       \* bound: how often the Keystore drops the key

ASSUME AppAssumption == MaxDeaths \in Nat /\ MaxLosses \in Nat

VARIABLE deaths     \* how often the process has ended

appVars == <<boardVars, identityVars, deaths>>

AppInit == BoardInit /\ IdentityInit /\ deaths = 0

Ready == stage = "ready"

\* RacnetApplication.onCreate in a new process.
Launch == StartProcess /\ UNCHANGED <<boardVars, deaths>>

StartupStep == Startup /\ UNCHANGED <<boardVars, deaths>>

\* The board is shown, and its saves go to the node.
Use == Ready /\ BoardInput /\ UNCHANGED <<identityVars, deaths>>

Proceed == SaveStep /\ UNCHANGED <<identityVars, deaths>>

Die ==
    /\ deaths < MaxDeaths
    /\ deaths' = deaths + 1
    /\ ProcessDies
    /\ Recreate

KeyGone == losses < MaxLosses /\ LoseKey /\ UNCHANGED <<boardVars, deaths>>

AppNext == Launch \/ StartupStep \/ Use \/ Proceed \/ Die \/ KeyGone

\* The node answers every call, and the main thread runs what is resumed.
AppSpec == AppInit /\ [][AppNext]_appVars /\ WF_appVars(Proceed)
=============================================================================
