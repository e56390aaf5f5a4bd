-------------------------------- MODULE Bridge --------------------------------
(***************************************************************************)
(* What stands in front of the engines: the dashboard bridge               *)
(* (src/dashboard/walrusos_bridge.py), with what it keeps of who is        *)
(* online, the task board it shares with the SDK's task clients and the    *)
(* feed it polls out of the database; and the frameworks' stores.  They    *)
(* have nothing in common but the share of operations of a behaviour.      *)
(***************************************************************************)
EXTENDS Presence, TaskBoard, EventFeed, Stores

bridgeVars == <<presenceVars, boardVars, feedVars, storeVars>>
tasksOnly == <<rows, copy, child, tool, undated>>
storesOnly == <<stored, index, call, clash, done>>

BridgeInit == BudgetInit /\ PresenceInit /\ BoardInit /\ FeedInit /\ StoresInit

BridgeNext ==
  \/ PresenceNext /\ UNCHANGED <<tasksOnly, feedVars, storesOnly>>
  \/ BoardNext /\ UNCHANGED <<presenceVars, feedVars, storesOnly>>
  \/ FeedNext /\ UNCHANGED <<presenceVars, tasksOnly, storesOnly>>
  \/ StoresNext /\ UNCHANGED <<presenceVars, tasksOnly, feedVars>>

BridgeSpec == BridgeInit /\ [][BridgeNext]_bridgeVars /\ PresenceFair
==============================================================================
