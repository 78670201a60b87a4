------------------------------- MODULE MCApp -------------------------------
(***************************************************************************)
(* The instance for TLC of two parts of the apps that share no state: the  *)
(* bridge of the packet tunnel extension and the connection state of the   *)
(* Flutter app.  As in MCServerParts, each moves only while the other      *)
(* rests in one initial state.                                             *)
(***************************************************************************)
EXTENDS Bridge, VPNProvider

ProviderRests == servers = {} /\ ProviderInit

AppInit == BridgeInit /\ ProviderInit

AppNext ==
  \/ ProviderRests /\ BridgeNext /\ UNCHANGED providerVars
  \/ BridgeInit /\ ProviderNext /\ UNCHANGED bridgeVars

(* Where a part rests none of its fair actions is enabled.                 *)
AppLiveSpec ==
  /\ AppInit /\ [][AppNext]_<<bridgeVars, providerVars>>
  /\ BridgeFairness /\ ProviderFairness
=============================================================================
