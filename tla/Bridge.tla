------------------------------- MODULE Bridge -------------------------------
(***************************************************************************)
(* The bridge of Apple's packet tunnel extension: the functions that       *)
(* client/go_bridge/api_export.go exports to Swift, and the device         *)
(* AppExtTUN of tun_apple.go that it injects into the engine.              *)
(*                                                                         *)
(* Swift calls StartVPN and StopVPN one at a time, and PushPacketToGo from *)
(* the packet flow's queue at any time.  globalClient has no lock, so each *)
(* mention of it in PushPacketToGo is a read of its own.  Every StartVPN   *)
(* makes an engine, of which TunnelLifecycle is the contract.  Nothing     *)
(* reads from the injected device: the engine's loops start after setupTUN *)
(* has closed it (see VPNClient).                                          *)
(***************************************************************************)
EXTENDS Integers

CONSTANTS
  MaxClients,  \* engines created, one for each StartVPN (bound)
  Capacity     \* packets that readChan holds

ASSUME BridgeAssumption == MaxClients \in Nat /\ Capacity \in Nat

VARIABLES
  client,  \* the engines
  app,     \* their injected devices: readChan is open, packets in it
  made,    \* engines created so far
  global,  \* globalClient, 0 for nil
  ctl,     \* how far StartVPN or StopVPN is
  push     \* how far PushPacketToGo is, and the device it has

bridgeVars == <<client, app, made, global, ctl, push>>

Clients == 1 .. MaxClients
Nil     == 0

L(c) == INSTANCE TunnelLifecycle WITH tunnel <- client[c]

BridgeInit ==
  /\ client = [c \in Clients |-> [phase |-> "new", alive |-> FALSE, device |-> "none"]]
  /\ app = [c \in Clients |-> [open |-> FALSE, queued |-> 0]]
  /\ made = 0 /\ global = Nil
  /\ ctl = "idle" /\ push = [at |-> "idle", dev |-> Nil]

Step(c, states) == \E t \in states : client' = [client EXCEPT ![c] = t]

(* AppExtTUN.Close, when that is the device in c.tunDev. *)
Close(c) == app' = [app EXCEPT ![c].open = FALSE]

-----------------------------------------------------------------------------
(* StartVPN; it returns -1 while an engine runs. *)

(* Faulty variant: a running engine is not looked for. *)
MayStartAlways == TRUE

MayStart == global # Nil => client[global].phase # "running"

StartNew ==
  /\ ctl = "idle" /\ MayStart /\ made < MaxClients
  /\ made' = made + 1 /\ global' = made + 1
  /\ ctl' = "new"
  /\ UNCHANGED <<client, app, push>>

SetCustomTUN ==
  /\ ctl = "new"
  /\ client' = [client EXCEPT ![global].device = "held"]
  /\ app' = [app EXCEPT ![global].open = TRUE]
  /\ ctl' = "injected"
  /\ UNCHANGED <<made, global, push>>

Start ==
  /\ ctl = "injected" /\ ctl' = "idle"
  /\ Step(global, L(global)!Started)
  /\ UNCHANGED <<app, made, global, push>>

-----------------------------------------------------------------------------
(* StopVPN *)

Stop ==
  /\ ctl = "idle" /\ global # Nil
  /\ Step(global, L(global)!Cancelled)
  /\ ctl' = "stopping"
  /\ UNCHANGED <<app, made, global, push>>

Cleanup ==
  /\ ctl = "stopping" /\ ctl' = "stopped"
  /\ Step(global, L(global)!Released) /\ Close(global)
  /\ UNCHANGED <<made, global, push>>

(* Faulty variant: globalClient is left set. *)
ForgetNothing ==
  /\ ctl = "stopped" /\ ctl' = "idle"
  /\ UNCHANGED <<client, app, made, global, push>>

Forget ==
  /\ ctl = "stopped" /\ ctl' = "idle"
  /\ global' = Nil
  /\ UNCHANGED <<client, app, made, push>>

-----------------------------------------------------------------------------
(* connectionWatcher of an engine *)

Drop(c) ==
  /\ Step(c, L(c)!Dropped) /\ Close(c)
  /\ UNCHANGED <<made, global, ctl, push>>

Connect(c) ==
  /\ Step(c, L(c)!Opened \cup L(c)!Held \cup L(c)!Ended)
  /\ UNCHANGED <<app, made, global, ctl, push>>

-----------------------------------------------------------------------------
(* PushPacketToGo *)

Pushing(at, dev) == push' = [at |-> at, dev |-> dev] /\ UNCHANGED <<client, made, global, ctl>>

PushCalled ==
  /\ push.at = "idle"
  /\ global # Nil
  /\ Pushing("running", Nil) /\ UNCHANGED app

(* A method of a nil client. *)
PushNil ==
  /\ push.at \in {"running", "tun"} /\ global = Nil
  /\ Pushing("panic", Nil) /\ UNCHANGED app

(* IsRunning, which waits for the lock that Stop holds. *)
PushIsRunning ==
  /\ push.at = "running"
  /\ global # Nil /\ client[global].phase # "stopping"
  /\ Pushing(IF client[global].phase = "running" THEN "tun" ELSE "idle", Nil)
  /\ UNCHANGED app

(* GetCustomTUN; another device is not an *AppExtTUN. *)
PushGetsTUN ==
  /\ push.at = "tun"
  /\ global # Nil /\ client[global].phase # "stopping"
  /\ IF app[global].open THEN Pushing("closed", global) ELSE Pushing("idle", Nil)
  /\ UNCHANGED app

PushChecks ==
  /\ push.at = "closed"
  /\ IF app[push.dev].open THEN Pushing("send", push.dev) ELSE Pushing("idle", Nil)
  /\ UNCHANGED app

(* Faulty variant: the send waits for room. *)
FullWaits(c) == FALSE

(* The select's default: the packet is dropped. *)
Full(c) == app[c].queued = Capacity

HasRoom(c) == app[c].queued < Capacity

PushSends ==
  /\ push.at = "send"
  /\ \/ /\ ~app[push.dev].open
        /\ Pushing("panic", Nil) /\ UNCHANGED app
     \/ /\ app[push.dev].open /\ HasRoom(push.dev)
        /\ app' = [app EXCEPT ![push.dev].queued = @ + 1]
        /\ Pushing("idle", Nil)
     \/ /\ app[push.dev].open /\ Full(push.dev)
        /\ Pushing("idle", Nil) /\ UNCHANGED app

-----------------------------------------------------------------------------
Push == PushCalled \/ PushNil \/ PushIsRunning \/ PushGetsTUN \/ PushChecks \/ PushSends

(* The rest of a StartVPN or StopVPN that has begun. *)
Control == SetCustomTUN \/ Start \/ Cleanup \/ Forget

(* A panic in any goroutine ends the process. *)
BridgeNext ==
  \/ /\ push.at # "panic"
     /\ StartNew \/ Stop \/ Control \/ Push \/ \E c \in Clients : Drop(c) \/ Connect(c)
  \/ push.at = "panic" /\ UNCHANGED bridgeVars

BridgeSpec == BridgeInit /\ [][BridgeNext]_bridgeVars

(* A call that has begun goes on: the Go scheduler and the threads of the  *)
(* extension run what is ready.                                            *)
BridgeFairness == WF_bridgeVars(push.at # "idle" /\ Push) /\ WF_bridgeVars(Control)

BridgeLiveSpec == BridgeSpec /\ BridgeFairness

-----------------------------------------------------------------------------
(* Properties *)

(* Type invariant: engines obey their contract, Swift's call has an engine *)
(* to work on while it is under way, and between calls a globalClient that *)
(* is set is one that runs (api_export.go:42-79).                          *)
BridgeTypeOK ==
  /\ made \in 0 .. MaxClients /\ global \in 0 .. made
  /\ \A c \in Clients : client[c] \in L(c)!Tunnels
  /\ app \in [Clients -> [open : BOOLEAN, queued : 0 .. Capacity]]
  /\ ctl \in {"idle", "new", "injected", "stopping", "stopped"}
  /\ push \in [at : {"idle", "running", "tun", "closed", "send", "panic"}, dev : 0 .. made]
  /\ ctl # "idle" => global # Nil
  /\ ctl = "idle" /\ global # Nil => client[global].phase = "running"

(* The engine that Swift can reach is the only one that runs or has its    *)
(* injected device open, although engines of earlier calls may still be    *)
(* setting up their tunnels (api_export.go:43-79, tun_apple.go:62-66).     *)
OneBridge ==
  \A c \in Clients : client[c].phase = "running" \/ app[c].open => c = global

(* PushPacketToGo returns, though nobody takes packets out of the channel  *)
(* and Stop may hold the lock ("Non-blocking write to avoid locking up     *)
(* Swift if Go is busy", tun_apple.go:77; api_export.go:84-89).            *)
PushReturns == push.at # "idle" ~> push.at \in {"idle", "panic"}

(* "if t.closed { return }" (tun_apple.go:74) and "if globalClient != nil  *)
(* && globalClient.IsRunning()" (api_export.go:84): a packet that comes    *)
(* while the tunnel goes down is dropped.                                  *)
(* The code does not keep this: README, "Disagreements".                   *)
PushIsSafe == push.at # "panic"
=============================================================================
