----------------------------- MODULE AppProofs -----------------------------
(***************************************************************************)
(* Theorems about the two other ways an engine is driven from the client's *)
(* side: Bridge, Swift's, for any number of engines and any capacity of    *)
(* readChan, and VPNProvider, the app's, for any profiles and any number   *)
(* of calls that await at once.                                            *)
(*                                                                         *)
(* BridgeInv is inductive: types and OneBridge, with what they need of the *)
(* engine in globalClient and of the ones it has forgotten.  The type      *)
(* invariant of VPNProvider is inductive by itself.  The two modules share *)
(* no state.  The lemmas Engine* say of the contract TunnelLifecycle what  *)
(* VPNClientProofs says of it for the local daemon.                        *)
(***************************************************************************)
EXTENDS Bridge, VPNProvider, TLAPS

(* The engine of globalClient between the calls of Swift and during each:  *)
(* StartVPN makes it and starts it (client/go_bridge/api_export.go:42-71), *)
(* StopVPN stops it and forgets it (73-79), with its injected device       *)
(* closed by then.                                                         *)
Calls ==
  /\ ctl \in {"new", "injected"} => client[global].phase = "new"
  /\ ctl = "idle" /\ global # Nil => client[global].phase = "running"
  /\ ctl = "stopping" => client[global].phase = "stopping"
  /\ ctl = "stopped" => client[global].phase = "stopped" /\ ~app[global].open

(* The engines that globalClient does not name: those to come are new,     *)
(* those of earlier calls stopped, and no injected device of theirs is     *)
(* open.                                                                   *)
Orphans ==
  \A c \in Clients : c # global =>
    client[c].phase \in (IF c > made THEN {"new"} ELSE {"stopped"}) /\ ~app[c].open

(* What the bridge can see of an engine.                                   *)
Engines == [phase : {"new", "running", "stopping", "stopped"}, alive : BOOLEAN,
            device : {"none", "new", "held"}]

(* The injected devices, AppExtTUN of tun_apple.go.                        *)
Devices == [open : BOOLEAN, queued : 0 .. Capacity]

(* The inductive invariant. OneBridge needs Orphans, which StartVPN keeps  *)
(* only if it finds no engine in globalClient, and that is what Calls says *)
(* of MayStart: a globalClient that is set between calls is running.       *)
BridgeInv ==
  /\ BridgeTypeOK
  /\ client \in [Clients -> Engines]
  /\ Calls
  /\ Orphans
  /\ push.at \in {"closed", "send"} => push.dev # Nil

(* The engine that StartVPN starts was new, and runs.                      *)
LEMMA EngineStart ==
  ASSUME NEW c \in Clients, client[c] \in Engines, NEW t \in L(c)!Started
  PROVE  client[c].phase = "new" /\ t.phase = "running" /\ t \in Engines
  <1>1. client[c].phase = "new"
        /\ t = [phase |-> "running", alive |-> TRUE, device |-> client[c].device]
    BY DEF L!Started, L!To
  <1>2. client[c].device \in {"none", "new", "held"}
    BY DEF Engines
  <1>3. QED
    BY <1>1, <1>2 DEF Engines

(* Stop (client/go_core/client.go) is told to an engine that runs.         *)
LEMMA EngineCancel ==
  ASSUME NEW c \in Clients, client[c] \in Engines, NEW t \in L(c)!Cancelled
  PROVE  client[c].phase = "running" /\ t.phase = "stopping" /\ t \in Engines
  BY DEF L!Cancelled, L!To, Engines

(* Stop ends for the engine it was told to.                                *)
LEMMA EngineRelease ==
  ASSUME NEW c \in Clients, client[c] \in Engines, NEW t \in L(c)!Released
  PROVE  client[c].phase = "stopping" /\ t.phase = "stopped" /\ t \in Engines
  BY DEF L!Released, L!To, Engines

(* The goroutine of an engine never changes whether the engine runs: the   *)
(* phase is Start's and Stop's alone.                                      *)
LEMMA EngineOwn ==
  ASSUME NEW c \in Clients, client[c] \in Engines,
         NEW t \in L(c)!Dropped \cup L(c)!Opened \cup L(c)!Held \cup L(c)!Ended
  PROVE  t.phase = client[c].phase /\ t \in Engines
  <1>1. client[c].phase \in {"new", "running", "stopping", "stopped"} /\ client[c].alive \in BOOLEAN
    BY DEF Engines
  <1>2. CASE \E d \in {"none", "new", "held"} :
               t = [phase |-> client[c].phase, alive |-> client[c].alive, device |-> d]
    BY <1>1, <1>2 DEF Engines
  <1>3. CASE t \in L(c)!Ended
    BY <1>3 DEF L!Ended, L!To, Engines
  <1>4. QED
    BY <1>2, <1>3 DEF L!Dropped, L!Opened, L!Held, L!WithDevice, L!To

(* A step of one engine leaves the others alone.                           *)
LEMMA EngineMoves ==
  ASSUME client \in [Clients -> Engines], NEW c \in Clients, NEW t \in Engines,
         client' = [client EXCEPT ![c] = t]
  PROVE  /\ client' \in [Clients -> Engines]
         /\ client'[c] = t
         /\ \A d \in Clients \ {c} : client'[d] = client[d]
  OBVIOUS

(* Opening or closing an injected device (tun_apple.go:15-27, 62-66)       *)
(* leaves the others alone.                                                *)
LEMMA OpenSet ==
  ASSUME app \in [Clients -> Devices], NEW c \in Clients, NEW b \in BOOLEAN,
         app' = [app EXCEPT ![c].open = b]
  PROVE  /\ app' \in [Clients -> Devices]
         /\ app'[c].open = b
         /\ \A d \in Clients \ {c} : app'[d] = app[d]
  <1>1. app[c] \in Devices
    OBVIOUS
  <1>2. [app[c] EXCEPT !.open = b] \in Devices /\ [app[c] EXCEPT !.open = b].open = b
    BY <1>1 DEF Devices
  <1>3. app' = [app EXCEPT ![c] = [app[c] EXCEPT !.open = b]]
    OBVIOUS
  <1>4. QED
    BY <1>2, <1>3

(* Queueing a packet neither opens nor closes the device.                  *)
LEMMA QueuedSet ==
  ASSUME app \in [Clients -> Devices], NEW c \in Clients, NEW n \in 0 .. Capacity,
         app' = [app EXCEPT ![c].queued = n]
  PROVE  /\ app' \in [Clients -> Devices]
         /\ app'[c].open = app[c].open
         /\ \A d \in Clients \ {c} : app'[d] = app[d]
  <1>1. app[c] \in Devices
    OBVIOUS
  <1>2. [app[c] EXCEPT !.queued = n] \in Devices
        /\ [app[c] EXCEPT !.queued = n].open = app[c].open
    BY <1>1 DEF Devices
  <1>3. app' = [app EXCEPT ![c] = [app[c] EXCEPT !.queued = n]]
    OBVIOUS
  <1>4. QED
    BY <1>2, <1>3

(* What BridgeInv says of each variable.                                   *)
LEMMA BridgeTypes ==
  ASSUME BridgeInv
  PROVE  /\ made \in Nat /\ MaxClients \in Nat /\ Capacity \in Nat
         /\ made <= MaxClients /\ global \in 0 .. made
         /\ client \in [Clients -> Engines] /\ app \in [Clients -> Devices]
         /\ (global # Nil => global \in Clients)
         /\ (ctl # "idle" => global # Nil)
  BY BridgeAssumption DEF BridgeInv, BridgeTypeOK, Clients, Nil, Devices

(* Initially no engine was made and no call is under way.                  *)
LEMMA BridgeInitInv ==
  ASSUME BridgeInit
  PROVE  BridgeInv
  <1>1. client \in [Clients -> Engines] /\ app \in [Clients -> Devices]
    BY BridgeAssumption DEF BridgeInit, Engines, Devices
  <1>2. push \in [at : {"idle", "running", "tun", "closed", "send", "panic"}, dev : 0 .. made]
        /\ push.at = "idle"
    BY DEF BridgeInit, Nil
  <1>3. \A c \in Clients : client[c] \in L(c)!Tunnels
    BY <1>1 DEF Engines, L!Tunnels
  <1>4. BridgeTypeOK
    BY <1>1, <1>2, <1>3, BridgeAssumption DEF BridgeInit, BridgeTypeOK, Devices, Nil
  <1>5. Calls /\ Orphans
    BY BridgeAssumption DEF BridgeInit, Calls, Orphans, Nil, Clients
  <1>6. QED
    BY <1>1, <1>2, <1>4, <1>5 DEF BridgeInv

(* The steps of StartVPN and StopVPN                                       *)
(* (client/go_bridge/api_export.go:42-79). StartVPN replaces a             *)
(* globalClient only where MayStart and Calls leave nil; the others work   *)
(* on the engine of globalClient.                                          *)
LEMMA ControlInv ==
  ASSUME BridgeInv, StartNew \/ Stop \/ Control
  PROVE  BridgeInv'
  <1>t. /\ made \in Nat /\ MaxClients \in Nat /\ made <= MaxClients /\ global \in 0 .. made
        /\ client \in [Clients -> Engines] /\ app \in [Clients -> Devices]
        /\ (global # Nil => global \in Clients) /\ Nil = 0
    BY BridgeTypes DEF Nil
  <1>p. /\ UNCHANGED push
        /\ push \in [at : {"idle", "running", "tun", "closed", "send", "panic"}, dev : 0 .. made]
        /\ (push.at \in {"closed", "send"} => push.dev # Nil)
    BY DEF BridgeInv, BridgeTypeOK, StartNew, Stop, Control, SetCustomTUN, Start, Cleanup, Forget
  <1>d. SUFFICES /\ made' \in 0 .. MaxClients /\ made <= made' /\ global' \in 0 .. made'
                 /\ client' \in [Clients -> Engines] /\ app' \in [Clients -> Devices]
                 /\ ctl' \in {"idle", "new", "injected", "stopping", "stopped"}
                 /\ (ctl' # "idle" => global' # Nil)
                 /\ Calls' /\ Orphans'
    <2>1. \A c \in Clients : client'[c] \in L(c)!Tunnels'
      BY <1>d DEF Engines, L!Tunnels
    <2>2. push' \in [at : {"idle", "running", "tun", "closed", "send", "panic"}, dev : 0 .. made']
      BY <1>p, <1>d, <1>t
    <2>3. BridgeTypeOK'
      BY <1>d, <2>1, <2>2 DEF BridgeTypeOK, Calls, Devices
    <2>4. QED
      BY <1>d, <1>p, <2>3 DEF BridgeInv
  <1>1. CASE StartNew
    <2>1. global = Nil
      BY <1>1 DEF StartNew, MayStart, BridgeInv, Calls
    <2>2. made' = made + 1 /\ global' = made + 1 /\ made + 1 \in Clients
      BY <1>1, <1>t DEF StartNew, Clients
    <2>3. QED
      BY <1>1, <2>1, <2>2, <1>t DEF StartNew, BridgeInv, Calls, Orphans, Clients
  <1>2. CASE SetCustomTUN
    <2>1. global \in Clients /\ client[global].phase = "new" /\ client[global] \in Engines
      BY <1>2, <1>t, BridgeTypes DEF SetCustomTUN, BridgeInv, Calls
    <2>2. PICK t \in Engines : t.phase = "new" /\ client' = [client EXCEPT ![global] = t]
      <3>1. [client[global] EXCEPT !.device = "held"] \in Engines
        BY <2>1 DEF Engines
      <3>2. [client[global] EXCEPT !.device = "held"].phase = "new"
        BY <2>1 DEF Engines
      <3>3. client' = [client EXCEPT ![global] = [client[global] EXCEPT !.device = "held"]]
        BY <1>2 DEF SetCustomTUN
      <3>4. QED
        BY <3>1, <3>2, <3>3
    <2>3. /\ client' \in [Clients -> Engines] /\ client'[global].phase = "new"
          /\ \A d \in Clients \ {global} : client'[d] = client[d]
      BY <2>1, <2>2, <1>t, EngineMoves
    <2>4. /\ app' \in [Clients -> Devices]
          /\ \A d \in Clients \ {global} : app'[d] = app[d]
      BY <1>2, <2>1, <1>t, OpenSet DEF SetCustomTUN
    <2>5. UNCHANGED <<made, global>> /\ ctl' = "injected"
      BY <1>2 DEF SetCustomTUN
    <2>6. Orphans'
      BY <2>5, <2>3, <2>4, <1>t DEF BridgeInv, Orphans
    <2>7. QED
      BY <2>1, <2>3, <2>4, <2>5, <2>6, <1>t DEF Calls, Clients
  <1>3. CASE Start
    <2>1. global \in Clients /\ client[global] \in Engines
      BY <1>3, <1>t, BridgeTypes DEF Start
    <2>2. PICK t \in L(global)!Started : client' = [client EXCEPT ![global] = t]
      BY <1>3 DEF Start, Step
    <2>3. t \in Engines /\ t.phase = "running"
      BY <2>1, EngineStart
    <2>4. /\ client' \in [Clients -> Engines] /\ client'[global].phase = "running"
          /\ \A d \in Clients \ {global} : client'[d] = client[d]
      BY <2>1, <2>2, <2>3, <1>t, EngineMoves
    <2>5. QED
      BY <1>3, <2>1, <2>4, <1>t DEF Start, BridgeInv, Calls, Orphans
  <1>4. CASE Stop
    <2>1. global \in Clients /\ client[global] \in Engines
      BY <1>4, <1>t DEF Stop
    <2>2. PICK t \in L(global)!Cancelled : client' = [client EXCEPT ![global] = t]
      BY <1>4 DEF Stop, Step
    <2>3. t \in Engines /\ t.phase = "stopping"
      BY <2>1, EngineCancel
    <2>4. /\ client' \in [Clients -> Engines] /\ client'[global].phase = "stopping"
          /\ \A d \in Clients \ {global} : client'[d] = client[d]
      BY <2>1, <2>2, <2>3, <1>t, EngineMoves
    <2>5. QED
      BY <1>4, <2>1, <2>4, <1>t DEF Stop, BridgeInv, Calls, Orphans
  <1>5. CASE Cleanup
    <2>1. global \in Clients /\ client[global] \in Engines
      BY <1>5, <1>t, BridgeTypes DEF Cleanup
    <2>2. PICK t \in L(global)!Released : client' = [client EXCEPT ![global] = t]
      BY <1>5 DEF Cleanup, Step
    <2>3. t \in Engines /\ t.phase = "stopped"
      BY <2>1, EngineRelease
    <2>4. /\ client' \in [Clients -> Engines] /\ client'[global].phase = "stopped"
          /\ \A d \in Clients \ {global} : client'[d] = client[d]
      BY <2>1, <2>2, <2>3, <1>t, EngineMoves
    <2>5. /\ app' \in [Clients -> Devices] /\ ~app'[global].open
          /\ \A d \in Clients \ {global} : app'[d] = app[d]
      BY <1>5, <2>1, <1>t, OpenSet DEF Cleanup, Close
    <2>6. UNCHANGED <<made, global>> /\ ctl' = "stopped"
      BY <1>5 DEF Cleanup
    <2>7. Orphans'
      BY <2>6, <2>4, <2>5, <1>t DEF BridgeInv, Orphans
    <2>8. QED
      BY <2>1, <2>4, <2>5, <2>6, <2>7, <1>t DEF Calls, Clients
  <1>6. CASE Forget
    BY <1>6, <1>t, BridgeTypes DEF Forget, BridgeInv, Calls, Orphans
  <1>7. QED
    BY <1>1, <1>2, <1>3, <1>4, <1>5, <1>6 DEF Control

(* The watcher of any engine, the forgotten ones too, neither starts an    *)
(* engine nor opens an injected device.                                    *)
LEMMA WatcherInv ==
  ASSUME BridgeInv, NEW c \in Clients, Drop(c) \/ Connect(c)
  PROVE  BridgeInv'
  <1>t. /\ client \in [Clients -> Engines] /\ app \in [Clients -> Devices]
        /\ (global # Nil => global \in Clients)
    BY BridgeTypes
  <1>1. UNCHANGED <<made, global, ctl, push>>
    BY DEF Drop, Connect
  <1>2. client[c] \in Engines
    BY <1>t
  <1>3. PICK t \in Engines : t.phase = client[c].phase /\ client' = [client EXCEPT ![c] = t]
    BY <1>2, EngineOwn DEF Drop, Connect, Step
  <1>4. client' \in [Clients -> Engines] /\ \A d \in Clients : client'[d].phase = client[d].phase
    BY <1>2, <1>3, <1>t, EngineMoves
  <1>5. app' \in [Clients -> Devices] /\ \A d \in Clients : app'[d].open => app[d].open
    <2>1. CASE Drop(c)
      BY <2>1, <1>t, OpenSet DEF Drop, Close
    <2>2. CASE Connect(c)
      BY <2>2, <1>t DEF Connect
    <2>3. QED
      BY <2>1, <2>2
  <1>6. \A d \in Clients : client'[d] \in L(d)!Tunnels'
    BY <1>4 DEF Engines, L!Tunnels
  <1>7. Calls'
    BY <1>1, <1>4, <1>5, <1>t, BridgeTypes DEF BridgeInv, Calls
  <1>8. BridgeTypeOK'
    BY <1>1, <1>5, <1>6, <1>7 DEF BridgeInv, BridgeTypeOK, Calls, Devices
  <1>9. Orphans'
    BY <1>1, <1>4, <1>5 DEF BridgeInv, Orphans
  <1>10. QED
    BY <1>1, <1>4, <1>7, <1>8, <1>9 DEF BridgeInv

(* PushPacketToGo (client/go_bridge/api_export.go:81-92) adds at most one  *)
(* packet, where there is room, to a device that an engine has: readChan   *)
(* stays within its capacity whatever StartVPN and StopVPN did since the   *)
(* call began.                                                             *)
LEMMA PushInv ==
  ASSUME BridgeInv, Push
  PROVE  BridgeInv'
  <1>t. /\ client \in [Clients -> Engines] /\ app \in [Clients -> Devices]
        /\ made \in Nat /\ MaxClients \in Nat /\ made <= MaxClients /\ global \in 0 .. made
        /\ (global # Nil => global \in Clients)
    BY BridgeTypes
  <1>1. UNCHANGED <<client, made, global, ctl>>
    BY DEF Push, PushCalled, PushNil, PushIsRunning, PushGetsTUN, PushChecks, PushSends, Pushing
  <1>p. /\ push.at \in {"idle", "running", "tun", "closed", "send", "panic"} /\ push.dev \in 0 .. made
        /\ (push.at \in {"closed", "send"} => push.dev # Nil)
    BY DEF BridgeInv, BridgeTypeOK
  <1>2. \E at \in {"idle", "running", "tun", "closed", "send", "panic"}, dev \in 0 .. made :
          push' = [at |-> at, dev |-> dev] /\ (at \in {"closed", "send"} => dev # Nil)
    BY <1>t, <1>p
    DEF Push, PushCalled, PushNil, PushIsRunning, PushGetsTUN, PushChecks, PushSends, Pushing, Nil
  <1>3. /\ push' \in [at : {"idle", "running", "tun", "closed", "send", "panic"}, dev : 0 .. made']
        /\ (push'.at \in {"closed", "send"} => push'.dev # Nil)
    BY <1>1, <1>2
  <1>4. app' \in [Clients -> Devices] /\ \A d \in Clients : app'[d].open => app[d].open
    <2>1. CASE UNCHANGED app
      BY <2>1, <1>t
    <2>2. CASE app' = [app EXCEPT ![push.dev].queued = @ + 1] /\ HasRoom(push.dev) /\ push.at = "send"
      <3>1. push.dev \in Clients
        BY <2>2, <1>p, <1>t DEF Clients, Nil
      <3>2. app[push.dev].queued \in 0 .. Capacity /\ Capacity \in Nat
        BY <3>1, <1>t, BridgeTypes DEF Devices
      <3>3. app[push.dev].queued + 1 \in 0 .. Capacity
        BY <2>2, <3>2 DEF HasRoom
      <3>4. app' = [app EXCEPT ![push.dev].queued = app[push.dev].queued + 1]
        BY <2>2
      <3>5. QED
        BY <3>1, <3>3, <3>4, <1>t, QueuedSet
    <2>3. QED
      BY <2>1, <2>2
      DEF Push, PushCalled, PushNil, PushIsRunning, PushGetsTUN, PushChecks, PushSends
  <1>5. \A d \in Clients : client'[d] \in L(d)!Tunnels'
    BY <1>1, <1>t DEF Engines, L!Tunnels
  <1>6. BridgeTypeOK'
    BY <1>1, <1>3, <1>4, <1>5 DEF BridgeInv, BridgeTypeOK, Devices
  <1>7. Calls' /\ Orphans'
    BY <1>1, <1>4, <1>t, BridgeTypes DEF BridgeInv, Calls, Orphans
  <1>8. QED
    BY <1>1, <1>3, <1>6, <1>7, <1>t DEF BridgeInv

(* BridgeInv holds in every state the bridge can reach.                    *)
LEMMA BridgeInvAlways == BridgeSpec => []BridgeInv
  <1>1. BridgeInit => BridgeInv
    BY BridgeInitInv
  <1>2. BridgeInv /\ [BridgeNext]_bridgeVars => BridgeInv'
    <2>1. CASE UNCHANGED bridgeVars
      BY <2>1
      DEF bridgeVars, BridgeInv, BridgeTypeOK, Calls, Orphans, L!Tunnels
    <2>2. QED
      BY <2>1, ControlInv, WatcherInv, PushInv DEF BridgeNext
  <1>3. QED
    BY <1>1, <1>2, PTL DEF BridgeSpec

(* The types, for any number of engines and any capacity; with them, that  *)
(* an engine which is still in globalClient between two calls runs         *)
(* (client/go_bridge/api_export.go:42-79).                                 *)
THEOREM BridgeTypeCorrect == BridgeSpec => []BridgeTypeOK
  <1>1. BridgeInv => BridgeTypeOK
    BY DEF BridgeInv
  <1>2. QED
    BY <1>1, BridgeInvAlways, PTL

(* OneBridge: whatever engines of earlier calls still do, only the engine  *)
(* that StopVPN would stop runs or has its injected device open            *)
(* (client/go_bridge/api_export.go:43-79, tun_apple.go:62-66).             *)
THEOREM SingleBridge == BridgeSpec => []OneBridge
  <1>1. BridgeInv => OneBridge
    BY DEF BridgeInv, Orphans, OneBridge
  <1>2. QED
    BY <1>1, BridgeInvAlways, PTL

(* Swift's calls fit the engine. StartVPN goes ahead only when there is no *)
(* engine in globalClient, since one that is set between calls runs, and   *)
(* starts one that is new; StopVPN stops one that runs, and its Stop can   *)
(* always finish (client/go_bridge/api_export.go:42-79). A packet waits    *)
(* for the lock only while that Stop holds it, and a send never waits: the *)
(* channel is closed, or has room, or is full and the packet is dropped    *)
(* (82-92, tun_apple.go:73-83). This is the safety part of PushReturns.    *)
THEOREM BridgeCallsInTurn ==
  BridgeSpec =>
    [](/\ ctl = "idle" => (MayStart <=> global = Nil)
       /\ ctl = "idle" /\ global # Nil => L(global)!Cancelled # {}
       /\ ctl = "injected" => L(global)!Started # {}
       /\ ctl = "stopping" => L(global)!Released # {}
       /\ \A c \in Clients : client[c].phase = "stopping" => c = global /\ ctl = "stopping"
       /\ push.at = "send" => push.dev \in Clients
            /\ (~app[push.dev].open \/ HasRoom(push.dev) \/ Full(push.dev)))
  <1>1. ASSUME BridgeInv
        PROVE  /\ ctl = "idle" => (MayStart <=> global = Nil)
               /\ ctl = "idle" /\ global # Nil => L(global)!Cancelled # {}
               /\ ctl = "injected" => L(global)!Started # {}
               /\ ctl = "stopping" => L(global)!Released # {}
               /\ \A c \in Clients : client[c].phase = "stopping" => c = global /\ ctl = "stopping"
               /\ push.at = "send" => push.dev \in Clients
                    /\ (~app[push.dev].open \/ HasRoom(push.dev) \/ Full(push.dev))
    <2>1. ctl = "idle" => (MayStart <=> global = Nil)
      BY <1>1 DEF BridgeInv, Calls, MayStart
    <2>2. ctl = "idle" /\ global # Nil => L(global)!Cancelled # {}
      BY <1>1 DEF BridgeInv, Calls, L!Cancelled, L!To
    <2>3. ctl = "injected" => L(global)!Started # {}
      BY <1>1 DEF BridgeInv, Calls, L!Started, L!To
    <2>4. ctl = "stopping" => L(global)!Released # {}
      BY <1>1 DEF BridgeInv, Calls, L!Released, L!To
    <2>5. ASSUME NEW c \in Clients, client[c].phase = "stopping"
          PROVE  c = global /\ ctl = "stopping"
      <3>1. c = global
        BY <1>1, <2>5 DEF BridgeInv, Orphans
      <3>2. c # Nil
        BY DEF Clients, Nil
      <3>3. ctl \in {"idle", "new", "injected", "stopping", "stopped"}
        BY <1>1 DEF BridgeInv, BridgeTypeOK
      <3>4. QED
        BY <1>1, <2>5, <3>1, <3>2, <3>3 DEF BridgeInv, Calls
    <2>6. ASSUME push.at = "send"
          PROVE  push.dev \in Clients
                 /\ (~app[push.dev].open \/ HasRoom(push.dev) \/ Full(push.dev))
      <3>1. push.dev \in 0 .. made /\ push.dev # Nil
        BY <1>1, <2>6 DEF BridgeInv, BridgeTypeOK
      <3>2. push.dev \in Clients /\ Capacity \in Nat
        BY <1>1, <3>1, BridgeTypes DEF Clients, Nil
      <3>3. app[push.dev].queued \in 0 .. Capacity
        BY <1>1, <3>2, BridgeTypes DEF Devices
      <3>4. app[push.dev].queued < Capacity \/ app[push.dev].queued = Capacity
        BY <3>2, <3>3
      <3>5. QED
        BY <3>2, <3>4 DEF HasRoom, Full
    <2>7. QED
      BY <2>1, <2>2, <2>3, <2>4, <2>5, <2>6
  <1>2. QED
    BY <1>1, BridgeInvAlways, PTL

-----------------------------------------------------------------------------
(* The app *)

(* Where a call of connect, disconnect or selectServer can be.             *)
CallPlaces == {"free", "connect", "accepted", "refused", "disconnect", "answered", "pause"}

(* The states of the call in a slot.                                       *)
CallStates == [at : CallPlaces, to : Servers \cup {NoServer}, again : BOOLEAN]

(* Where connect is between its await and its return.                      *)
Asking == {"connect", "accepted", "refused"}

(* A continuation touches the slot of its own call.                        *)
LEMMA SetCall ==
  ASSUME call \in [Slots -> CallStates], NEW c \in Slots, NEW v \in CallStates, Set(c, v)
  PROVE  /\ call' \in [Slots -> CallStates] /\ call'[c] = v
         /\ \A d \in Slots \ {c} : call'[d] = call[d]
  BY DEF Set

(* A record of the right shape is a call's state.                          *)
LEMMA CallRecord ==
  ASSUME NEW at \in CallPlaces, NEW to \in Servers \cup {NoServer}, NEW again \in BOOLEAN
  PROVE  /\ [at |-> at, to |-> to, again |-> again] \in CallStates
         /\ [at |-> at, to |-> to, again |-> again].at = at
  BY DEF CallStates

(* A slot that is free is in a state a call can be in.                     *)
LEMMA FreeRecord == Free \in CallStates /\ Free.at = "free"
  BY CallRecord DEF Free, CallPlaces

(* A call that moves on is in a state a call can be in.                    *)
LEMMA CallMoves ==
  ASSUME NEW v \in CallStates, NEW at \in CallPlaces
  PROVE  [v EXCEPT !.at = at] \in CallStates /\ [v EXCEPT !.at = at].at = at
  BY DEF CallStates

(* A call that asks the daemon to connect is under way.                    *)
Connecting == \E c \in Slots : call[c].at \in Asking

(* What ProviderTypeOK says of each variable.                              *)
LEMMA ProviderTypes ==
  ASSUME ProviderTypeOK
  PROVE  /\ state \in {"disconnected", "connecting", "connected"}
         /\ servers \subseteq Servers /\ selected \in servers \cup {NoServer}
         /\ selected \in Servers \cup {NoServer}
         /\ timer \in BOOLEAN /\ stray \in BOOLEAN
         /\ call \in [Slots -> CallStates]
         /\ ticks \subseteq {"asked", "running", "off"}
         /\ daemon \in Servers \cup {NoServer}
         /\ (state = "connected" => timer)
         /\ (state = "connecting" => Connecting)
  BY DEF ProviderTypeOK, CallStates, CallPlaces, Connecting, Asking

(* ProviderTypeOK from its parts.                                          *)
LEMMA ProviderFrom ==
  ASSUME state' \in {"disconnected", "connecting", "connected"},
         servers' \subseteq Servers, selected' \in servers' \cup {NoServer},
         timer' \in BOOLEAN, stray' \in BOOLEAN,
         call' \in [Slots -> CallStates],
         ticks' \subseteq {"asked", "running", "off"},
         daemon' \in Servers \cup {NoServer},
         state' = "connected" => timer',
         state' = "connecting" => \E c \in Slots : call'[c].at \in Asking
  PROVE  ProviderTypeOK'
  BY DEF ProviderTypeOK, CallStates, CallPlaces, Asking

(* A call of connect stays under way if the slot that changes was not one, *)
(* or still is.                                                            *)
LEMMA SlotReplaced ==
  ASSUME call \in [Slots -> CallStates], NEW c \in Slots, NEW v \in CallStates, Set(c, v),
         call[c].at \notin Asking \/ v.at \in Asking, Connecting
  PROVE  \E d \in Slots : call'[d].at \in Asking
  BY SetCall DEF Connecting

(* connect up to its await (client/lib/vpn_provider.dart:365-377), called  *)
(* where no connect was under way in the slot: it shows "connecting" and   *)
(* asks.                                                                   *)
LEMMA ConnectsCall ==
  ASSUME ProviderTypeOK, NEW c \in Slots, call[c].at \notin Asking, Connects(c),
         UNCHANGED <<profileVars, timer, stray, ticks, daemon>>
  PROVE  ProviderTypeOK'
  <1>1. UNCHANGED <<servers, selected, timer, stray, ticks, daemon>>
    BY DEF profileVars
  <1>2. CASE state # "disconnected" \/ selected = NoServer
    <2>1. Set(c, Free) /\ UNCHANGED state
      BY <1>2 DEF Connects
    <2>2. QED
      BY <1>1, <2>1, ProviderTypes, ProviderFrom, SlotReplaced, SetCall, FreeRecord
  <1>3. CASE ~(state # "disconnected" \/ selected = NoServer)
    <2> DEFINE v == [at |-> "connect", to |-> selected, again |-> FALSE]
    <2>1. Set(c, v) /\ state' = "connecting"
      BY <1>3 DEF Connects
    <2>2. v \in CallStates /\ v.at = "connect"
      BY ProviderTypes, CallRecord DEF CallPlaces
    <2>3. call' \in [Slots -> CallStates] /\ call'[c].at \in Asking
      BY <2>1, <2>2, ProviderTypes, SetCall DEF Asking
    <2>4. QED
      BY <1>1, <2>1, <2>3, ProviderTypes, ProviderFrom
  <1>4. QED
    BY <1>2, <1>3

(* disconnect up to its await (client/lib/vpn_provider.dart:394-398) does  *)
(* not take the slot of a connect.                                         *)
LEMMA DisconnectsCall ==
  ASSUME ProviderTypeOK, NEW c \in Slots, NEW again \in BOOLEAN,
         call[c].at \notin Asking, Disconnects(c, again) \/ UNCHANGED call
  PROVE  /\ call' \in [Slots -> CallStates]
         /\ state = "connecting" => \E d \in Slots : call'[d].at \in Asking
  <1>1. CASE Disconnects(c, again)
    <2> DEFINE v == [at |-> "disconnect", to |-> NoServer, again |-> again]
    <2>1. v \in CallStates
      BY CallRecord DEF CallPlaces
    <2>2. Set(c, v)
      BY <1>1 DEF Disconnects
    <2>3. QED
      BY <2>1, <2>2, ProviderTypes, SetCall, SlotReplaced
  <1>2. CASE UNCHANGED call
    BY <1>2, ProviderTypes DEF Connecting
  <1>3. QED
    BY <1>1, <1>2

(* An answer of the daemon leaves a connect under way until its            *)
(* continuation runs.                                                      *)
LEMMA MoveCall ==
  ASSUME ProviderTypeOK, NEW c \in Slots, NEW at \in CallPlaces,
         Set(c, [call[c] EXCEPT !.at = at]), call[c].at \notin Asking \/ at \in Asking
  PROVE  /\ call' \in [Slots -> CallStates]
         /\ state = "connecting" => \E d \in Slots : call'[d].at \in Asking
  <1> DEFINE v == [call[c] EXCEPT !.at = at]
  <1>1. v \in CallStates /\ v.at = at
    BY ProviderTypes, CallMoves
  <1>2. QED
    BY <1>1, ProviderTypes, SetCall, SlotReplaced

(* What the user does, and the reconnect of selectServer half a second     *)
(* later (client/lib/vpn_provider.dart:323-416).                           *)
LEMMA UserInv ==
  ASSUME ProviderTypeOK, NEW c \in Slots,
         \/ ToggleConnection(c) \/ Reconnects(c) \/ ClearAllData(c)
         \/ \E s \in Servers : SelectServer(c, s) \/ AddServer(s) \/ RemoveServer(s)
  PROVE  ProviderTypeOK'
  <1>f. Free.at \notin Asking /\ "pause" \notin Asking
    BY DEF Free, Asking
  <1>1. CASE ToggleConnection(c)
    <2>1. CASE state = "connected"
      <3>1. Disconnects(c, FALSE) /\ UNCHANGED <<state, profileVars, timer, stray, ticks, daemon>>
        BY <1>1, <2>1 DEF ToggleConnection
      <3>2. call[c].at \notin Asking
        BY <1>1, <1>f DEF ToggleConnection
      <3>3. QED
        BY <3>1, <3>2, DisconnectsCall, ProviderTypes, ProviderFrom DEF profileVars
    <2>2. CASE state # "connected"
      BY <1>1, <1>f, <2>2, ConnectsCall DEF ToggleConnection
    <2>3. QED
      BY <2>1, <2>2
  <1>2. CASE Reconnects(c)
    BY <1>2, <1>f, ConnectsCall DEF Reconnects
  <1>3. CASE ClearAllData(c)
    <2>1. /\ servers' = {} /\ selected' = NoServer
          /\ UNCHANGED <<state, timer, stray, ticks, daemon>>
          /\ call[c].at \notin Asking /\ (Disconnects(c, FALSE) \/ UNCHANGED call)
      BY <1>3, <1>f DEF ClearAllData
    <2>2. QED
      BY <2>1, DisconnectsCall, ProviderTypes, ProviderFrom
  <1>4. ASSUME NEW s \in Servers, SelectServer(c, s)
        PROVE  ProviderTypeOK'
    <2>1. /\ s \in servers /\ selected' = s
          /\ UNCHANGED <<state, servers, timer, stray, ticks, daemon>>
          /\ call[c].at \notin Asking /\ (Disconnects(c, TRUE) \/ UNCHANGED call)
      BY <1>4, <1>f DEF SelectServer
    <2>2. QED
      BY <2>1, DisconnectsCall, ProviderTypes, ProviderFrom
  <1>5. ASSUME NEW s \in Servers, AddServer(s) \/ RemoveServer(s)
        PROVE  ProviderTypeOK'
    <2>1. servers' \subseteq Servers /\ selected' \in servers' \cup {NoServer}
      BY <1>5, ProviderTypes DEF AddServer, RemoveServer
    <2>2. UNCHANGED <<state, timer, stray, call, ticks, daemon>>
      BY <1>5 DEF AddServer, RemoveServer
    <2>3. QED
      BY <2>1, <2>2, ProviderTypes, ProviderFrom DEF Connecting
  <1>6. QED
    BY <1>1, <1>2, <1>3, <1>4, <1>5

(* The daemon's answers and the continuations after the awaits             *)
(* (client/lib/vpn_provider.dart:379-406). The one of disconnect shows     *)
(* "disconnected" when it stops the timer, and the one of connect shows    *)
(* "disconnected" or starts the timer.                                     *)
LEMMA AnswerInv ==
  ASSUME ProviderTypeOK, NEW c \in Slots,
         ConnectReturns(c) \/ DaemonConnects(c) \/ ConnectFails(c) \/ Stopping(c)
  PROVE  ProviderTypeOK'
  <1>1. CASE ConnectReturns(c)
    <2>1. Set(c, Free) /\ UNCHANGED <<servers, selected, ticks, daemon>>
      BY <1>1 DEF ConnectReturns, profileVars
    <2>2. /\ state' \in {"disconnected", "connected"} /\ (state' = "connected" => timer')
          /\ timer' \in BOOLEAN /\ stray' \in BOOLEAN
      BY <1>1, ProviderTypes DEF ConnectReturns
    <2>3. QED
      BY <2>1, <2>2, ProviderTypes, ProviderFrom, SetCall, FreeRecord
  <1>2. CASE DisconnectReturns(c)
    <2>1. /\ state' = "disconnected" /\ timer' = FALSE
          /\ UNCHANGED <<servers, selected, stray, ticks, daemon>>
      BY <1>2 DEF DisconnectReturns, profileVars
    <2>2. PICK v \in CallStates : Set(c, v)
      BY <1>2, ProviderTypes, CallMoves, FreeRecord DEF DisconnectReturns, CallPlaces
    <2>3. QED
      BY <2>1, <2>2, ProviderTypes, ProviderFrom, SetCall
  <1>3. CASE DaemonConnects(c) \/ ConnectFails(c) \/ DaemonDisconnects(c)
    <2>1. UNCHANGED <<state, servers, selected, timer, stray, ticks>>
      BY <1>3 DEF DaemonConnects, ConnectFails, DaemonDisconnects, profileVars
    <2>2. call[c] \in CallStates
      BY ProviderTypes
    <2>3. daemon' \in Servers \cup {NoServer}
      BY <1>3, <2>2, ProviderTypes DEF DaemonConnects, ConnectFails, DaemonDisconnects, CallStates
    <2>4. \E at \in CallPlaces : /\ Set(c, [call[c] EXCEPT !.at = at])
                                 /\ call[c].at \notin Asking \/ at \in Asking
      BY <1>3 DEF DaemonConnects, ConnectFails, DaemonDisconnects, CallPlaces, Asking
    <2>5. QED
      BY <2>1, <2>3, <2>4, ProviderTypes, ProviderFrom, MoveCall
  <1>4. QED
    BY <1>1, <1>2, <1>3 DEF Stopping

(* The polls (client/lib/vpn_provider.dart:419-435) and the end of the     *)
(* daemon change no state the app shows.                                   *)
LEMMA TimerInv ==
  ASSUME ProviderTypeOK,
         Tick \/ TickAnswered \/ TickSeesRunning \/ TickSeesOff \/ DaemonEnds
  PROVE  ProviderTypeOK'
  <1>1. /\ UNCHANGED <<state, servers, selected, timer, stray>>
        /\ daemon' \in Servers \cup {NoServer}
        /\ ticks' \subseteq {"asked", "running", "off"}
    BY ProviderTypes
    DEF Tick, TickAnswered, TickSeesRunning, TickSeesOff, TickTaken, DaemonEnds, profileVars
  <1>2. CASE UNCHANGED call
    BY <1>1, <1>2, ProviderTypes, ProviderFrom DEF Connecting
  <1>3. CASE call[ByTimer] = Free /\ Disconnects(ByTimer, FALSE)
    <2>1. call[ByTimer].at \notin Asking
      BY <1>3 DEF Free, Asking
    <2>2. ByTimer \in Slots
      BY ProviderAssumption DEF ByTimer, Slots
    <2>3. QED
      BY <1>1, <1>3, <2>1, <2>2, DisconnectsCall, ProviderTypes, ProviderFrom
  <1>4. QED
    BY <1>2, <1>3 DEF Tick, TickAnswered, TickSeesRunning, TickSeesOff, DaemonEnds

(* ProviderTypeOK, inductive by itself: in any order of the continuations  *)
(* and for any number of calls, an app that shows a connection polls the   *)
(* daemon, and one that shows "connecting" has a connect under way         *)
(* (client/lib/vpn_provider.dart:365-406).                                 *)
THEOREM ProviderTypeCorrect == ProviderSpec => []ProviderTypeOK
  <1>1. ProviderInit => ProviderTypeOK
    <2>1. SUFFICES ASSUME ProviderInit PROVE ProviderTypeOK
      OBVIOUS
    <2>2. call \in [Slots -> CallStates]
      BY <2>1, FreeRecord DEF ProviderInit
    <2>3. QED
      BY <2>1, <2>2 DEF ProviderInit, ProviderTypeOK, CallStates, CallPlaces
  <1>2. ProviderTypeOK /\ [ProviderNext]_providerVars => ProviderTypeOK'
    <2>1. SUFFICES ASSUME ProviderTypeOK, [ProviderNext]_providerVars PROVE ProviderTypeOK'
      OBVIOUS
    <2>2. CASE \E s \in Servers : AddServer(s) \/ RemoveServer(s)
      <3>1. ByTimer \in Slots
        BY ProviderAssumption DEF ByTimer, Slots
      <3>2. QED
        BY <2>1, <2>2, <3>1, UserInv
    <2>3. CASE UNCHANGED providerVars
      BY <2>1, <2>3 DEF providerVars, profileVars, ProviderTypeOK
    <2>4. CASE \E c \in Slots : \/ ToggleConnection(c) \/ Reconnects(c) \/ ClearAllData(c)
                                \/ \E s \in Servers : SelectServer(c, s)
      BY <2>1, <2>4, UserInv
    <2>5. QED
      BY <2>1, <2>2, <2>3, <2>4, AnswerInv, TimerInv DEF ProviderNext
  <1>3. QED
    BY <1>1, <1>2, PTL DEF ProviderSpec

(* The disconnect that a poll calls, from its await to its return.         *)
PollCalls == {[at |-> a, to |-> NoServer, again |-> FALSE] : a \in {"disconnect", "answered"}}

(* What a poll calls is a disconnect without a reconnect, so it never      *)
(* waits in connect for the administrator's password, nor half a second to *)
(* connect again, and it leaves the poll's place free for the next: the    *)
(* safety part of StoppedIsNoticed, with "connected => timer" of the type  *)
(* invariant (client/lib/vpn_provider.dart:395-406, 425-435).              *)
THEOREM PollsOnlyDisconnect == ProviderSpec => [](call[ByTimer] \in PollCalls \cup {Free})
  <1>t. ByTimer \in Slots
    BY ProviderAssumption DEF ByTimer, Slots
  <1>1. ProviderInit => call[ByTimer] \in PollCalls \cup {Free}
    BY <1>t DEF ProviderInit
  <1>2. ASSUME ProviderTypeOK, call[ByTimer] \in PollCalls \cup {Free},
               [ProviderNext]_providerVars
        PROVE  call'[ByTimer] \in PollCalls \cup {Free}
    <2>t. call \in [Slots -> CallStates]
      BY <1>2, ProviderTypes
    <2>1. CASE UNCHANGED call
      BY <1>2, <2>1
    <2>2. ASSUME NEW c \in Slots \ {ByTimer}, NEW v, Set(c, v)
          PROVE  call'[ByTimer] \in PollCalls \cup {Free}
      BY <1>2, <1>t, <2>t, <2>2 DEF Set
    <2>3. ASSUME NEW c \in Slots \ {ByTimer},
                 \/ ToggleConnection(c) \/ Reconnects(c) \/ ConnectReturns(c) \/ ClearAllData(c)
                 \/ DaemonConnects(c) \/ ConnectFails(c) \/ Stopping(c)
                 \/ \E s \in Servers : SelectServer(c, s)
          PROVE  call'[ByTimer] \in PollCalls \cup {Free}
      BY <2>1, <2>2, <2>3, Zenon
      DEF ToggleConnection, Reconnects, ConnectReturns, ClearAllData, DaemonConnects, ConnectFails,
          Stopping, DaemonDisconnects, DisconnectReturns, SelectServer, Connects, Disconnects
    <2>4. CASE Stopping(ByTimer)
      <3>1. call[ByTimer] \in PollCalls
        BY <1>2, <2>4 DEF Stopping, DaemonDisconnects, DisconnectReturns, Free
      <3>2. \/ call'[ByTimer] = [call[ByTimer] EXCEPT !.at = "answered"]
            \/ call'[ByTimer] = Free
        BY <1>t, <2>t, <2>4, <3>1
        DEF Stopping, DaemonDisconnects, DisconnectReturns, Set, PollCalls
      <3>3. QED
        BY <3>1, <3>2 DEF PollCalls
    <2>5. CASE TickSeesOff
      BY <1>2, <1>t, <2>t, <2>5 DEF TickSeesOff, Disconnects, Set, PollCalls
    <2>6. CASE \/ \E s \in Servers : AddServer(s) \/ RemoveServer(s)
               \/ Tick \/ TickAnswered \/ TickSeesRunning \/ DaemonEnds
               \/ UNCHANGED providerVars
      BY <2>1, <2>6
      DEF AddServer, RemoveServer, Tick, TickAnswered, TickSeesRunning, DaemonEnds, providerVars
    <2>7. QED
      BY <1>2, <2>3, <2>4, <2>5, <2>6 DEF ProviderNext
  <1>3. ProviderTypeOK /\ call[ByTimer] \in PollCalls \cup {Free} /\ [ProviderNext]_providerVars
          => (call[ByTimer] \in PollCalls \cup {Free})'
    BY <1>2
  <1>4. QED
    BY <1>1, <1>3, ProviderTypeCorrect, PTL DEF ProviderSpec
=============================================================================
