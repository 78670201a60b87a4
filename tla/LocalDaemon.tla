---------------------------- MODULE LocalDaemon ----------------------------
(***************************************************************************)
(* The client's local daemon, client/cmd/main.go, on macOS: its handlers,  *)
(* the signal handler and the parent watchdog around one engine at a time, *)
(* with what shared/tun_darwin.go does to the routes and the DNS settings  *)
(* of the machine, which outlive the process.                              *)
(*                                                                         *)
(* Each connect makes a new VPNClient, of which TunnelLifecycle is the     *)
(* contract; the goroutine of an engine that was stopped may still be at   *)
(* work when the next one starts.  Handlers run under clientMutex, which   *)
(* only a stop holds for more than one step.  A device is closed under the *)
(* lock of its engine, c.mu, but nothing orders what two engines do to the *)
(* DNS settings: each access to the one globalPrimaryService is a step.    *)
(* Commands that the code runs may fail where the code goes on regardless, *)
(* except scutil's set.                                                    *)
(***************************************************************************)
EXTENDS Integers, FiniteSets

CONSTANT MaxClients  \* engines created, one for each connect (bound)

ASSUME DaemonAssumption == MaxClients \in Nat

VARIABLES
  client,     \* the engines
  creating,   \* how far each engine is in CreateTUN
  closing,    \* how far the Close of each engine's device is, under c.mu
  overlapped, \* one engine's override overlapped another's restore (history)
  made,       \* engines created so far
  global,     \* globalClient, 0 for nil
  mutex,      \* what clientMutex is held for
  v4, v6,     \* the engine whose device has the override routes, 0 for none
  hostRoute,  \* the route to the server through the gateway
  dns,        \* the DNS entry of the primary service
  service,    \* globalPrimaryService is set
  proc,       \* the daemon's process
  parent      \* the app that started it is alive

handlerVars == <<made, global, mutex, proc, parent>>
hostVars    == <<v4, v6, hostRoute, dns, service>>
deviceVars  == <<creating, closing, overlapped>>
daemonVars  == <<client, deviceVars, handlerVars, hostVars>>

Clients == 1 .. MaxClients
None    == 0

L(c) == INSTANCE TunnelLifecycle WITH tunnel <- client[c]

NewTunnel == [phase |-> "new", alive |-> FALSE, device |-> "none"]

DaemonInit ==
  /\ client = [c \in Clients |-> NewTunnel]
  /\ creating = [c \in Clients |-> "no"] /\ closing = creating /\ overlapped = FALSE
  /\ made = 0 /\ global = None /\ mutex = "free"
  /\ v4 = None /\ v6 = None /\ hostRoute = FALSE /\ dns = "original" /\ service = FALSE
  /\ proc = "up" /\ parent = TRUE

Step(c, states) == \E t \in states : client' = [client EXCEPT ![c] = t]

(* An engine has a device, in c.tunDev or not. *)
HasDevice(c) == creating[c] # "no" \/ client[c].device # "none"

-----------------------------------------------------------------------------
(* tun_darwin.go *)

(* How far a Close is between its look at the cached service and clearing  *)
(* it.                                                                     *)
Restoring == {"script", "restore", "clear"}

CloseAt(c, from, to) == closing[c] = from /\ closing' = [closing EXCEPT ![c] = to]

(* Faulty variant: the DNS entry is left as it is. *)
CloseSkipsDNS(c) ==
  /\ CloseAt(c, "check", "routes")
  /\ UNCHANGED <<client, creating, overlapped, handlerVars, hostVars>>

CloseChecksService(c) ==
  /\ CloseAt(c, "check", IF service THEN "script" ELSE "routes")
  /\ overlapped' = (overlapped \/ (service /\ \E d \in Clients : creating[d] = "cached"))
  /\ UNCHANGED <<client, creating, handlerVars, hostVars>>

(* The script names the service, read once more: an empty name sets nothing*)
CloseWritesScript(c) ==
  /\ CloseAt(c, "script", IF service THEN "restore" ELSE "clear")
  /\ UNCHANGED <<client, creating, overlapped, handlerVars, hostVars>>

(* The entry gets the single server "empty"; the old one was not saved. *)
RestoreDNS(c) ==
  /\ CloseAt(c, "restore", "clear")
  /\ dns' = "empty"
  /\ UNCHANGED <<client, creating, overlapped, handlerVars, v4, v6, hostRoute, service>>

ClearService(c) ==
  /\ CloseAt(c, "clear", "routes")
  /\ service' = FALSE
  /\ UNCHANGED <<client, creating, overlapped, handlerVars, v4, v6, hostRoute, dns>>

(* The end of Close: the interface goes away with its routes; the deletes  *)
(* may also hit those of another device.  The host route stays.            *)
CloseEnds(c) ==
  /\ CloseAt(c, "routes", "no")
  /\ v4' \in IF v4 = c THEN {None} ELSE {v4, None}
  /\ v6' \in IF v6 = c THEN {None} ELSE {v6, None}
  /\ UNCHANGED <<creating, overlapped, hostRoute, dns, service>>

CreateAt(c, from, to) ==
  /\ creating[c] = from /\ creating' = [creating EXCEPT ![c] = to]
  /\ UNCHANGED <<closing, handlerVars>>

CreateStarts(c) ==
  /\ L(c)!Opened # {} /\ CreateAt(c, "no", "up")
  /\ UNCHANGED <<client, overlapped, hostVars>>

CreateGivesUp(c) == CreateAt(c, "up", "no") /\ UNCHANGED <<client, overlapped, hostVars>>

(* Stale routes are deleted, whoever added them, and new ones added. *)
AddRoutes(c) ==
  /\ CreateAt(c, "up", "routed")
  /\ v4' \in {c, v4, None} /\ v6' \in {c, v6, None} /\ hostRoute' \in BOOLEAN
  /\ UNCHANGED <<client, overlapped, dns, service>>

Created(c, from) == CreateAt(c, from, "no") /\ Step(c, L(c)!Opened)

(* Without the server's address CreateTUN sets no routes. *)
SkipRoutes(c) == Created(c, "up") /\ UNCHANGED <<overlapped, hostVars>>

NoPrimaryService(c) == Created(c, "routed") /\ UNCHANGED <<overlapped, hostVars>>

CacheService(c) ==
  /\ CreateAt(c, "routed", "cached")
  /\ service' = TRUE
  /\ overlapped' = (overlapped \/ \E d \in Clients : closing[d] \in Restoring)
  /\ UNCHANGED <<client, v4, v6, hostRoute, dns>>

OverrideDNS(c) ==
  /\ Created(c, "cached")
  /\ dns' = "vpn"
  /\ UNCHANGED <<overlapped, v4, v6, hostRoute, service>>

-----------------------------------------------------------------------------
(* The rest of an engine *)

StoreDevice(c) == Step(c, L(c)!Held) /\ UNCHANGED <<deviceVars, handlerVars, hostVars>>

(* setupTUN closes the old device before it creates the next. *)
ReplaceDevice(c) ==
  /\ creating[c] = "no" /\ L(c)!Dropped # {} /\ CloseAt(c, "no", "check")
  /\ UNCHANGED <<client, creating, overlapped, handlerVars, hostVars>>

(* Faulty variant: setupTUN returns without unlocking c.mu. *)
ReplacedKeepsLock(c) ==
  /\ client[c].phase # "stopping" /\ Step(c, L(c)!Dropped)
  /\ closing[c] = "routes"
  /\ UNCHANGED <<deviceVars, handlerVars, hostVars>>

(* The Close of a device is Stop's when its engine is stopping. *)
Replaced(c) ==
  /\ client[c].phase # "stopping" /\ Step(c, L(c)!Dropped)
  /\ CloseEnds(c)
  /\ UNCHANGED handlerVars

EngineEnds(c) ==
  /\ creating[c] = "no" /\ (closing[c] # "no" => client[c].phase = "stopping")
  /\ Step(c, L(c)!Ended)
  /\ UNCHANGED <<deviceVars, handlerVars, hostVars>>

CloseStep(c) ==
  CloseChecksService(c) \/ CloseWritesScript(c) \/ RestoreDNS(c) \/ ClearService(c) \/ Replaced(c)

EngineStep(c) ==
  \/ CreateStarts(c) \/ CreateGivesUp(c) \/ AddRoutes(c) \/ SkipRoutes(c)
  \/ NoPrimaryService(c) \/ CacheService(c) \/ OverrideDNS(c)
  \/ StoreDevice(c) \/ ReplaceDevice(c) \/ CloseStep(c) \/ EngineEnds(c)

-----------------------------------------------------------------------------
(* main.go *)

(* Faulty variant: a second connect replaces the engine that runs. *)
ConnectUnchecked ==
  /\ proc # "gone" /\ mutex = "free"
  /\ made < MaxClients
  /\ made' = made + 1 /\ global' = made + 1
  /\ Step(made + 1, L(made + 1)!Started)
  /\ UNCHANGED <<deviceVars, mutex, proc, parent, hostVars>>

(* 409 when globalClient is running, which it is whenever it is not nil    *)
(* and the mutex is free.                                                  *)
HandleConnect ==
  /\ proc # "gone" /\ mutex = "free"
  /\ global = None /\ made < MaxClients
  /\ made' = made + 1 /\ global' = made + 1
  /\ Step(made + 1, L(made + 1)!Started)
  /\ UNCHANGED <<deviceVars, mutex, proc, parent, hostVars>>

(* stopVPN on behalf of handleDisconnect or of the signal handler. *)
StopVPN(for) ==
  /\ mutex = "free" /\ global # None
  /\ mutex' = for
  /\ UNCHANGED <<client, deviceVars, made, global, proc, parent, hostVars>>

HandleDisconnect == proc # "gone" /\ StopVPN("disconnect")

Signal == proc = "up" /\ StopVPN("exit")

SignalIdle ==
  /\ proc = "up" /\ mutex = "free" /\ global = None
  /\ proc' = "exiting"
  /\ UNCHANGED <<client, deviceVars, made, global, mutex, parent, hostVars>>

(* Stop waits for the c.mu of its engine, which a reconnect may hold.      *)
StopCancels ==
  /\ mutex # "free" /\ closing[global] = "no"
  /\ Step(global, L(global)!Cancelled)
  /\ UNCHANGED <<deviceVars, handlerVars, hostVars>>

StopClosesDevice ==
  /\ mutex # "free" /\ client[global].phase = "stopping" /\ client[global].device = "held"
  /\ CloseAt(global, "no", "check")
  /\ UNCHANGED <<client, creating, overlapped, handlerVars, hostVars>>

(* Faulty variant: globalClient is left set. *)
ClientKept == global

ClientAfterStop == None

StopFinishes ==
  /\ mutex # "free"
  /\ Step(global, L(global)!Released)
  /\ IF client[global].device = "held" THEN CloseEnds(global)
     ELSE UNCHANGED <<deviceVars, hostVars>>
  /\ global' = ClientAfterStop /\ mutex' = "free"
  /\ proc' = IF mutex = "exit" THEN "exiting" ELSE proc
  /\ UNCHANGED <<made, parent>>

(* os.Exit: the kernel takes the devices and their routes, not the rest. *)
Exit ==
  /\ proc' = "gone"
  /\ client' = [c \in Clients |-> NewTunnel]
  /\ creating' = [c \in Clients |-> "no"] /\ closing' = creating'
  /\ global' = None /\ mutex' = "free" /\ service' = FALSE
  /\ v4' = None /\ v6' = None
  /\ UNCHANGED <<overlapped, made, parent, hostRoute, dns>>

SignalExits == proc = "exiting" /\ Exit

ParentDies ==
  /\ parent /\ proc # "gone"
  /\ parent' = FALSE
  /\ UNCHANGED <<client, deviceVars, made, global, mutex, proc, hostVars>>

WatchdogExits == proc # "gone" /\ ~parent /\ Exit

(* log.Fatalf of the goroutine that serves the API. *)
APICrash == proc # "gone" /\ Exit

Gone == proc = "gone" /\ UNCHANGED daemonVars

-----------------------------------------------------------------------------
DaemonNext ==
  \/ HandleConnect \/ HandleDisconnect \/ Signal \/ SignalIdle
  \/ StopCancels \/ StopClosesDevice \/ StopFinishes \/ SignalExits
  \/ ParentDies \/ WatchdogExits \/ APICrash
  \/ proc # "gone" /\ \E c \in Clients : EngineStep(c)
  \/ Gone

DaemonSpec == DaemonInit /\ [][DaemonNext]_daemonVars

(* The commands that Close runs end; Go's sync.Mutex starves nobody, so    *)
(* Stop gets the c.mu that reconnects take again and again.                *)
DaemonLiveSpec ==
  /\ DaemonSpec
  /\ SF_daemonVars(StopCancels)
  /\ WF_daemonVars(StopClosesDevice \/ StopFinishes)
  /\ \A c \in Clients : WF_daemonVars(proc # "gone" /\ CloseStep(c))

-----------------------------------------------------------------------------
(* Properties *)

(* Type invariant; globalClient is nil, running, or being stopped.         *)
DaemonTypeOK ==
  /\ \A c \in Clients : client[c] \in L(c)!Tunnels
  /\ creating \in [Clients -> {"no", "up", "routed", "cached"}]
  /\ closing \in [Clients -> {"no", "check", "routes"} \cup Restoring]
  /\ overlapped \in BOOLEAN
  /\ made \in 0 .. MaxClients /\ global \in 0 .. made
  /\ mutex \in {"free", "disconnect", "exit"} /\ (mutex # "free" => global # None)
  /\ mutex = "free" /\ global # None => client[global].phase = "running"
  /\ v4 \in 0 .. made /\ v6 \in 0 .. made
  /\ hostRoute \in BOOLEAN /\ service \in BOOLEAN /\ parent \in BOOLEAN
  /\ dns \in {"original", "vpn", "empty"}
  /\ proc \in {"up", "exiting", "gone"}

(* An engine that has not been told to stop is the one in globalClient, so *)
(* a disconnect reaches it, also when connects, disconnects and a signal   *)
(* arrive together (main.go:106-116, 169-176).                             *)
OneRunning == \A c \in Clients : client[c].phase \in {"running", "stopping"} => c = global

(* While the daemon lives, the machine's DNS is overridden only if the     *)
(* service is cached and some engine has a device whose Close will restore *)
(* it, although the cached service is one variable for all devices         *)
(* (tun_darwin.go:34, 176-196, 238-245), as long as no engine's override   *)
(* (186-190) overlapped the restore of another's device (239-244).         *)
DnsOnlyWithDevice ==
  proc # "gone" /\ dns = "vpn" /\ ~overlapped => service /\ \E c \in Clients : HasDevice(c)

(* "caches the primary network service UUID so it can be restored on close"*)
(* (tun_darwin.go:33): the same, whatever overlaps.                        *)
(* The code does not keep this: README, "Disagreements".                   *)
OverrideRestorable ==
  proc # "gone" /\ dns = "vpn" => service /\ \E c \in Clients : HasDevice(c)

(* stopVPN returns, so that a disconnect is answered and the next request  *)
(* gets clientMutex, although Stop may have to wait for a reconnect that   *)
(* holds c.mu for the length of a Close, and closes the device itself      *)
(* (main.go:126-136, 169-176, client.go:137-163, 331-336).                 *)
StopReturns == mutex # "free" ~> mutex = "free"

(* "disconnected" (main.go:135): once that was answered and the engines    *)
(* have ended, no TUN device is left.                                      *)
(* The code does not keep this: README, "Disagreements".                   *)
DisconnectedMeansNoTunnel ==
  global = None /\ mutex = "free" /\ (\A c \in Clients : ~client[c].alive)
    => \A c \in Clients : ~HasDevice(c)

(* "Close closes the utun socket and removes routes" (tun_darwin.go:236).  *)
(* The code does not keep this: README, "Disagreements".                   *)
CloseRemovesRoutes ==
  proc # "gone" /\ (\A c \in Clients : ~HasDevice(c)) =>
    v4 = None /\ v6 = None /\ ~hostRoute

(* "Restore DNS" (tun_darwin.go:238), "so it can be restored on close"     *)
(* (tun_darwin.go:33).                                                     *)
(* The code does not keep this: README, "Disagreements".                   *)
CloseRestoresDNS ==
  proc # "gone" /\ (\A c \in Clients : ~HasDevice(c)) => dns = "original"

(* "Parent process %d has exited. Daemon shutting down." (main.go:81): the *)
(* daemon does not end with the machine's DNS still overridden, which      *)
(* stopVPN is called for on the other way out (main.go:66-68).             *)
(* The code does not keep this: README, "Disagreements".                   *)
ShutdownReleasesDNS == proc = "gone" /\ ~parent => dns # "vpn"
=============================================================================
