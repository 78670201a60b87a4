---------------------------- MODULE VPNProvider ----------------------------
(***************************************************************************)
(* The app's connection state, client/lib/vpn_provider.dart, on top of     *)
(* services/daemon_service.dart.  Dart runs one continuation at a time, so *)
(* a step here goes from one await to the next; a call that awaits the     *)
(* daemon has a slot of its own, and any other code may run before its     *)
(* continuation does.                                                      *)
(*                                                                         *)
(* Of the local daemon there is only whether an engine is running and for  *)
(* which server: that is what /connect, /disconnect and /status read and   *)
(* write.  The user list, the graphs and the API key that a status brings  *)
(* are left out.                                                           *)
(***************************************************************************)
EXTENDS Integers

CONSTANTS
  Servers,  \* the profiles that may be added
  NoServer, \* null
  MaxCalls  \* calls of the user that await at once (bound)

ASSUME ProviderAssumption == NoServer \notin Servers /\ MaxCalls \in Nat

VARIABLES
  state,              \* _state
  servers, selected,  \* _servers, _selectedServer
  timer, stray,       \* _sessionTimer; a running timer that it has forgotten
  call,               \* the calls of connect, disconnect and selectServer
  ticks,              \* the polls of the timers that await their status
  daemon              \* the server that the daemon's engine is for

profileVars  == <<servers, selected>>
providerVars == <<state, profileVars, timer, stray, call, ticks, daemon>>

(* Slot 0 is for the disconnect that a timer calls. *)
ByTimer == 0
Slots   == 0 .. MaxCalls

Free == [at |-> "free", to |-> NoServer, again |-> FALSE]

ProviderInit ==
  /\ state = "disconnected"
  /\ servers \in SUBSET Servers
  /\ selected \in servers \cup {NoServer} /\ (servers # {} => selected # NoServer)
  /\ timer = FALSE /\ stray = FALSE
  /\ call = [c \in Slots |-> Free] /\ ticks = {}
  /\ daemon = NoServer

Set(c, v) == call' = [call EXCEPT ![c] = v]

-----------------------------------------------------------------------------
(* connect and disconnect, up to their await and after it *)

Connects(c) ==
  IF state # "disconnected" \/ selected = NoServer
  THEN Set(c, Free) /\ UNCHANGED state
  ELSE Set(c, [at |-> "connect", to |-> selected, again |-> FALSE]) /\ state' = "connecting"

Disconnects(c, again) == Set(c, [at |-> "disconnect", to |-> NoServer, again |-> again])

(* Faulty variant: the state is not reset when the daemon refuses. *)
ConnectReturnsNoReset(c) ==
  /\ call[c].at \in {"accepted", "refused"}
  /\ Set(c, Free)
  /\ IF call[c].at = "accepted"
     THEN state' = "connected" /\ timer' = TRUE /\ stray' = (stray \/ timer)
     ELSE UNCHANGED <<state, timer, stray>>
  /\ UNCHANGED <<profileVars, ticks, daemon>>

(* _startSessionMetrics does not look at the timer that it replaces. *)
ConnectReturns(c) ==
  /\ call[c].at \in {"accepted", "refused"}
  /\ Set(c, Free)
  /\ IF call[c].at = "accepted"
     THEN state' = "connected" /\ timer' = TRUE /\ stray' = (stray \/ timer)
     ELSE state' = "disconnected" /\ UNCHANGED <<timer, stray>>
  /\ UNCHANGED <<profileVars, ticks, daemon>>

(* The state is not looked at again after the await. *)
DisconnectReturns(c) ==
  /\ call[c].at = "answered"
  /\ Set(c, IF call[c].again THEN [call[c] EXCEPT !.at = "pause"] ELSE Free)
  /\ state' = "disconnected" /\ timer' = FALSE
  /\ UNCHANGED <<profileVars, stray, ticks, daemon>>

-----------------------------------------------------------------------------
(* The user *)

ToggleConnection(c) ==
  /\ call[c] = Free
  /\ IF state = "connected" THEN Disconnects(c, FALSE) /\ UNCHANGED state
     ELSE state = "disconnected" /\ Connects(c)
  /\ UNCHANGED <<profileVars, timer, stray, ticks, daemon>>

SelectServer(c, s) ==
  /\ s \in servers /\ call[c] = Free
  /\ selected' = s
  /\ IF state = "connected" THEN Disconnects(c, TRUE) ELSE UNCHANGED call
  /\ UNCHANGED <<state, servers, timer, stray, ticks, daemon>>

(* selectServer connects again half a second after it has disconnected. *)
Reconnects(c) ==
  /\ call[c].at = "pause"
  /\ Connects(c)
  /\ UNCHANGED <<profileVars, timer, stray, ticks, daemon>>

AddServer(s) ==
  /\ s \notin servers
  /\ servers' = servers \cup {s}
  /\ selected' = IF selected = NoServer THEN s ELSE selected
  /\ UNCHANGED <<state, timer, stray, call, ticks, daemon>>

(* A connection to the server that is removed stays. *)
RemoveServer(s) ==
  /\ s \in servers
  /\ servers' = servers \ {s}
  /\ IF selected # s THEN UNCHANGED selected
     ELSE IF servers' = {} THEN selected' = NoServer ELSE selected' \in servers'
  /\ UNCHANGED <<state, timer, stray, call, ticks, daemon>>

ClearAllData(c) ==
  /\ call[c] = Free
  /\ servers' = {} /\ selected' = NoServer
  /\ IF state = "connected" THEN Disconnects(c, FALSE) ELSE UNCHANGED call
  /\ UNCHANGED <<state, timer, stray, ticks, daemon>>

-----------------------------------------------------------------------------
(* The timer.  ticks is a set, so one element may stand for several polls; *)
(* two polls that disconnect at once share a slot, one after the other.    *)

TickTaken(a) == ticks' \in {ticks, ticks \ {a}}

Tick ==
  /\ timer \/ stray
  /\ ticks' = ticks \cup {"asked"}
  /\ UNCHANGED <<state, profileVars, timer, stray, call, daemon>>

(* A status that takes two seconds counts as not running. *)
TickAnswered ==
  /\ "asked" \in ticks
  /\ \E rest \in {ticks, ticks \ {"asked"}} :
       \/ daemon # NoServer /\ ticks' = rest \cup {"running"}
       \/ ticks' = rest \cup {"off"}
  /\ UNCHANGED <<state, profileVars, timer, stray, call, daemon>>

TickSeesRunning ==
  /\ "running" \in ticks /\ TickTaken("running")
  /\ UNCHANGED <<state, profileVars, timer, stray, call, daemon>>

(* Faulty variant: the timer stops polling a daemon that is gone. *)
TickSeesOffAndStops ==
  /\ "off" \in ticks /\ TickTaken("off")
  /\ timer' = (timer /\ state # "connected")
  /\ UNCHANGED <<state, profileVars, stray, call, daemon>>

TickSeesOff ==
  /\ "off" \in ticks /\ TickTaken("off")
  /\ IF state = "connected"
     THEN call[ByTimer] = Free /\ Disconnects(ByTimer, FALSE)
     ELSE UNCHANGED call
  /\ UNCHANGED <<state, profileVars, timer, stray, daemon>>

-----------------------------------------------------------------------------
(* The daemon *)

(* 200 when no engine runs, 409 otherwise. *)
DaemonConnects(c) ==
  /\ call[c].at = "connect"
  /\ Set(c, [call[c] EXCEPT !.at = IF daemon = NoServer THEN "accepted" ELSE "refused"])
  /\ daemon' = IF daemon = NoServer THEN call[c].to ELSE daemon
  /\ UNCHANGED <<state, profileVars, timer, stray, ticks>>

(* ensureDaemonRunning throws, or the daemon rejects the request. *)
ConnectFails(c) ==
  /\ call[c].at = "connect"
  /\ Set(c, [call[c] EXCEPT !.at = "refused"])
  /\ UNCHANGED <<state, profileVars, timer, stray, ticks, daemon>>

DaemonDisconnects(c) ==
  /\ call[c].at = "disconnect"
  /\ Set(c, [call[c] EXCEPT !.at = "answered"])
  /\ daemon' = NoServer
  /\ UNCHANGED <<state, profileVars, timer, stray, ticks>>

DaemonEnds ==
  /\ daemon # NoServer /\ daemon' = NoServer
  /\ UNCHANGED <<state, profileVars, timer, stray, call, ticks>>

-----------------------------------------------------------------------------
Stopping(c) == DaemonDisconnects(c) \/ DisconnectReturns(c)

ProviderNext ==
  \/ \E c \in Slots \ {ByTimer} :
       \/ ToggleConnection(c) \/ Reconnects(c) \/ ConnectReturns(c) \/ ClearAllData(c)
       \/ DaemonConnects(c) \/ ConnectFails(c)
       \/ \E s \in Servers : SelectServer(c, s)
  \/ \E s \in Servers : AddServer(s) \/ RemoveServer(s)
  \/ \E c \in Slots : Stopping(c)
  \/ Tick \/ TickAnswered \/ TickSeesRunning \/ TickSeesOff \/ DaemonEnds

ProviderSpec == ProviderInit /\ [][ProviderNext]_providerVars

(* A timer fires, a status is answered or times out, the daemon answers a  *)
(* disconnect, and continuations run.  Nothing is assumed of connect: it   *)
(* may wait for the administrator's password.                              *)
ProviderFairness ==
  /\ WF_providerVars(Tick) /\ WF_providerVars(TickAnswered) /\ WF_providerVars(TickSeesOff)
  /\ \A c \in Slots : WF_providerVars(Stopping(c))

ProviderLiveSpec == ProviderSpec /\ ProviderFairness

-----------------------------------------------------------------------------
(* Properties *)

(* Type invariant: while the app shows a connection its timer polls the    *)
(* daemon, and while it shows "connecting" a call of connect is under way, *)
(* in whatever order the continuations run (vpn_provider.dart:365-406).    *)
ProviderTypeOK ==
  /\ state \in {"disconnected", "connecting", "connected"}
  /\ servers \subseteq Servers /\ selected \in servers \cup {NoServer}
  /\ timer \in BOOLEAN /\ stray \in BOOLEAN
  /\ call \in [Slots -> [at : {"free", "connect", "accepted", "refused",
                               "disconnect", "answered", "pause"},
                         to : Servers \cup {NoServer}, again : BOOLEAN]]
  /\ ticks \subseteq {"asked", "running", "off"}
  /\ daemon \in Servers \cup {NoServer}
  /\ state = "connected" => timer
  /\ state = "connecting" => \E c \in Slots : call[c].at \in {"connect", "accepted", "refused"}

(* A daemon that died or was told to stop by someone else is noticed: the  *)
(* app does not go on showing a connection (vpn_provider.dart:425-435).    *)
StoppedIsNoticed ==
  state = "connected" /\ daemon = NoServer ~> state # "connected" \/ daemon # NoServer

(* "Daemon died or disconnected externally" (vpn_provider.dart:432): that  *)
(* is why a poll disconnects.                                              *)
(* The code does not keep this: README, "Disagreements".                   *)
PollDisconnectsDeadOnly == "off" \in ticks /\ state = "connected" => daemon = NoServer

(* 'VPN DISCONNECTED' (main_connection_screen.dart:270): when the app says *)
(* so and no call is under way, the daemon runs no tunnel.                 *)
(* The code does not keep this: README, "Disagreements".                   *)
DisconnectedMeansOff ==
  state = "disconnected" /\ (\A c \in Slots : call[c] = Free) => daemon = NoServer
=============================================================================
