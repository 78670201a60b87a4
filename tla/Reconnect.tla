----------------------------- MODULE Reconnect ------------------------------
(***************************************************************************)
(* Clients that come back: the server of VPNServer with connectionWatcher  *)
(* of client/go_core/client.go at the other end of its connections, over   *)
(* links that are cut and a server that dies and is started again.         *)
(*                                                                         *)
(* A client is what VPNClient is to the server: it dials, asks for an      *)
(* address, waits until the connection is lost and dials again.  When a    *)
(* link is cut, the client may be back before the server has seen the old  *)
(* connection's idle timeout, so the old address is still taken.  A        *)
(* connection that is over may serve as a new one.  The server is not      *)
(* closed here, and both sides speak a common ALPN protocol.               *)
(***************************************************************************)
EXTENDS VPNServer

CONSTANTS
  Client,
  MaxFaults  \* faults before the network and the server are well (bound)

ASSUME ReconnectAssumption == IsFiniteSet(Client) /\ MaxFaults \in Nat

VARIABLES
  at,     \* where connectionWatcher of each client is
  conn,   \* the connection it uses
  cut,    \* live connections over which nothing passes any more
  faults  \* faults so far

watchers      == <<at, conn>>
network       == <<cut, faults>>
reconnectVars == <<serverVars, watchers, network>>

Used(h) == \E c \in Client : conn[c] = h

ReconnectInit ==
  /\ PoolInit
  /\ accepting = TRUE /\ pc = [h \in Conn |-> "done"] /\ ip = [h \in Conn |-> NoIP]
  /\ live = {} /\ cancelled = {} /\ sessions = [a \in Addr |-> NoConn]
  /\ ctxDone = FALSE /\ closePc = "idle" /\ closes = 0 /\ open = Resources
  /\ at = [c \in Client |-> "down"] /\ conn = [c \in Client |-> NoConn]
  /\ cut = {} /\ faults = 0

-----------------------------------------------------------------------------
(* The clients *)

Becomes(c, s, h) == at' = [at EXCEPT ![c] = s] /\ conn' = [conn EXCEPT ![c] = h]

Unused == {h \in Conn : pc[h] = "done" /\ ~Used(h)}

(* Which of the unused connections it is makes no difference. *)
Dial(c) ==
  /\ at[c] = "down" /\ Unused # {}
  /\ LET h == CHOOSE g \in Unused : TRUE
     IN  /\ Becomes(c, "trying", h)
         /\ pc' = [pc EXCEPT ![h] = "idle"] /\ ip' = [ip EXCEPT ![h] = NoIP]
         /\ live' = live \cup {h}
  /\ UNCHANGED <<poolVars, accepting, cancelled, sessions, closeVars, network>>

(* Faulty variant: the status of the answer is not looked at. *)
AnsweredUnchecked(c) ==
  /\ at[c] = "trying"
  /\ conn[c] \in live \ cut /\ pc[conn[c]] \in (Holding \ {"respond"}) \cup {"exit"}
  /\ Becomes(c, "up", conn[c])
  /\ UNCHANGED <<serverVars, network>>

(* The answer arrives; the tunnel is set up with the address in it. *)
Answered(c) ==
  /\ at[c] = "trying"
  /\ conn[c] \in live \ cut /\ pc[conn[c]] \in Holding \ {"respond"}
  /\ Becomes(c, "up", conn[c])
  /\ UNCHANGED <<serverVars, network>>

(* Faulty variant: the loss of a connection is seen only once the tunnel   *)
(* is up.                                                                  *)
LostWhenUp(c) ==
  /\ at[c] = "up"
  /\ conn[c] \in cut \/ conn[c] \notin live
  /\ Becomes(c, "down", NoConn)
  /\ UNCHANGED <<serverVars, network>>

(* The connection is closed, or its link is cut and the client has seen    *)
(* its own idle timeout.  A client that was refused is closed by Exit.     *)
Lost(c) ==
  /\ at[c] \in {"trying", "up"}
  /\ conn[c] \in cut \/ conn[c] \notin live
  /\ Becomes(c, "down", NoConn)
  /\ UNCHANGED <<serverVars, network>>

-----------------------------------------------------------------------------
(* The network and its faults *)

(* The server's idle timeout on a connection that was cut. *)
IdleTimeout(h) ==
  h \in cut /\ PeerGone(h) /\ cut' = cut \ {h} /\ UNCHANGED <<watchers, faults>>

Fault == faults < MaxFaults /\ faults' = faults + 1

CutLink(h) ==
  /\ Fault
  /\ h \in live \ cut /\ cut' = cut \cup {h}
  /\ UNCHANGED <<serverVars, watchers>>

(* The tunnel cannot be set up, or the user leaves and comes back. *)
HangUp(c) ==
  /\ Fault
  /\ at[c] \in {"trying", "up"}
  /\ live' = IF conn[c] \in cut THEN live ELSE live \ {conn[c]}
  /\ Becomes(c, "down", NoConn)
  /\ UNCHANGED <<poolVars, accepting, pc, ip, cancelled, sessions, closeVars, cut>>

(* A busy database: see Accounts. *)
Denied(h) == Fault /\ AuthFailed(h) /\ UNCHANGED <<watchers, cut>>

(* The server dies and is started again, with a new pool and no sessions. *)
Restart ==
  /\ Fault
  /\ allocated' = {} /\ nextHint' = 2 /\ sessions' = [a \in Addr |-> NoConn]
  /\ pc' = [h \in Conn |-> "done"] /\ live' = {}
  /\ cut' = {}
  /\ UNCHANGED <<conf, maxClient, accepting, ip, cancelled, closeVars, watchers>>

-----------------------------------------------------------------------------
(* The server's handlers; the client's part of an exchange needs the link. *)
Served(h) ==
  /\ \/ Accept(h) \/ StreamFailed(h) \/ RequestLost(h) \/ AuthOk(h)
     \/ AllocateIP(h) \/ NoIPsAvailable(h)
     \/ ResponseSent(h) \/ (h \notin live /\ ResponseFailed(h))
     \/ Register(h) \/ Wake(h) \/ Unregister(h) \/ ReleaseIP(h) \/ Exit(h)
     \/ h \notin cut /\ (StreamOpened(h) \/ RequestRead(h))
  /\ cut' = cut \cap live' /\ UNCHANGED <<watchers, faults>>

AllUp == \A c \in Client : at[c] = "up"

Settled == AllUp /\ UNCHANGED reconnectVars

ReconnectNext ==
  \/ \E c \in Client : Dial(c) \/ Answered(c) \/ Lost(c) \/ HangUp(c)
  \/ \E h \in Conn : Served(h) \/ IdleTimeout(h) \/ CutLink(h) \/ Denied(h)
  \/ Restart \/ Settled

ReconnectSpec == ReconnectInit /\ [][ReconnectNext]_reconnectVars

(* Goroutines run, timeouts expire, clients dial; faults need not happen. *)
ReconnectLiveSpec ==
  /\ ReconnectSpec
  /\ \A c \in Client : WF_reconnectVars(Dial(c)) /\ WF_reconnectVars(Answered(c) \/ Lost(c))
  /\ \A h \in Conn : WF_reconnectVars(Served(h)) /\ WF_reconnectVars(IdleTimeout(h))

-----------------------------------------------------------------------------
(* Properties *)

(* Type invariant: a connection serves one client at a time, and whoever   *)
(* is up was told an address of the client range (client.go:209-283).      *)
ReconnectTypeOK ==
  /\ ServerTypeOK
  /\ at \in [Client -> {"down", "trying", "up"}] /\ conn \in [Client -> Conn \cup {NoConn}]
  /\ cut \subseteq live /\ faults \in 0 .. MaxFaults
  /\ \A c \in Client :
       /\ at[c] = "down" <=> conn[c] = NoConn
       /\ at[c] = "up" => ip[conn[c]] \in ClientAddrs
       /\ \A d \in Client : c # d /\ conn[c] = conn[d] => conn[c] = NoConn

(* The wrapped scan may miss one free address (ippool.go:100-102): nobody  *)
(* has to depend on it.                                                    *)
RoomToSpare == maxClient > Cardinality(Client)

(* With an address to spare, whatever links are cut, clients hang up and   *)
(* servers die: a client is refused for want of an address only while the  *)
(* server still holds one for a connection that its client has given up    *)
(* (daemon.go:402-448, ippool.go:87-117).                                  *)
RefusedForOrphansOnly ==
  \A h \in Conn :
    RoomToSpare /\ Used(h) /\ pc[h] = "alloc" /\ Exhausted
      => \E g \in Conn : Holder(g) /\ ~Used(g)

(* "QUIC connection lost, reconnecting..." (client.go:280): with an        *)
(* address to spare, when faults have stopped, all clients get their       *)
(* tunnels back.                                                           *)
Rejoins == RoomToSpare /\ ~AllUp ~> AllUp

(* The same without one to spare.                                          *)
(* The code does not keep this: README, "Disagreements".                   *)
RejoinsWhenFull == ~AllUp ~> AllUp
=============================================================================
