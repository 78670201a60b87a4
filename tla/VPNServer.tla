----------------------------- MODULE VPNServer ------------------------------
(***************************************************************************)
(* The control plane of the VPN server, server/daemon/daemon.go: the       *)
(* accept loop, one handleConnection goroutine per QUIC connection, the    *)
(* session table under sessionsMu, and Close running against all of them.  *)
(* The state starts where Start has returned without an error.             *)
(*                                                                         *)
(* The session table maps an address to the connection whose handler       *)
(* registered the ClientSession.  A critical section of sessionsMu is one  *)
(* step, except the loop of Close, which does one session per step and     *)
(* excludes the handlers' sections (closePc = "ending") but not their      *)
(* calls of the pool, which has a mutex of its own.                        *)
(***************************************************************************)
EXTENDS IPPool

CONSTANTS
  Conn,      \* QUIC connections that complete their handshake
  NoConn,    \* no session stored under an address
  MaxCloses  \* calls of Close: main's own and the deferred one (bound)

ASSUME ServerAssumption == NoConn \notin Conn /\ MaxCloses \in Nat

VARIABLES
  accepting,  \* acceptLoop runs
  pc,         \* where the handler of each connection is
  ip,         \* the address the client was told, kept after the handler returns
  live,       \* connections that are not closed
  cancelled,  \* connections whose session context was cancelled by Close
  sessions,   \* s.sessions
  ctxDone,    \* s.ctx is cancelled
  closePc,    \* where Close is
  closes,     \* calls of Close so far
  open        \* what Close has not closed yet: "tun", "listener", "data", "raw"

ctlVars    == <<accepting, pc, ip, live, cancelled, sessions>>
closeVars  == <<ctxDone, closePc, closes, open>>
serverVars == <<poolVars, ctlVars, closeVars>>

NoIP == -1

Resources == {"tun", "listener", "data", "raw"}

HandlerPcs == {"idle", "stream", "decode", "auth", "alloc", "respond",
               "register", "wait", "unregister", "release", "exit", "done"}
ClosePcs   == {"idle", "lock", "ending", "tun", "listener", "data", "raw", "done"}

(* The handler has been given an address it has not given back. *)
Holding  == {"respond", "register", "wait", "unregister", "release"}
Holder(h) == pc[h] \in Holding

MuFree == closePc # "ending"

ServerInit ==
  /\ PoolInit
  /\ accepting = TRUE
  /\ pc = [h \in Conn |-> "idle"]
  /\ ip = [h \in Conn |-> NoIP]
  /\ live = Conn
  /\ cancelled = {}
  /\ sessions = [a \in Addr |-> NoConn]
  /\ ctxDone = FALSE
  /\ closePc = "idle"
  /\ closes = 0
  /\ open = Resources

-----------------------------------------------------------------------------
(* The QUIC layer, an external library. *)

(* The peer closes its connection, or the idle timeout fires. *)
PeerGone(h) ==
  /\ h \in live
  /\ live' = live \ {h}
  /\ UNCHANGED <<poolVars, accepting, pc, ip, cancelled, sessions, closeVars>>

-----------------------------------------------------------------------------
(* acceptLoop.  Accept picks at random between a queued connection and a   *)
(* cancelled context or closed listener.                                   *)

Accept(h) ==
  /\ accepting
  /\ pc[h] = "idle"
  /\ pc' = [pc EXCEPT ![h] = "stream"]
  /\ UNCHANGED <<poolVars, accepting, ip, live, cancelled, sessions, closeVars>>

AcceptExit ==
  /\ accepting
  /\ ctxDone \/ "listener" \notin open
  /\ accepting' = FALSE
  /\ UNCHANGED <<poolVars, pc, ip, live, cancelled, sessions, closeVars>>

-----------------------------------------------------------------------------
(* handleConnection *)

(* A step of handler h that only moves it from one place to another. *)
Move(h, from, to) ==
  /\ pc[h] = from
  /\ pc' = [pc EXCEPT ![h] = to]
  /\ UNCHANGED <<poolVars, accepting, ip, live, cancelled, sessions, closeVars>>

(* AcceptStream returns a stream that was opened, even when the context is *)
(* already cancelled; it fails on a cancelled context or a closed          *)
(* connection.                                                             *)
StreamOpened(h) == h \in live /\ Move(h, "stream", "decode")
StreamFailed(h) == (ctxDone \/ h \notin live) /\ Move(h, "stream", "exit")

(* Decode has no deadline and does not watch the context. *)
RequestRead(h)    == h \in live /\ Move(h, "decode", "auth")
RequestInvalid(h) == h \in live /\ Move(h, "decode", "exit")
RequestLost(h)    == h \notin live /\ Move(h, "decode", "exit")

(* auth.Authenticate, by its outcome. *)
AuthOk(h)     == Move(h, "auth", "alloc")
AuthFailed(h) == Move(h, "auth", "exit")

AllocateIP(h) ==
  /\ pc[h] = "alloc"
  /\ \E a \in Addr :
       /\ Allocate(a)
       /\ ip' = [ip EXCEPT ![h] = a]
  /\ pc' = [pc EXCEPT ![h] = "respond"]
  /\ UNCHANGED <<accepting, live, cancelled, sessions, closeVars>>

NoIPsAvailable(h) == Exhausted /\ Move(h, "alloc", "exit")

(* The write of the success response can fail while the connection is      *)
(* open, when the peer has stopped the stream.                             *)
ResponseSent(h) == h \in live /\ Move(h, "respond", "register")

(* Faulty variant: the error path of the response keeps the address. *)
ResponseFailedNoRelease(h) == Move(h, "respond", "exit")

(* The client never learns the address. *)
ResponseFailed(h) ==
  /\ pc[h] = "respond"
  /\ Release(ip[h])
  /\ ip' = [ip EXCEPT ![h] = NoIP]
  /\ pc' = [pc EXCEPT ![h] = "exit"]
  /\ UNCHANGED <<accepting, live, cancelled, sessions, closeVars>>

Register(h) ==
  /\ pc[h] = "register"
  /\ MuFree
  /\ sessions' = [sessions EXCEPT ![ip[h]] = h]
  /\ pc' = [pc EXCEPT ![h] = "wait"]
  /\ UNCHANGED <<poolVars, accepting, ip, live, cancelled, closeVars>>

(* Faulty variant: the wait ignores the connection's own context. *)
WakeSessionOnly(h) == (ctxDone \/ h \in cancelled) /\ Move(h, "wait", "unregister")

(* The final select: the session context (a child of the server's) or the  *)
(* connection's context.                                                   *)
Wake(h) ==
  (ctxDone \/ h \in cancelled \/ h \notin live) /\ Move(h, "wait", "unregister")

(* Faulty variant: the address goes back to the pool before the session    *)
(* leaves the table.                                                       *)
UnregisterReleasesFirst(h) ==
  /\ pc[h] = "unregister"
  /\ Release(ip[h])
  /\ pc' = [pc EXCEPT ![h] = "release"]
  /\ UNCHANGED <<accepting, ip, live, cancelled, sessions, closeVars>>

(* Faulty variant: the cleanup forgets the session table. *)
UnregisterNoDelete(h) == MuFree /\ Move(h, "unregister", "release")

(* The deferred cleanup deletes whatever session is stored under its key.  *)
Unregister(h) ==
  /\ pc[h] = "unregister"
  /\ MuFree
  /\ sessions' = [sessions EXCEPT ![ip[h]] = NoConn]
  /\ pc' = [pc EXCEPT ![h] = "release"]
  /\ UNCHANGED <<poolVars, accepting, ip, live, cancelled, closeVars>>

ReleaseIP(h) ==
  /\ pc[h] = "release"
  /\ Release(ip[h])
  /\ pc' = [pc EXCEPT ![h] = "exit"]
  /\ UNCHANGED <<accepting, ip, live, cancelled, sessions, closeVars>>

(* The outermost deferred calls: close the connection, cancel the session. *)
Exit(h) ==
  /\ pc[h] = "exit"
  /\ pc' = [pc EXCEPT ![h] = "done"]
  /\ live' = live \ {h}
  /\ UNCHANGED <<poolVars, accepting, ip, cancelled, sessions, closeVars>>

-----------------------------------------------------------------------------
(* Close *)

CloseCall ==
  /\ closePc \in {"idle", "done"}
  /\ closes < MaxCloses
  /\ closes' = closes + 1
  /\ ctxDone' = TRUE
  /\ closePc' = "lock"
  /\ UNCHANGED <<poolVars, ctlVars, open>>

CloseLock ==
  /\ closePc = "lock"
  /\ closePc' = "ending"
  /\ UNCHANGED <<poolVars, ctlVars, ctxDone, closes, open>>

(* One round of the loop over the table, in Go's arbitrary map order. *)
CloseSession(a) ==
  /\ closePc = "ending"
  /\ sessions[a] # NoConn
  /\ cancelled' = cancelled \cup {sessions[a]}
  /\ live' = live \ {sessions[a]}
  /\ Release(ip[sessions[a]])
  /\ sessions' = [sessions EXCEPT ![a] = NoConn]
  /\ UNCHANGED <<accepting, pc, ip, closeVars>>

CloseUnlock ==
  /\ closePc = "ending"
  /\ \A a \in Addr : sessions[a] = NoConn
  /\ closePc' = "tun"
  /\ UNCHANGED <<poolVars, ctlVars, ctxDone, closes, open>>

(* The four resources are closed in this order, whatever error one gives.  *)
CloseResource(r, next) ==
  /\ closePc = r
  /\ open' = open \ {r}
  /\ closePc' = next
  /\ UNCHANGED <<poolVars, ctlVars, ctxDone, closes>>

(* Faulty variant: the UDP socket under the QUIC listener stays open. *)
CloseRawNoClose ==
  /\ closePc = "raw"
  /\ closePc' = "done"
  /\ UNCHANGED <<poolVars, ctlVars, ctxDone, closes, open>>

(* Without its socket the QUIC transport closes every connection. *)
CloseRaw ==
  /\ closePc = "raw"
  /\ open' = open \ {"raw"}
  /\ live' = {}
  /\ closePc' = "done"
  /\ UNCHANGED <<poolVars, accepting, pc, ip, cancelled, sessions, ctxDone, closes>>

CloseStep ==
  \/ CloseLock
  \/ \E a \in Addr : CloseSession(a)
  \/ CloseUnlock
  \/ CloseResource("tun", "listener")
  \/ CloseResource("listener", "data")
  \/ CloseResource("data", "raw")
  \/ CloseRaw

-----------------------------------------------------------------------------
(* A step the handler takes on its own, once it is not blocked.            *)
HandlerStep(h) ==
  \/ StreamFailed(h) \/ RequestLost(h)
  \/ AuthOk(h) \/ AuthFailed(h)
  \/ AllocateIP(h) \/ NoIPsAvailable(h)
  \/ ResponseSent(h) \/ ResponseFailed(h)
  \/ Register(h) \/ Wake(h) \/ Unregister(h) \/ ReleaseIP(h) \/ Exit(h)

(* A step that waits for the peer. *)
PeerStep(h) == StreamOpened(h) \/ RequestRead(h) \/ RequestInvalid(h) \/ PeerGone(h)

(* Every goroutine has returned and nobody will call Close again. *)
Terminated ==
  /\ \A h \in Conn : pc[h] \in {"idle", "done"}
  /\ ~accepting
  /\ closePc = "done" /\ closes = MaxCloses
  /\ UNCHANGED serverVars

ServerNext ==
  \/ \E h \in Conn : Accept(h) \/ HandlerStep(h) \/ PeerStep(h)
  \/ AcceptExit
  \/ CloseCall
  \/ CloseStep
  \/ Terminated

ServerSpec == ServerInit /\ [][ServerNext]_serverVars

(* Goroutines run; nobody owes us a client's message or a call of Close.   *)
ServerFairness ==
  /\ \A h \in Conn : WF_serverVars(HandlerStep(h))
  /\ WF_serverVars(AcceptExit)
  /\ WF_serverVars(CloseStep)

FairServerSpec == ServerSpec /\ ServerFairness

-----------------------------------------------------------------------------
(* Properties *)

(* Type invariant of the server; a handler that holds an address holds one *)
(* of the client range.                                                    *)
ServerTypeOK ==
  /\ PoolTypeOK
  /\ accepting \in BOOLEAN
  /\ pc \in [Conn -> HandlerPcs]
  /\ ip \in [Conn -> Addr \cup {NoIP}]
  /\ live \subseteq Conn
  /\ cancelled \subseteq Conn
  /\ sessions \in [Addr -> Conn \cup {NoConn}]
  /\ ctxDone \in BOOLEAN
  /\ closePc \in ClosePcs
  /\ closes \in 0 .. MaxCloses
  /\ open \subseteq Resources
  /\ \A h \in Conn : Holder(h) => ip[h] \in ClientAddrs

(* Until Close is called, an address is held by at most one connection,    *)
(* and the pool counts every held address as taken, so no interleaving of  *)
(* handlers hands it out again (daemon.go:402-448).                        *)
LeaseExclusive ==
  ~ctxDone =>
    \A h \in Conn : Holder(h) =>
      /\ ip[h] \in allocated
      /\ \A g \in Conn : Holder(g) /\ ip[g] = ip[h] => g = h

(* Whatever way a handler ends, failed responses and a Close that releases *)
(* the same address included, the pool keeps no address that no handler    *)
(* holds (daemon.go:420, 443-448, 322).                                    *)
NoLeak == \A a \in allocated : \E h \in Conn : Holder(h) /\ ip[h] = a

(* A stored session is one whose handler waits, or is about to remove it,  *)
(* under that very address, even when Close and the handlers delete each   *)
(* other's entries; and until Close is called every waiting handler's      *)
(* session can be found, so its traffic is relayed (daemon.go:437-448).    *)
TableExact ==
  /\ \A a \in Addr : sessions[a] # NoConn =>
       pc[sessions[a]] \in {"wait", "unregister"} /\ ip[sessions[a]] = a
  /\ ~ctxDone =>
       \A h \in Conn : pc[h] \in {"wait", "unregister"} => sessions[ip[h]] = h

(* The address a connection holds, as the abstract specification sees it. *)
heldIP == [h \in Conn |-> IF Holder(h) THEN ip[h] ELSE NoIP]

Lease == INSTANCE AddressLease
           WITH NoAddr <- NoIP, range <- ClientAddrs,
                stopped <- ctxDone, lease <- heldIP

(* The server implements the address lease: every step of a handler or of  *)
(* Close grants one address of the client range, drops one, or changes     *)
(* nothing a client could see of the leases (daemon.go:371-456).           *)
ImplementsLease == Lease!LeaseSpec

(* "Close gracefully shuts down the server" (daemon.go:309): once Close is *)
(* called every goroutine it started returns, handlers blocked on a silent *)
(* client included.                                                        *)
ShutdownCompletes ==
  ctxDone ~> (~accepting /\ \A h \in Conn : pc[h] \in {"idle", "done"})

(* The address of a client that went away goes back to the pool: a handler *)
(* does not keep the address of a closed connection (daemon.go:450-455).   *)
AddressReclaimed ==
  \A h \in Conn : (Holder(h) /\ h \notin live) ~> ~Holder(h)
=============================================================================
