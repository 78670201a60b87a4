-------------------------- MODULE ReconnectProofs ---------------------------
(***************************************************************************)
(* Proofs about clients that come back, for every number of clients,       *)
(* connections and faults and every pool.                                  *)
(*                                                                         *)
(* The server's invariant is kept by everything that clients, links and a  *)
(* restart of the server do to it, so its properties hold here as well.    *)
(* The clients add one fact: whoever is up was answered, and from there    *)
(* its handler never goes back to a place where its address changes.       *)
(* Attended adds what a connection that lives tells its client.            *)
(***************************************************************************)
EXTENDS Reconnect, VPNServerProofs

(* Where a handler may be once its client has had its answer. *)
Told == {"register", "wait", "unregister", "release", "exit", "done"}

AnswersStand == \A c \in Client : at[c] = "up" => pc[conn[c]] \in Told

ReconnectInv == ServerInv /\ ReconnectTypeOK /\ AnswersStand

-----------------------------------------------------------------------------
(* What the invariant says of the clients and their connections. *)
LEMMA WatcherTypes ==
  ASSUME ReconnectInv
  PROVE  /\ at \in [Client -> {"down", "trying", "up"}]
         /\ conn \in [Client -> Conn \cup {NoConn}] /\ NoConn \notin Conn
         /\ cut \subseteq live /\ live \subseteq Conn
         /\ MaxFaults \in Nat /\ faults \in 0 .. MaxFaults
         /\ pc \in [Conn -> HandlerPcs] /\ ip \in [Conn -> Addr \cup {NoIP}]
         /\ sessions \in [Addr -> Conn \cup {NoConn}]
         /\ \A c \in Client : at[c] = "down" <=> conn[c] = NoConn
         /\ \A c \in Client : at[c] # "down" => conn[c] \in Conn
         /\ \A c \in Client : at[c] = "up" =>
              pc[conn[c]] \in Told /\ ip[conn[c]] \in ClientAddrs
         /\ \A c, d \in Client : c # d /\ conn[c] = conn[d] => conn[c] = NoConn
BY ServerAssumption, ReconnectAssumption
DEF ReconnectInv, ReconnectTypeOK, ServerTypeOK, AnswersStand

(* The invariant from its parts after a step. *)
LEMMA ReconnectFrom ==
  ASSUME ServerInv',
         at' \in [Client -> {"down", "trying", "up"}],
         conn' \in [Client -> Conn \cup {NoConn}],
         cut' \subseteq live', faults' \in 0 .. MaxFaults,
         \A c \in Client : at'[c] = "down" <=> conn'[c] = NoConn,
         \A c \in Client : at'[c] = "up" =>
           pc'[conn'[c]] \in Told /\ ip'[conn'[c]] \in ClientAddrs',
         \A c, d \in Client : c # d /\ conn'[c] = conn'[d] => conn'[c] = NoConn
  PROVE  ReconnectInv'
BY DEF ReconnectInv, ReconnectTypeOK, AnswersStand, ServerInv

(* One client moves and nobody shares the connection that it takes. *)
LEMMA BecomesOne ==
  ASSUME ReconnectInv, NEW c \in Client, NEW s \in {"down", "trying", "up"},
         NEW h \in Conn \cup {NoConn}, Becomes(c, s, h),
         s = "down" <=> h = NoConn,
         h # NoConn => \A d \in Client \ {c} : conn[d] # h
  PROVE  /\ at' \in [Client -> {"down", "trying", "up"}]
         /\ conn' \in [Client -> Conn \cup {NoConn}]
         /\ at'[c] = s /\ conn'[c] = h
         /\ \A d \in Client \ {c} : at'[d] = at[d] /\ conn'[d] = conn[d]
         /\ \A d \in Client : at'[d] = "down" <=> conn'[d] = NoConn
         /\ \A d, e \in Client : d # e /\ conn'[d] = conn'[e] => conn'[d] = NoConn
<1>1. /\ at' \in [Client -> {"down", "trying", "up"}]
      /\ conn' \in [Client -> Conn \cup {NoConn}]
      /\ at'[c] = s /\ conn'[c] = h
      /\ \A d \in Client \ {c} : at'[d] = at[d] /\ conn'[d] = conn[d]
  BY WatcherTypes DEF Becomes
<1>2. QED
  BY <1>1, WatcherTypes

-----------------------------------------------------------------------------
(* The server's own steps *)

(* A step of one handler or of its connection leaves the configuration,    *)
(* the other handlers and, once its client has been answered, its own      *)
(* address alone.                                                          *)
LEMMA HandlerFacts ==
  ASSUME ServerInv, NEW h \in Conn, Accept(h) \/ HandlerStep(h) \/ PeerStep(h)
  PROVE  /\ UNCHANGED <<conf, maxClient>>
         /\ \A g \in Conn \ {h} : pc'[g] = pc[g] /\ ip'[g] = ip[g]
         /\ pc[h] \in Told => pc'[h] \in Told /\ ip'[h] = ip[h]
<1>t. pc \in [Conn -> HandlerPcs] /\ ip \in [Conn -> Addr \cup {NoIP}]
  BY DEF ServerInv, ServerTypeOK
<1>1. CASE Accept(h)
  BY <1>1, <1>t DEF Accept, Told, poolVars
<1>2. CASE StreamOpened(h) \/ StreamFailed(h) \/ RequestRead(h) \/ RequestInvalid(h)
           \/ RequestLost(h) \/ AuthOk(h) \/ AuthFailed(h) \/ NoIPsAvailable(h)
           \/ ResponseSent(h) \/ Wake(h)
  BY <1>2, <1>t
  DEF StreamOpened, StreamFailed, RequestRead, RequestInvalid, RequestLost, AuthOk, AuthFailed,
      NoIPsAvailable, ResponseSent, Wake, Move, Told, poolVars
<1>3. CASE AllocateIP(h)
  BY <1>3, <1>t DEF AllocateIP, Allocate, Told
<1>4. CASE ResponseFailed(h)
  BY <1>4, <1>t DEF ResponseFailed, Release, Told, poolVars
<1>5. CASE Register(h) \/ Unregister(h) \/ Exit(h)
  BY <1>5, <1>t DEF Register, Unregister, Exit, Told, poolVars
<1>6. CASE ReleaseIP(h)
  BY <1>6, <1>t DEF ReleaseIP, Release, Told, poolVars
<1>7. CASE PeerGone(h)
  BY <1>7, <1>t DEF PeerGone, Told, poolVars
<1>8. QED
  BY <1>1, <1>2, <1>3, <1>4, <1>5, <1>6, <1>7 DEF HandlerStep, PeerStep

(* A handler's step keeps the invariant, whatever its client does. *)
LEMMA ServedInv ==
  ASSUME ReconnectInv, NEW h \in Conn, Accept(h) \/ HandlerStep(h) \/ PeerStep(h),
         UNCHANGED watchers, cut' \subseteq live', faults' \in 0 .. MaxFaults
  PROVE  ReconnectInv'
<1>1. ServerInv
  BY DEF ReconnectInv
<1>2. ServerInv'
  BY <1>1, HandlerStepInv
<1>3. UNCHANGED <<at, conn>>
  BY DEF watchers
<1>4. ClientAddrs' = ClientAddrs
  BY <1>1, HandlerFacts, RangeFixed
<1>5. ASSUME NEW c \in Client, at'[c] = "up"
      PROVE  pc'[conn'[c]] \in Told /\ ip'[conn'[c]] \in ClientAddrs'
  BY <1>1, <1>3, <1>4, <1>5, HandlerFacts, WatcherTypes
<1>6. QED
  BY <1>2, <1>3, <1>5, WatcherTypes, ReconnectFrom
-----------------------------------------------------------------------------
(* Clients, links and restarts *)

(* The handlers that hold nothing may be replaced by new ones: a           *)
(* connection that is over serves a client that dials again.               *)
LEMMA NewHandlerInv ==
  ASSUME ServerInv, NEW h \in Conn, pc[h] = "done",
         pc' = [pc EXCEPT ![h] = "idle"], ip' = [ip EXCEPT ![h] = NoIP],
         live' \subseteq Conn,
         UNCHANGED <<poolVars, accepting, cancelled, sessions, closeVars>>
  PROVE  ServerInv'
<1>1. /\ UNCHANGED <<conf, maxClient, allocated, nextHint>>
      /\ UNCHANGED <<accepting, cancelled, sessions, ctxDone, closePc, closes, open>>
      /\ ClientAddrs' = ClientAddrs
  BY RangeFixed DEF poolVars, closeVars
<1>2. pc \in [Conn -> HandlerPcs] /\ ip \in [Conn -> Addr \cup {NoIP}]
  BY DEF ServerInv, ServerTypeOK
<1>3. /\ pc' \in [Conn -> HandlerPcs] /\ ip' \in [Conn -> Addr \cup {NoIP}]
      /\ pc'[h] = "idle" /\ \A g \in Conn \ {h} : pc'[g] = pc[g] /\ ip'[g] = ip[g]
  BY <1>2 DEF HandlerPcs
<1>4. /\ ~Holder(h) /\ ~Holder(h)'
      /\ \A g \in Conn : (Holder(g)' <=> Holder(g)) /\ (Holder(g) => ip'[g] = ip[g])
  BY <1>3 DEF Holder, Holding
<1>5. /\ ServerTypeOK /\ CapacityOK /\ CloseCancelled
      /\ LeaseExclusive /\ NoLeak /\ TableExact
  BY DEF ServerInv
<1>6. ServerTypeOK' /\ CapacityOK' /\ CloseCancelled'
  BY <1>1, <1>3, <1>4, <1>5
  DEF ServerTypeOK, PoolTypeOK, CapacityOK, LastOffset, CloseCancelled
<1>7. LeaseExclusive' /\ NoLeak'
  BY <1>1, <1>4, <1>5 DEF LeaseExclusive, NoLeak
<1>8. TableExact'
  <2>1. ASSUME NEW a \in Addr, sessions'[a] # NoConn
        PROVE  pc'[sessions'[a]] \in {"wait", "unregister"} /\ ip'[sessions'[a]] = a
    <3>1. sessions[a] \in Conn
      BY <2>1, <1>1, <1>5 DEF ServerTypeOK
    <3>2. pc[sessions[a]] \in {"wait", "unregister"} /\ ip[sessions[a]] = a
      BY <2>1, <1>1, <1>5 DEF TableExact
    <3>3. QED
      BY <3>1, <3>2, <1>1, <1>3
  <2>2. ASSUME ~ctxDone', NEW g \in Conn, pc'[g] \in {"wait", "unregister"}
        PROVE  sessions'[ip'[g]] = g
    BY <2>2, <1>1, <1>3, <1>5 DEF TableExact
  <2>3. QED
    BY <2>1, <2>2 DEF TableExact
<1>9. QED
  BY <1>6, <1>7, <1>8 DEF ServerInv

(* A client dials over a connection that nobody uses. *)
LEMMA DialInv ==
  ASSUME ReconnectInv, NEW c \in Client, Dial(c)
  PROVE  ReconnectInv'
<1>1. PICK h \in Unused :
         /\ Becomes(c, "trying", h)
         /\ pc' = [pc EXCEPT ![h] = "idle"] /\ ip' = [ip EXCEPT ![h] = NoIP]
         /\ live' = live \cup {h}
  BY DEF Dial
<1>2. /\ UNCHANGED <<poolVars, accepting, cancelled, sessions, closeVars>>
      /\ UNCHANGED <<conf, maxClient, cut, faults>>
  BY DEF Dial, poolVars, network
<1>3. h \in Conn /\ h # NoConn /\ pc[h] = "done" /\ \A d \in Client : conn[d] # h
  BY <1>1, ServerAssumption DEF Unused, Used
<1>4. ServerInv'
  BY <1>1, <1>2, <1>3, WatcherTypes, NewHandlerInv DEF ReconnectInv
<1>5. /\ at' \in [Client -> {"down", "trying", "up"}]
      /\ conn' \in [Client -> Conn \cup {NoConn}]
      /\ at'[c] = "trying" /\ conn'[c] = h
      /\ \A d \in Client \ {c} : at'[d] = at[d] /\ conn'[d] = conn[d]
      /\ \A d \in Client : at'[d] = "down" <=> conn'[d] = NoConn
      /\ \A d, e \in Client : d # e /\ conn'[d] = conn'[e] => conn'[d] = NoConn
  BY <1>1, <1>3, BecomesOne
<1>6. ASSUME NEW d \in Client, at'[d] = "up"
      PROVE  pc'[conn'[d]] \in Told /\ ip'[conn'[d]] \in ClientAddrs'
  <2>1. d # c /\ at[d] = "up" /\ conn'[d] = conn[d]
    BY <1>5, <1>6
  <2>2. conn[d] \in Conn /\ conn[d] # h /\ pc[conn[d]] \in Told /\ ip[conn[d]] \in ClientAddrs
    BY <2>1, <1>3, WatcherTypes
  <2>3. pc'[conn[d]] = pc[conn[d]] /\ ip'[conn[d]] = ip[conn[d]]
    BY <2>2, <1>1, WatcherTypes
  <2>4. QED
    BY <2>1, <2>2, <2>3, <1>2, RangeFixed
<1>7. cut' \subseteq live' /\ faults' \in 0 .. MaxFaults
  BY <1>1, <1>2, WatcherTypes
<1>8. QED
  BY <1>4, <1>5, <1>6, <1>7, ReconnectFrom

(* The answer arrives, the connection is lost, or the client hangs up: one *)
(* client moves, to "up" only when its handler has answered it.            *)
LEMMA ClientMovesInv ==
  ASSUME ReconnectInv, NEW c \in Client, at[c] \in {"trying", "up"},
         NEW s \in {"down", "up"}, NEW h \in Conn \cup {NoConn}, Becomes(c, s, h),
         \/ s = "down" /\ h = NoConn
         \/ s = "up" /\ h = conn[c] /\ pc[conn[c]] \in Holding \ {"respond"},
         live' \subseteq Conn, cut \subseteq live', faults' \in 0 .. MaxFaults,
         UNCHANGED <<poolVars, accepting, pc, ip, cancelled, sessions, closeVars, cut>>
  PROVE  ReconnectInv'
<1>1. /\ conn[c] \in Conn /\ NoConn \notin Conn
      /\ \A d \in Client \ {c} : conn[d] # conn[c]
  BY WatcherTypes
<1>2. UNCHANGED <<conf, maxClient, pc, ip, cut>> /\ ClientAddrs' = ClientAddrs
  BY RangeFixed DEF poolVars
<1>3. ServerInv'
  <2>1. ServerInv /\ UNCHANGED <<ctxDone, closePc, closes, open>>
    BY DEF ReconnectInv, closeVars
  <2>2. /\ accepting \in BOOLEAN /\ cancelled \subseteq Conn /\ ctxDone \in BOOLEAN
        /\ closePc \in ClosePcs /\ closes \in 0 .. MaxCloses /\ open \subseteq Resources
        /\ closePc # "idle" => ctxDone
    BY <2>1 DEF ServerInv, ServerTypeOK, CloseCancelled
  <2>3. QED
    BY <2>1, <2>2, FrameInv
<1>4. /\ at' \in [Client -> {"down", "trying", "up"}]
      /\ conn' \in [Client -> Conn \cup {NoConn}]
      /\ at'[c] = s /\ conn'[c] = h
      /\ \A d \in Client \ {c} : at'[d] = at[d] /\ conn'[d] = conn[d]
      /\ \A d \in Client : at'[d] = "down" <=> conn'[d] = NoConn
      /\ \A d, e \in Client : d # e /\ conn'[d] = conn'[e] => conn'[d] = NoConn
  BY <1>1, BecomesOne
<1>5. ASSUME NEW d \in Client, at'[d] = "up"
      PROVE  pc'[conn'[d]] \in Told /\ ip'[conn'[d]] \in ClientAddrs'
  <2>1. CASE d = c
    <3>1. h = conn[c] /\ pc[h] \in Holding \ {"respond"}
      BY <2>1, <1>4, <1>5
    <3>2. ip[h] \in ClientAddrs
      BY <3>1, <1>1 DEF ReconnectInv, ServerInv, ServerTypeOK, Holder
    <3>3. pc[h] \in Told
      BY <3>1 DEF Holding, Told
    <3>4. QED
      BY <2>1, <3>1, <3>2, <3>3, <1>2, <1>4
  <2>2. CASE d # c
    BY <2>2, <1>2, <1>4, <1>5, WatcherTypes
  <2>3. QED
    BY <2>1, <2>2
<1>6. QED
  BY <1>2, <1>3, <1>4, <1>5, WatcherTypes, ReconnectFrom

(* The server that is started again serves from a new pool: nothing is     *)
(* held, nothing is taken and the table is empty.                          *)
LEMMA RestartInv ==
  ASSUME ReconnectInv, Restart
  PROVE  ReconnectInv'
<1>1. /\ allocated' = {} /\ nextHint' = 2 /\ sessions' = [a \in Addr |-> NoConn]
      /\ pc' = [h \in Conn |-> "done"] /\ live' = {} /\ faults' = faults + 1
      /\ faults < MaxFaults
      /\ UNCHANGED <<conf, maxClient, accepting, ip, cancelled, ctxDone, closePc, closes, open>>
      /\ UNCHANGED <<at, conn>> /\ cut' = {}
  BY DEF Restart, Fault, closeVars, watchers
<1>2. ClientAddrs' = ClientAddrs /\ PoolInv
  BY <1>1, RangeFixed, PoolPart DEF ReconnectInv
<1>3. \A h \in Conn : pc'[h] = "done" /\ ~Holder(h)'
  BY <1>1 DEF Holder, Holding
<1>4. ServerTypeOK /\ CapacityOK /\ CloseCancelled
  BY DEF ReconnectInv, ServerInv
<1>5. ServerTypeOK'
  <2>1. PoolTypeOK'
    BY <1>1, <1>2, ConfFields DEF PoolInv, PoolTypeOK, LastOffset
  <2>2. /\ pc' \in [Conn -> HandlerPcs] /\ sessions' \in [Addr -> Conn \cup {NoConn}]
        /\ live' \subseteq Conn
    BY <1>1 DEF HandlerPcs
  <2>3. QED
    BY <1>1, <1>3, <1>4, <2>1, <2>2 DEF ServerTypeOK
<1>6. CapacityOK' /\ CloseCancelled'
  BY <1>1, <1>4 DEF CapacityOK, LastOffset, CloseCancelled
<1>7. LeaseExclusive' /\ NoLeak' /\ TableExact'
  BY <1>1, <1>3 DEF LeaseExclusive, NoLeak, TableExact
<1>8. ServerInv'
  BY <1>5, <1>6, <1>7 DEF ServerInv
<1>9. ASSUME NEW c \in Client, at'[c] = "up"
      PROVE  pc'[conn'[c]] \in Told /\ ip'[conn'[c]] \in ClientAddrs'
  <2>1. conn[c] \in Conn /\ ip[conn[c]] \in ClientAddrs
    BY <1>1, <1>9, WatcherTypes
  <2>2. QED
    BY <2>1, <1>1, <1>2, <1>3 DEF Told
<1>10. faults' \in 0 .. MaxFaults
  BY <1>1, WatcherTypes
<1>11. QED
  BY <1>1, <1>8, <1>9, <1>10, WatcherTypes, ReconnectFrom

-----------------------------------------------------------------------------
(* A server without connections and clients that are down satisfy the      *)
(* invariant.                                                              *)
LEMMA ReconnectInitInv ==
  ASSUME ReconnectInit
  PROVE  ReconnectInv
<1>1. PoolInv /\ allocated = {}
  BY PoolInitInv DEF ReconnectInit, PoolInit, NewIPPool
<1>2. \A h \in Conn : pc[h] = "done" /\ ~Holder(h)
  BY DEF ReconnectInit, Holder, Holding
<1>3. ServerTypeOK
  <2>1. accepting \in BOOLEAN /\ ctxDone \in BOOLEAN
    BY DEF ReconnectInit
  <2>2. /\ pc \in [Conn -> HandlerPcs] /\ ip \in [Conn -> Addr \cup {NoIP}]
        /\ sessions \in [Addr -> Conn \cup {NoConn}]
    BY DEF ReconnectInit, HandlerPcs
  <2>3. /\ live \subseteq Conn /\ cancelled \subseteq Conn /\ open \subseteq Resources
        /\ closePc \in ClosePcs /\ closes \in 0 .. MaxCloses
    BY ServerAssumption DEF ReconnectInit, ClosePcs
  <2>4. QED
    BY <1>1, <1>2, <2>1, <2>2, <2>3 DEF ServerTypeOK, PoolInv
<1>4. CapacityOK /\ CloseCancelled /\ LeaseExclusive /\ NoLeak /\ TableExact
  BY <1>1, <1>2
  DEF ReconnectInit, PoolInv, CloseCancelled, LeaseExclusive, NoLeak, TableExact
<1>5. \A c \in Client : at[c] = "down" /\ conn[c] = NoConn
  BY DEF ReconnectInit
<1>6. ReconnectTypeOK
  <2>1. /\ at \in [Client -> {"down", "trying", "up"}] /\ conn \in [Client -> Conn \cup {NoConn}]
        /\ cut \subseteq live /\ faults \in 0 .. MaxFaults
    BY ReconnectAssumption DEF ReconnectInit
  <2>2. QED
    BY <1>3, <1>5, <2>1 DEF ReconnectTypeOK
<1>7. QED
  BY <1>3, <1>4, <1>5, <1>6 DEF ReconnectInv, ServerInv, AnswersStand

(* Every step of a client, a link, a handler or a dying server keeps the   *)
(* invariant.                                                              *)
LEMMA ReconnectStepInv ==
  ASSUME ReconnectInv, [ReconnectNext]_reconnectVars
  PROVE  ReconnectInv'
<1>t. faults \in 0 .. MaxFaults /\ MaxFaults \in Nat /\ cut \subseteq live /\ live \subseteq Conn
      /\ \A c \in Client : at[c] # "down" => conn[c] \in Conn
  BY WatcherTypes
<1>f. Fault => faults' \in 0 .. MaxFaults
  BY <1>t DEF Fault
<1>1. ASSUME NEW c \in Client, Dial(c) PROVE ReconnectInv'
  BY <1>1, DialInv
<1>2. ASSUME NEW c \in Client, Answered(c) PROVE ReconnectInv'
  <2>1. UNCHANGED <<live, faults>>
        /\ UNCHANGED <<poolVars, accepting, pc, ip, cancelled, sessions, closeVars, cut>>
    BY <1>2 DEF Answered, serverVars, ctlVars, network
  <2>2. QED
    BY <1>2, <1>t, <2>1, ClientMovesInv DEF Answered
<1>3. ASSUME NEW c \in Client, Lost(c) PROVE ReconnectInv'
  <2>1. UNCHANGED <<live, faults>>
        /\ UNCHANGED <<poolVars, accepting, pc, ip, cancelled, sessions, closeVars, cut>>
    BY <1>3 DEF Lost, serverVars, ctlVars, network
  <2>2. QED
    BY <1>3, <1>t, <2>1, ClientMovesInv DEF Lost
<1>4. ASSUME NEW c \in Client, HangUp(c) PROVE ReconnectInv'
  BY <1>4, <1>t, <1>f, ClientMovesInv DEF HangUp
<1>5. ASSUME NEW h \in Conn, Served(h) PROVE ReconnectInv'
  <2>1. Accept(h) \/ HandlerStep(h) \/ PeerStep(h)
    BY <1>5 DEF Served, HandlerStep, PeerStep
  <2>2. QED
    BY <1>5, <1>t, <2>1, ServedInv DEF Served
<1>6. ASSUME NEW h \in Conn, IdleTimeout(h) PROVE ReconnectInv'
  BY <1>6, <1>t, ServedInv DEF IdleTimeout, PeerGone, PeerStep
<1>7. ASSUME NEW h \in Conn, Denied(h) PROVE ReconnectInv'
  BY <1>7, <1>t, <1>f, ServedInv DEF Denied, HandlerStep, AuthFailed, Move
<1>8. ASSUME UNCHANGED serverVars, UNCHANGED watchers, cut' \subseteq live,
             faults' \in 0 .. MaxFaults
      PROVE  ReconnectInv'
  <2>1. [ServerNext]_serverVars
    BY <1>8
  <2>2. ServerInv'
    BY <2>1, ServerStepInv DEF ReconnectInv
  <2>3. UNCHANGED <<conf, maxClient, pc, ip, live, at, conn>> /\ ClientAddrs' = ClientAddrs
    BY <1>8, RangeFixed DEF serverVars, poolVars, ctlVars, watchers
  <2>4. QED
    BY <1>8, <2>2, <2>3, WatcherTypes, ReconnectFrom
<1>9. ASSUME NEW h \in Conn, CutLink(h) PROVE ReconnectInv'
  BY <1>8, <1>9, <1>f, WatcherTypes DEF CutLink
<1>10. CASE Restart
  BY <1>10, RestartInv
<1>11. CASE UNCHANGED reconnectVars
  BY <1>8, <1>11, WatcherTypes DEF reconnectVars, network
<1>12. QED
  BY <1>1, <1>2, <1>3, <1>4, <1>5, <1>6, <1>7, <1>9, <1>10, <1>11 DEF ReconnectNext, Settled

(* The invariant holds whatever links are cut and servers die. *)
LEMMA ReconnectInvAlways == ReconnectSpec => []ReconnectInv
<1>1. ReconnectInit => ReconnectInv
  BY ReconnectInitInv
<1>2. ReconnectInv /\ [ReconnectNext]_reconnectVars => ReconnectInv'
  BY ReconnectStepInv
<1>3. QED
  BY <1>1, <1>2, PTL DEF ReconnectSpec
-----------------------------------------------------------------------------
(* The server's types, with the clients' and the links' (client.go:209-283,*)
(* daemon.go:371-456).                                                     *)
THEOREM ReconnectTypeCorrect == ReconnectSpec => []ReconnectTypeOK
<1>1. ReconnectInv => ReconnectTypeOK
  BY DEF ReconnectInv
<1>2. QED
  BY <1>1, ReconnectInvAlways, PTL

(* Clients that hang up and dial again, cut links and a server that dies   *)
(* and starts from an empty pool never lead to two holders of one address, *)
(* to an address nobody holds or to a wrong table entry                    *)
(* (daemon.go:396-448, ippool.go:87-142).                                  *)
THEOREM ReconnectKeepsServer == ReconnectSpec => [](LeaseExclusive /\ NoLeak /\ TableExact)
<1>1. ReconnectInv => LeaseExclusive /\ NoLeak /\ TableExact
  BY DEF ReconnectInv, ServerInv
<1>2. QED
  BY <1>1, ReconnectInvAlways, PTL

(* While every holder has a client, each taken address has a client of its *)
(* own; a client that is asking for one has none.                          *)
LEMMA TakenByClients ==
  ASSUME ReconnectInv, NEW c0 \in Client, ~Holder(conn[c0]),
         \A g \in Conn : Holder(g) => Used(g)
  PROVE  Cardinality(allocated) < Cardinality(Client)
<1> DEFINE Has(c, a) == conn[c] \in Conn /\ Holder(conn[c]) /\ ip[conn[c]] = a
           f == [a \in allocated |-> CHOOSE c \in Client : Has(c, a)]
<1>1. ASSUME NEW a \in allocated
      PROVE  f[a] \in Client \ {c0} /\ Has(f[a], a)
  <2>1. PICK g \in Conn : Holder(g) /\ ip[g] = a
    BY DEF ReconnectInv, ServerInv, NoLeak
  <2>2. PICK c \in Client : conn[c] = g
    BY <2>1 DEF Used
  <2>3. Has(c, a)
    BY <2>1, <2>2
  <2>4. f[a] \in Client /\ Has(f[a], a)
    BY <2>3
  <2>5. QED
    BY <2>4
<1>2. f \in [allocated -> Client \ {c0}]
  BY <1>1
<1>3. ASSUME NEW a \in allocated, NEW b \in allocated, f[a] = f[b]
      PROVE  a = b
  BY <1>1, <1>3
<1>4. f \in Injection(allocated, Client \ {c0})
  BY <1>2, <1>3 DEF Injection, IsInjective
<1>5. IsFiniteSet(Client \ {c0}) /\ Cardinality(Client \ {c0}) = Cardinality(Client) - 1
  BY ReconnectAssumption, FS_RemoveElement
<1>6. Cardinality(allocated) <= Cardinality(Client \ {c0})
  BY <1>4, <1>5, FS_Injection
<1>7. Cardinality(Client) \in Int /\ Cardinality(allocated) \in Int
  BY ReconnectAssumption, FS_CardinalityType, PoolPart, AllocatedCountable DEF ReconnectInv
<1>8. QED
  BY <1>5, <1>6, <1>7

(* RefusedForOrphansOnly: with an address to spare, a client is turned     *)
(* away only while the server holds an address for a connection whose      *)
(* client has given it up, however many clients there are and however      *)
(* large the pool (daemon.go:402-448, ippool.go:87-117).                   *)
THEOREM RefusalsExplained == ReconnectSpec => []RefusedForOrphansOnly
<1>1. ReconnectInv => RefusedForOrphansOnly
  <2>1. SUFFICES ASSUME ReconnectInv, maxClient > Cardinality(Client), NEW h \in Conn,
                        Used(h), pc[h] = "alloc", Exhausted,
                        \A g \in Conn : ~(Holder(g) /\ ~Used(g))
                 PROVE  FALSE
    BY DEF RefusedForOrphansOnly, RoomToSpare
  <2>2. PICK c \in Client : conn[c] = h
    BY <2>1 DEF Used
  <2>3. ~Holder(conn[c])
    BY <2>1, <2>2 DEF Holder, Holding
  <2>4. Cardinality(allocated) < Cardinality(Client)
    BY <2>1, <2>3, TakenByClients
  <2>5. PoolInv
    BY <2>1, PoolPart DEF ReconnectInv
  <2>6. maxClient <= Cardinality(allocated) + 1
    BY <2>1, <2>5, FullButOne
  <2>7. Cardinality(Client) \in Int /\ Cardinality(allocated) \in Int /\ maxClient \in Int
    BY <2>5, ReconnectAssumption, FS_CardinalityType, AllocatedCountable, ConfFields
  <2>8. QED
    BY <2>1, <2>4, <2>6, <2>7
<1>2. QED
  BY <1>1, ReconnectInvAlways, PTL

-----------------------------------------------------------------------------
(* The address lease across faults *)

(* What clients and links do moves no lease: a client that dials takes     *)
(* over a connection whose handler has ended.                              *)
LEMMA ClientsKeepLeases ==
  ASSUME ReconnectInv,
         \/ \E c \in Client : Dial(c) \/ Answered(c) \/ Lost(c) \/ HangUp(c)
         \/ \E h \in Conn : CutLink(h)
         \/ UNCHANGED reconnectVars
  PROVE  UNCHANGED Lease!leaseVars
<1>1. ASSUME NEW c \in Client, Dial(c)
      PROVE  UNCHANGED Lease!leaseVars
  <2>1. PICK h \in Unused : pc' = [pc EXCEPT ![h] = "idle"] /\ ip' = [ip EXCEPT ![h] = NoIP]
    BY <1>1 DEF Dial
  <2>2. h \in Conn /\ pc[h] = "done"
    BY DEF Unused
  <2>3. \A g \in Conn : (Holder(g)' <=> Holder(g)) /\ (Holder(g) => ip'[g] = ip[g])
    BY <2>1, <2>2, WatcherTypes DEF Holder, Holding
  <2>4. UNCHANGED <<conf, maxClient, ctxDone>>
    BY <1>1 DEF Dial, poolVars, closeVars
  <2>5. QED
    BY <2>3, <2>4, HeldSame, RangeFixed DEF Lease!leaseVars
<1>2. ASSUME UNCHANGED <<conf, maxClient, pc, ip, ctxDone>>
      PROVE  UNCHANGED Lease!leaseVars
  BY <1>2, HeldSame, RangeFixed DEF Holder, Lease!leaseVars
<1>3. ASSUME NEW c \in Client, Answered(c) \/ Lost(c) \/ HangUp(c)
      PROVE  UNCHANGED Lease!leaseVars
  BY <1>2, <1>3 DEF Answered, Lost, HangUp, serverVars, poolVars, ctlVars, closeVars
<1>4. CASE (\E h \in Conn : CutLink(h)) \/ UNCHANGED reconnectVars
  BY <1>2, <1>4 DEF CutLink, reconnectVars, serverVars, poolVars, ctlVars, closeVars
<1>5. QED
  BY <1>1, <1>3, <1>4

(* Nobody calls Close: the server only ever dies. *)
LEMMA NeverClosed ==
  ASSUME ReconnectInv, [ReconnectNext]_reconnectVars
  PROVE  ctxDone' = ctxDone
<1>1. ASSUME NEW h \in Conn, Served(h) \/ IdleTimeout(h) \/ Denied(h)
      PROVE  UNCHANGED closeVars
  BY <1>1, Zenon
  DEF Served, IdleTimeout, Denied, Accept, StreamOpened, StreamFailed, RequestRead,
      RequestLost, AuthOk, AuthFailed, NoIPsAvailable, ResponseSent, Wake, Move, AllocateIP,
      ResponseFailed, Register, Unregister, ReleaseIP, Exit, PeerGone
<1>2. ASSUME NEW c \in Client, Dial(c) \/ Answered(c) \/ Lost(c) \/ HangUp(c)
      PROVE  UNCHANGED closeVars
  BY <1>2 DEF Dial, Answered, Lost, HangUp, serverVars
<1>3. CASE (\E h \in Conn : CutLink(h)) \/ Restart \/ UNCHANGED reconnectVars
  BY <1>3 DEF CutLink, Restart, reconnectVars, serverVars, closeVars
<1>4. QED
  BY <1>1, <1>2, <1>3 DEF ReconnectNext, Settled, closeVars

(* The server keeps its promise about addresses to clients that come and   *)
(* go over links that are cut: every step but its own death is a step of   *)
(* the address lease, and the server that is started again begins it anew  *)
(* with nothing granted (daemon.go:371-456, client.go:209-283).            *)
THEOREM LeaseBetweenRestarts ==
  ReconnectSpec =>
    /\ Lease!LeaseInit
    /\ [][/\ Restart => Lease!LeaseInit'
          /\ ~Restart => [Lease!LeaseNext]_(Lease!leaseVars)]_reconnectVars
<1>i. ASSUME ReconnectInv, ~ctxDone, \A h \in Conn : ~Holder(h)
      PROVE  Lease!LeaseInit
  <2>1. NoIP \notin ClientAddrs
    BY <1>i, PoolPart, ClientAddrType DEF ReconnectInv
  <2>2. heldIP = [c \in Conn |-> NoIP]
    BY <1>i DEF heldIP
  <2>3. QED
    BY <1>i, <2>1, <2>2 DEF Lease!LeaseInit, ReconnectInv, ServerInv, ServerTypeOK
<1>1. ReconnectInit => Lease!LeaseInit
  BY <1>i, ReconnectInitInv DEF ReconnectInit, Holder, Holding
<1>2. ASSUME ReconnectInv, [ReconnectNext]_reconnectVars, ~Restart
      PROVE  [Lease!LeaseNext]_(Lease!leaseVars)
  <2>1. ASSUME NEW h \in Conn, Served(h) \/ IdleTimeout(h) \/ Denied(h)
        PROVE  [Lease!LeaseNext]_(Lease!leaseVars)
    <3>1. Accept(h) \/ HandlerStep(h) \/ PeerStep(h)
      BY <2>1 DEF Served, IdleTimeout, Denied, HandlerStep, PeerStep
    <3>2. QED
      BY <3>1, <1>2, HandlerRefines DEF ReconnectInv
  <2>2. QED
    BY <1>2, <2>1, ClientsKeepLeases DEF ReconnectNext, Settled
<1>3. ASSUME ReconnectInv, ~ctxDone, Restart
      PROVE  Lease!LeaseInit'
  <2>1. ReconnectInv'
    BY <1>3, RestartInv
  <2>2. NoIP \notin ClientAddrs'
    BY <2>1, PoolPart, ClientAddrType, <1>3, RangeFixed DEF ReconnectInv, Restart
  <2>3. heldIP' = [c \in Conn |-> NoIP]
    BY <1>3 DEF Restart, heldIP, Holder, Holding
  <2>4. ctxDone' = FALSE
    BY <1>3 DEF Restart, closeVars, ReconnectInv, ServerInv, ServerTypeOK
  <2>5. QED
    BY <2>2, <2>3, <2>4 DEF Lease!LeaseInit
<1>4. ReconnectInit => ~ctxDone
  BY DEF ReconnectInit
<1>5. ReconnectInv /\ ~ctxDone /\ [ReconnectNext]_reconnectVars => ~ctxDone'
  BY NeverClosed
<1>6. ReconnectInv /\ ~ctxDone /\ [ReconnectNext]_reconnectVars =>
        /\ Restart => Lease!LeaseInit'
        /\ ~Restart => [Lease!LeaseNext]_(Lease!leaseVars)
  BY <1>2, <1>3
<1>7. QED
  BY <1>1, <1>4, <1>5, <1>6, ReconnectInvAlways, PTL DEF ReconnectSpec

-----------------------------------------------------------------------------
(* What a client that is up can rely on: the safety part of Rejoins *)

(* A handler leaves its wait only when its connection is over, since       *)
(* nobody calls Close; so over a connection that lives, a client meets a   *)
(* handler that is still at its request, and one that was answered a       *)
(* handler that serves it (daemon.go:402-448).                             *)
Attended ==
  /\ ~ctxDone /\ cancelled = {}
  /\ \A c \in Client : conn[c] \in live =>
       /\ pc[conn[c]] \notin {"unregister", "release", "done"}
       /\ at[c] = "up" => pc[conn[c]] \in {"register", "wait"}

(* A step of a handler, while its connection stays.                        *)
LEMMA LiveHandler ==
  ASSUME ServerInv, ~ctxDone, cancelled = {}, NEW h \in Conn,
         Accept(h) \/ HandlerStep(h) \/ PeerStep(h)
  PROVE  /\ live' \subseteq live /\ cancelled' = {} /\ ~ctxDone'
         /\ h \in live' /\ pc[h] \notin {"unregister", "release", "done"} =>
              pc'[h] \notin {"unregister", "release", "done"}
         /\ h \in live' /\ pc[h] \in {"register", "wait"} => pc'[h] \in {"register", "wait"}
<1>t. pc \in [Conn -> HandlerPcs] /\ ip \in [Conn -> Addr \cup {NoIP}]
  BY DEF ServerInv, ServerTypeOK
<1>1. CASE Accept(h) \/ StreamOpened(h) \/ StreamFailed(h) \/ RequestRead(h) \/ RequestInvalid(h)
           \/ RequestLost(h) \/ AuthOk(h) \/ AuthFailed(h) \/ NoIPsAvailable(h)
  BY <1>1, <1>t
  DEF Accept, StreamOpened, StreamFailed, RequestRead, RequestInvalid, RequestLost, AuthOk,
      AuthFailed, NoIPsAvailable, Move, closeVars
<1>2. CASE ResponseSent(h) \/ Wake(h)
  BY <1>2, <1>t DEF ResponseSent, Wake, Move, closeVars
<1>3. CASE AllocateIP(h) \/ ResponseFailed(h)
  BY <1>3, <1>t DEF AllocateIP, ResponseFailed, closeVars
<1>4. CASE Register(h) \/ Unregister(h) \/ ReleaseIP(h)
  BY <1>4, <1>t DEF Register, Unregister, ReleaseIP, closeVars
<1>5. CASE Exit(h) \/ PeerGone(h)
  BY <1>5, <1>t DEF Exit, PeerGone, closeVars
<1>6. QED
  BY <1>1, <1>2, <1>3, <1>4, <1>5 DEF HandlerStep, PeerStep

(* The steps of the clients keep Attended: a client dials over a           *)
(* connection that nobody uses, and is up when its handler has answered.   *)
LEMMA ClientAttended ==
  ASSUME ReconnectInv, Attended, NEW c \in Client, Dial(c) \/ Answered(c) \/ Lost(c) \/ HangUp(c)
  PROVE  Attended'
<1>t. /\ at \in [Client -> {"down", "trying", "up"}] /\ conn \in [Client -> Conn \cup {NoConn}]
      /\ NoConn \notin Conn /\ live \subseteq Conn /\ pc \in [Conn -> HandlerPcs]
  BY WatcherTypes
<1>1. CASE Dial(c)
  <2>1. PICK h \in Unused :
          /\ at' = [at EXCEPT ![c] = "trying"] /\ conn' = [conn EXCEPT ![c] = h]
          /\ pc' = [pc EXCEPT ![h] = "idle"] /\ live' = live \cup {h}
    BY <1>1 DEF Dial, Becomes
  <2>2. h \in Conn /\ \A d \in Client : conn[d] # h
    BY DEF Unused, Used
  <2>3. UNCHANGED <<cancelled, ctxDone>>
    BY <1>1 DEF Dial, closeVars
  <2>4. \A d \in Client \ {c} : /\ at'[d] = at[d] /\ conn'[d] = conn[d]
                                /\ conn[d] \in live' => conn[d] \in live
                                /\ conn[d] \in live' => pc'[conn[d]] = pc[conn[d]]
    BY <2>1, <2>2, <1>t
  <2>5. conn'[c] = h /\ pc'[h] = "idle" /\ at'[c] = "trying"
    BY <2>1, <2>2, <1>t
  <2>6. QED
    BY <2>3, <2>4, <2>5 DEF Attended
<1>2. CASE Answered(c)
  <2>1. /\ UNCHANGED <<pc, live, cancelled, ctxDone>> /\ at' = [at EXCEPT ![c] = "up"]
        /\ conn' = [conn EXCEPT ![c] = conn[c]]
        /\ conn[c] \in live /\ pc[conn[c]] \in Holding \ {"respond"}
    BY <1>2 DEF Answered, Becomes, serverVars, ctlVars, closeVars
  <2>2. pc[conn[c]] \in {"register", "wait"}
    BY <2>1 DEF Attended, Holding
  <2>3. \A d \in Client : conn'[d] = conn[d] /\ (d # c => at'[d] = at[d])
    BY <2>1, <1>t
  <2>4. QED
    BY <2>1, <2>2, <2>3 DEF Attended
<1>3. CASE Lost(c) \/ HangUp(c)
  <2>1. /\ UNCHANGED <<pc, cancelled, ctxDone>> /\ live' \subseteq live
        /\ at' = [at EXCEPT ![c] = "down"] /\ conn' = [conn EXCEPT ![c] = NoConn]
    BY <1>3 DEF Lost, HangUp, Becomes, serverVars, ctlVars, closeVars
  <2>2. conn'[c] \notin live' /\ \A d \in Client \ {c} : conn'[d] = conn[d] /\ at'[d] = at[d]
    BY <2>1, <1>t
  <2>3. QED
    BY <2>1, <2>2 DEF Attended
<1>4. QED
  BY <1>1, <1>2, <1>3

(* The server's handlers, the links and a restart keep Attended.           *)
LEMMA AttendedStep ==
  ASSUME ReconnectInv, Attended, [ReconnectNext]_reconnectVars
  PROVE  Attended'
<1>t. NoConn \notin Conn /\ live \subseteq Conn
  BY WatcherTypes
<1>1. ASSUME NEW h \in Conn, Served(h) \/ IdleTimeout(h) \/ Denied(h)
      PROVE  Attended'
  <2>1. Accept(h) \/ HandlerStep(h) \/ PeerStep(h)
    BY <1>1 DEF Served, IdleTimeout, Denied, HandlerStep, PeerStep
  <2>2. UNCHANGED <<at, conn>>
    BY <1>1 DEF Served, IdleTimeout, Denied, watchers
  <2>3. /\ live' \subseteq live /\ cancelled' = {} /\ ~ctxDone'
        /\ h \in live' /\ pc[h] \notin {"unregister", "release", "done"} =>
             pc'[h] \notin {"unregister", "release", "done"}
        /\ h \in live' /\ pc[h] \in {"register", "wait"} => pc'[h] \in {"register", "wait"}
    BY <2>1, LiveHandler DEF ReconnectInv, Attended
  <2>4. \A g \in Conn \ {h} : pc'[g] = pc[g]
    BY <2>1, HandlerFacts DEF ReconnectInv
  <2>5. QED
    BY <2>2, <2>3, <2>4, <1>t DEF Attended
<1>2. CASE Restart
  BY <1>2 DEF Restart, Attended, closeVars
<1>3. CASE (\E h \in Conn : CutLink(h)) \/ UNCHANGED reconnectVars
  BY <1>3 DEF CutLink, reconnectVars, serverVars, ctlVars, closeVars, watchers, Attended
<1>4. QED
  BY <1>1, <1>2, <1>3, ClientAttended DEF ReconnectNext, Settled

(* A client that believes it is connected, over a connection that lives,   *)
(* is served: its handler holds its address, the session table sends       *)
(* packets for that address to its connection once it is registered, and   *)
(* no other such client was given the same address, whatever links were    *)
(* cut and however often the server died before. And a client that waits   *)
(* over such a connection has a handler that will answer or hang up        *)
(* (daemon.go:402-448, client.go:209-283).                                 *)
THEOREM UpMeansServed ==
  ReconnectSpec =>
    [](/\ \A c \in Client : at[c] = "up" /\ conn[c] \in live =>
            /\ pc[conn[c]] \in {"register", "wait"}
            /\ pc[conn[c]] = "wait" => sessions[ip[conn[c]]] = conn[c]
       /\ \A c, d \in Client :
            c # d /\ at[c] = "up" /\ at[d] = "up" /\ {conn[c], conn[d]} \subseteq live
              => ip[conn[c]] # ip[conn[d]]
       /\ \A c \in Client : at[c] = "trying" /\ conn[c] \in live => pc[conn[c]] # "done")
<1>1. ReconnectInit => Attended
  BY DEF ReconnectInit, Attended
<1>2. ReconnectInv /\ Attended /\ [ReconnectNext]_reconnectVars => Attended'
  BY AttendedStep
<1>3. ASSUME ReconnectInv, Attended
      PROVE  /\ \A c \in Client : at[c] = "up" /\ conn[c] \in live =>
                  /\ pc[conn[c]] \in {"register", "wait"}
                  /\ pc[conn[c]] = "wait" => sessions[ip[conn[c]]] = conn[c]
             /\ \A c, d \in Client :
                  c # d /\ at[c] = "up" /\ at[d] = "up" /\ {conn[c], conn[d]} \subseteq live
                    => ip[conn[c]] # ip[conn[d]]
             /\ \A c \in Client : at[c] = "trying" /\ conn[c] \in live => pc[conn[c]] # "done"
  <2>t. /\ NoConn \notin Conn /\ live \subseteq Conn
        /\ \A c, d \in Client : c # d /\ conn[c] = conn[d] => conn[c] = NoConn
    BY <1>3, WatcherTypes
  <2>1. ASSUME NEW c \in Client, at[c] = "up", conn[c] \in live
        PROVE  /\ pc[conn[c]] \in {"register", "wait"}
               /\ pc[conn[c]] = "wait" => sessions[ip[conn[c]]] = conn[c]
               /\ conn[c] \in Conn /\ Holder(conn[c])
    BY <1>3, <2>1, <2>t DEF Attended, Holder, Holding, ReconnectInv, ServerInv, TableExact
  <2>2. ASSUME NEW c \in Client, NEW d \in Client, c # d, at[c] = "up", at[d] = "up",
               {conn[c], conn[d]} \subseteq live
        PROVE  ip[conn[c]] # ip[conn[d]]
    BY <1>3, <2>1, <2>2, <2>t DEF Attended, ReconnectInv, ServerInv, LeaseExclusive
  <2>3. QED
    BY <1>3, <2>1, <2>2 DEF Attended
<1>4. QED
  BY <1>1, <1>2, <1>3, ReconnectInvAlways, PTL DEF ReconnectSpec
=============================================================================
