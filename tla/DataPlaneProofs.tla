--------------------------- MODULE DataPlaneProofs --------------------------
(***************************************************************************)
(* Proofs about the relay, for any number of connections, ports and        *)
(* datagrams in flight, and with Close running at any moment.              *)
(*                                                                         *)
(* Once a client has been told its address the address it was told never   *)
(* changes (Informed is stable), and what was sent stays sent.  So a       *)
(* session that was found under an address, and an endpoint learnt for it, *)
(* stay consistent with the datagram that brought it however long they are *)
(* kept.  The inductive invariant says exactly that of every place where   *)
(* one of them is kept.                                                    *)
(***************************************************************************)
EXTENDS DataPlane, VPNServerProofs

(* A handler that has not reached the pool has no address. *)
NoIPYet ==
  \A h \in Conn : pc[h] \in {"idle", "stream", "decode", "auth", "alloc"} => ip[h] = NoIP

(* h was told address a. *)
Told(h, a) == h \in Conn /\ Informed(h) /\ ip[h] = a

UplinkSent == uplink \subseteq sent

RxTold ==
  /\ rx.at \in {"lookup", "learn"} => rx.dgram \in sent
  /\ rx.at = "learn" => Told(rx.sess, rx.dgram.src)

EndpointTold ==
  \A h \in Conn : endpoint[h] # NoEndpoint => Informed(h) /\ Claimed(endpoint[h], ip[h])

TxTold ==
  /\ tx.at \in {"address", "write"} => Told(tx.sess, tx.dst)
  /\ tx.at = "write" => Claimed(tx.to, tx.dst)

ToldInv == NoIPYet /\ UplinkSent /\ RxTold /\ EndpointTold /\ TxTold

-----------------------------------------------------------------------------
(* The control plane never takes back the address a client was told. *)
LEMMA HandlerKeepsTold ==
  ASSUME ServerInv, NoIPYet, NEW h \in Conn, Accept(h) \/ HandlerStep(h) \/ PeerStep(h)
  PROVE  NoIPYet' /\ \A g, a : Told(g, a) => Told(g, a)'
<1>t. pc \in [Conn -> HandlerPcs] /\ ip \in [Conn -> Addr \cup {NoIP}]
  BY DEF ServerInv, ServerTypeOK
<1>m. ASSUME NEW from, NEW to, pc[h] = from, pc' = [pc EXCEPT ![h] = to], ip' = ip,
             to # "respond",
             to \in {"idle", "stream", "decode", "auth", "alloc"}
               => from \in {"idle", "stream", "decode", "auth", "alloc"}
      PROVE  NoIPYet' /\ \A g, a : Told(g, a) => Told(g, a)'
  BY <1>m, <1>t DEF NoIPYet, Told, Informed
<1>1. CASE Accept(h)
  BY <1>1, <1>m DEF Accept
<1>2. CASE StreamOpened(h) \/ StreamFailed(h) \/ RequestRead(h) \/ RequestInvalid(h)
           \/ RequestLost(h) \/ AuthOk(h) \/ AuthFailed(h) \/ NoIPsAvailable(h)
           \/ ResponseSent(h) \/ Wake(h)
  BY <1>2, <1>m DEF StreamOpened, StreamFailed, RequestRead, RequestInvalid, RequestLost,
                    AuthOk, AuthFailed, NoIPsAvailable, ResponseSent, Wake, Move
<1>3. CASE AllocateIP(h)
  <2>1. PICK a \in Addr : ip' = [ip EXCEPT ![h] = a]
    BY <1>3 DEF AllocateIP
  <2>2. pc[h] = "alloc" /\ pc' = [pc EXCEPT ![h] = "respond"] /\ ip[h] = NoIP
    BY <1>3 DEF AllocateIP, NoIPYet
  <2>3. QED
    BY <2>1, <2>2, <1>t DEF NoIPYet, Told, Informed
<1>4. CASE ResponseFailed(h)
  BY <1>4, <1>t DEF ResponseFailed, NoIPYet, Told, Informed
<1>5. CASE Register(h) \/ Unregister(h) \/ ReleaseIP(h) \/ Exit(h)
  BY <1>5, <1>m DEF Register, Unregister, ReleaseIP, Exit
<1>6. CASE PeerGone(h)
  BY <1>6 DEF PeerGone, NoIPYet, Told, Informed
<1>7. QED
  BY <1>1, <1>2, <1>3, <1>4, <1>5, <1>6 DEF HandlerStep, PeerStep

(* The same for every step of the control plane. *)
LEMMA ServerKeepsTold ==
  ASSUME ServerInv, NoIPYet, [ServerNext]_serverVars
  PROVE  NoIPYet' /\ \A g, a : Told(g, a) => Told(g, a)'
<1>1. CASE \E h \in Conn : Accept(h) \/ HandlerStep(h) \/ PeerStep(h)
  BY <1>1, HandlerKeepsTold
<1>2. CASE UNCHANGED <<pc, ip>>
  BY <1>2 DEF NoIPYet, Told, Informed
<1>3. CASE AcceptExit \/ CloseCall \/ CloseStep \/ UNCHANGED serverVars
  <2>1. UNCHANGED <<pc, ip>>
    BY <1>3 DEF AcceptExit, CloseCall, CloseStep, CloseLock, CloseSession, CloseUnlock,
                CloseResource, CloseRaw, serverVars, ctlVars
  <2>2. QED
    BY <2>1, <1>2
<1>4. QED
  BY <1>1, <1>3 DEF ServerNext, Terminated

(* A session found in the table was told the address it is found under. *)
LEMMA FoundTold ==
  ASSUME ServerInv, NEW a \in Addr, sessions[a] # NoConn
  PROVE  Told(sessions[a], a)
<1>1. sessions[a] \in Conn /\ pc[sessions[a]] \in {"wait", "unregister"} /\ ip[sessions[a]] = a
  BY DEF ServerInv, ServerTypeOK, TableExact
<1>2. a # NoIP
  BY PoolPart, ClientAddrType
<1>3. QED
  BY <1>1, <1>2 DEF Told, Informed

-----------------------------------------------------------------------------
(* A step of the relay leaves the control plane alone. *)
LEMMA RelayFrame ==
  ASSUME RelayNext
  PROVE  UNCHANGED serverVars
BY DEF RelayNext, ClientSends, Lost, RxRead, RxStep, RxTop, RxReadError, RxLookup, RxLimited,
       RxLearn, TxRead, TxStep, TxTop, TxReadBegins, TxReadError,
       TxLookup, TxLimited, TxAddress, TxWrite, Rx, Tx

(* Told depends on the control plane only. *)
LEMMA ToldFrame ==
  ASSUME UNCHANGED serverVars
  PROVE  /\ NoIPYet' <=> NoIPYet
         /\ \A g, a : Told(g, a)' <=> Told(g, a)
         /\ \A g : Informed(g)' <=> Informed(g)
         /\ ip' = ip
BY DEF serverVars, ctlVars, NoIPYet, Told, Informed

(* A control step keeps whatever the relay has stored consistent. *)
LEMMA ServerStepTold ==
  ASSUME ServerInv, DataTypeOK, ToldInv, [ServerNext]_serverVars, UNCHANGED relayVars
  PROVE  ToldInv'
<1>1. NoIPYet' /\ \A g, a : Told(g, a) => Told(g, a)'
  BY ServerKeepsTold DEF ToldInv
<1>2. UNCHANGED <<uplink, sent, endpoint, rx, tx>>
  BY DEF relayVars
<1>3. UplinkSent' /\ RxTold' /\ TxTold'
  BY <1>1, <1>2 DEF ToldInv, UplinkSent, RxTold, TxTold, Claimed
<1>4. EndpointTold'
  <2>1. ASSUME NEW h \in Conn, endpoint[h] # NoEndpoint
        PROVE  Informed(h)' /\ Claimed(endpoint[h], ip[h])'
    <3>1. Told(h, ip[h]) /\ Claimed(endpoint[h], ip[h])
      BY <2>1 DEF ToldInv, EndpointTold, Told
    <3>2. Informed(h)' /\ ip'[h] = ip[h]
      BY <3>1, <1>1 DEF Told
    <3>3. QED
      BY <3>1, <3>2, <1>2 DEF Claimed
  <2>2. QED
    BY <2>1, <1>2 DEF EndpointTold, Claimed
<1>5. QED
  BY <1>1, <1>3, <1>4 DEF ToldInv

(* A step of the relay stores only what is consistent with what it read. *)
LEMMA RelayStepTold ==
  ASSUME ServerInv, DataTypeOK, ToldInv, RelayNext
  PROVE  ToldInv'
<1>f. UNCHANGED serverVars
  BY RelayFrame
<1>g. /\ NoIPYet' /\ ip' = ip
      /\ \A g, a : Told(g, a)' <=> Told(g, a)
      /\ \A g : Informed(g)' <=> Informed(g)
  BY <1>f, ToldFrame DEF ToldInv
<1>u. uplink' = uplink /\ sent' = sent => UplinkSent'
  BY DEF ToldInv, UplinkSent
<1>r. rx' = rx /\ sent \subseteq sent' => RxTold'
  BY <1>g DEF ToldInv, RxTold
<1>e. endpoint' = endpoint /\ sent \subseteq sent' => EndpointTold'
  BY <1>g DEF ToldInv, EndpointTold, Claimed
<1>x. tx' = tx /\ sent \subseteq sent' => TxTold'
  BY <1>g DEF ToldInv, TxTold, Claimed
<1>1. ASSUME NEW h \in Conn, NEW p \in Ports, NEW a \in ClientAddrs, ClientSends(h, p, a)
      PROVE  ToldInv'
  <2>1. UplinkSent' /\ sent \subseteq sent'
    BY <1>1 DEF ClientSends, ToldInv, UplinkSent
  <2>2. QED
    BY <1>1, <2>1, <1>g, <1>r, <1>e, <1>x DEF ClientSends, ToldInv
<1>2. ASSUME NEW d \in uplink, Lost(d)
      PROVE  ToldInv'
  <2>1. UplinkSent'
    BY <1>2 DEF Lost, ToldInv, UplinkSent
  <2>2. QED
    BY <1>2, <2>1, <1>g, <1>r, <1>e, <1>x DEF Lost, ToldInv
<1>3. ASSUME NEW next, NEW from, Rx(from, next),
             next.at \in {"lookup", "learn"} => next.dgram \in sent,
             next.at = "learn" => Told(next.sess, next.dgram.src)
      PROVE  ToldInv'
  <2>1. RxTold'
    BY <1>3, <1>g DEF Rx, RxTold
  <2>2. QED
    BY <1>3, <2>1, <1>g, <1>u, <1>e, <1>x DEF Rx, ToldInv
<1>4. ASSUME NEW d \in uplink, RxRead(d)
      PROVE  ToldInv'
  BY <1>4, <1>3 DEF RxRead, RxAt, ToldInv, UplinkSent
<1>5. CASE RxTop \/ RxReadError \/ RxLimited
  BY <1>5, <1>3 DEF RxTop, RxReadError, RxLimited, RxAt
<1>6. CASE RxLookup
  <2>1. rx.at = "lookup" /\ rx.dgram \in sent /\ Rx("lookup", RxFound(rx.dgram.src))
    BY <1>6 DEF RxLookup, Rx, ToldInv, RxTold
  <2>2. rx.dgram.src \in Addr
    BY <2>1 DEF DataTypeOK, Dgram
  <2>3. CASE sessions[rx.dgram.src] = NoConn
    BY <2>1, <2>3, <1>3 DEF RxFound, RxAt
  <2>4. CASE sessions[rx.dgram.src] # NoConn
    <3>1. Told(sessions[rx.dgram.src], rx.dgram.src)
      BY <2>2, <2>4, FoundTold
    <3> DEFINE next == [rx EXCEPT !.at = "learn", !.sess = sessions[rx.dgram.src]]
    <3>2. RxFound(rx.dgram.src) = next
      BY <2>4 DEF RxFound
    <3>3. next.dgram = rx.dgram /\ next.sess = sessions[rx.dgram.src]
      BY DEF DataTypeOK
    <3>4. QED
      BY <2>1, <3>1, <3>2, <3>3, <1>3
  <2>5. QED
    BY <2>3, <2>4
<1>7. CASE RxLearn
  <2>1. rx.dgram \in sent /\ rx.dgram \in Dgram /\ Told(rx.sess, rx.dgram.src)
    BY <1>7 DEF RxLearn, ToldInv, RxTold, DataTypeOK
  <2>2. endpoint' = [endpoint EXCEPT
                       ![rx.sess] = [owner |-> rx.dgram.owner, port |-> rx.dgram.port]]
    BY <1>7 DEF RxLearn
  <2>3. EndpointTold'
    <3>1. SUFFICES ASSUME NEW h \in Conn, endpoint'[h] # NoEndpoint
                   PROVE  Informed(h) /\ Claimed(endpoint'[h], ip[h])
      BY <1>7, <1>g DEF EndpointTold, Claimed, RxLearn
    <3>2. CASE h = rx.sess
      <4>1. endpoint'[h] = [owner |-> rx.dgram.owner, port |-> rx.dgram.port]
        BY <3>2, <2>2 DEF DataTypeOK
      <4>2. ip[h] = rx.dgram.src /\ Informed(h)
        BY <3>2, <2>1 DEF Told
      <4>3. rx.dgram = [owner |-> rx.dgram.owner, port |-> rx.dgram.port,
                        src |-> rx.dgram.src]
        BY <2>1 DEF Dgram
      <4>4. QED
        BY <4>1, <4>2, <4>3, <2>1 DEF Claimed
    <3>3. CASE h # rx.sess
      BY <3>1, <3>3, <2>2 DEF DataTypeOK, ToldInv, EndpointTold
    <3>4. QED
      BY <3>2, <3>3
  <2>4. RxTold'
    BY <1>7 DEF RxLearn, RxAt, RxTold
  <2>5. QED
    BY <1>7, <2>3, <2>4, <1>g, <1>u, <1>x DEF RxLearn, ToldInv
<1>8. ASSUME NEW next, NEW from, Tx(from, next),
             next.at \in {"address", "write"} => Told(next.sess, next.dst),
             next.at = "write" => Claimed(next.to, next.dst)
      PROVE  ToldInv'
  <2>1. TxTold'
    BY <1>8, <1>g DEF Tx, TxTold, Claimed
  <2>2. QED
    BY <1>8, <2>1, <1>g, <1>u, <1>r, <1>e DEF Tx, ToldInv
<1>9. CASE TxTop \/ TxReadBegins \/ TxReadError \/ TxLimited \/ TxWrite
           \/ \E a \in ClientAddrs : TxRead(a)
  BY <1>9, <1>8 DEF TxTop, TxReadBegins, TxReadError, TxLimited, TxWrite, TxRead, TxAt
<1>10. CASE TxLookup
  <2>1. CASE sessions[tx.dst] = NoConn
    BY <1>10, <2>1, <1>8 DEF TxLookup, TxAt
  <2>2. CASE sessions[tx.dst] # NoConn
    <3> DEFINE next == [tx EXCEPT !.at = "address", !.sess = sessions[tx.dst]]
    <3>1. Told(sessions[tx.dst], tx.dst)
      BY <2>2, FoundTold DEF DataTypeOK
    <3>2. next.at = "address" /\ next.dst = tx.dst /\ next.sess = sessions[tx.dst]
      BY DEF DataTypeOK
    <3>3. Tx("lookup", next)
      BY <1>10, <2>2 DEF TxLookup
    <3>4. QED
      BY <3>1, <3>2, <3>3, <1>8
  <2>3. QED
    BY <2>1, <2>2
<1>11. CASE TxAddress
  <2>1. Told(tx.sess, tx.dst)
    BY <1>11 DEF TxAddress, Tx, ToldInv, TxTold
  <2>2. CASE endpoint[tx.sess] = NoEndpoint
    BY <1>11, <2>2, <1>8 DEF TxAddress, TxAt
  <2>3. CASE endpoint[tx.sess] # NoEndpoint
    <3> DEFINE next == [tx EXCEPT !.at = "write", !.to = endpoint[tx.sess]]
    <3>1. Claimed(endpoint[tx.sess], tx.dst)
      BY <2>1, <2>3 DEF ToldInv, EndpointTold, Told
    <3>2. next.at = "write" /\ next.dst = tx.dst /\ next.sess = tx.sess
          /\ next.to = endpoint[tx.sess]
      BY DEF DataTypeOK
    <3>3. Tx("address", next)
      BY <1>11, <2>3 DEF TxAddress
    <3>4. QED
      BY <2>1, <3>1, <3>2, <3>3, <1>8
  <2>4. QED
    BY <2>2, <2>3
<1>12. QED
  BY <1>1, <1>2, <1>4, <1>5, <1>6, <1>7, <1>9, <1>10, <1>11 DEF RelayNext, RxStep, TxStep

-----------------------------------------------------------------------------
(* The local variables of a loop at the places it jumps to. *)
LEMMA LocalTypes ==
  /\ \A p \in {"top", "read", "lookup", "done"} :
       /\ RxAt(p).at = p /\ RxAt(p).dgram = NoDgram /\ RxAt(p).sess = NoConn
       /\ RxAt(p) \in [at : {"top", "read", "lookup", "learn", "done"},
                       dgram : Dgram \cup {NoDgram}, sess : Conn \cup {NoConn}]
  /\ \A p \in {"top", "call", "read", "lookup", "done"} :
       /\ TxAt(p).at = p /\ TxAt(p).sess = NoConn
       /\ TxAt(p) \in [at : {"top", "call", "read", "lookup", "address", "write", "done"},
                       dst : Addr, sess : Conn \cup {NoConn},
                       to : Endpoint \cup {NoEndpoint}]
<1>1. 0 \in Addr
  BY ConfsAssumption DEF Addr
<1>2. QED
  BY <1>1 DEF RxAt, TxAt

(* The relay keeps its types. *)
LEMMA RelayStepType ==
  ASSUME ServerInv, DataTypeOK, ToldInv, RelayNext
  PROVE  DataTypeOK'
<1>a. ip \in [Conn -> Addr \cup {NoIP}] /\ sessions \in [Addr -> Conn \cup {NoConn}]
  BY DEF ServerInv, ServerTypeOK
<1>1. ASSUME NEW h \in Conn, NEW p \in Ports, NEW a \in ClientAddrs, ClientSends(h, p, a)
      PROVE  DataTypeOK'
  <2>1. [owner |-> h, port |-> p, src |-> a] \in Dgram
    BY PoolPart, ClientAddrType DEF Dgram
  <2>2. QED
    BY <1>1, <2>1 DEF ClientSends, DataTypeOK
<1>2. ASSUME NEW d \in uplink, Lost(d)
      PROVE  DataTypeOK'
  BY <1>2 DEF Lost, DataTypeOK
<1>3. ASSUME NEW next, NEW from, Rx(from, next),
             next \in [at : {"top", "read", "lookup", "learn", "done"},
                      dgram : Dgram \cup {NoDgram}, sess : Conn \cup {NoConn}],
             next.at = "learn" => next.sess # NoConn
      PROVE  DataTypeOK'
  BY <1>3 DEF Rx, DataTypeOK
<1>4. ASSUME NEW d \in uplink, RxRead(d)
      PROVE  DataTypeOK'
  <2> DEFINE next == [RxAt("lookup") EXCEPT !.dgram = d]
  <2>1. next = [at |-> "lookup", dgram |-> d, sess |-> NoConn]
    BY DEF RxAt
  <2>2. d \in Dgram /\ Rx("read", next)
    BY <1>4 DEF RxRead, DataTypeOK
  <2>3. QED
    BY <1>3, <2>1, <2>2
<1>5. CASE RxTop \/ RxReadError \/ RxLimited
  BY <1>5, <1>3, LocalTypes DEF RxTop, RxReadError, RxLimited
<1>6. CASE RxLookup
  <2>1. Rx("lookup", RxFound(rx.dgram.src))
    BY <1>6 DEF RxLookup
  <2>2. CASE sessions[rx.dgram.src] = NoConn
    BY <2>1, <2>2, <1>3, LocalTypes DEF RxFound
  <2>3. CASE sessions[rx.dgram.src] # NoConn
    <3> DEFINE next == [rx EXCEPT !.at = "learn", !.sess = sessions[rx.dgram.src]]
    <3>1. rx.dgram.src \in Addr
      BY <2>1 DEF DataTypeOK, Rx, ToldInv, RxTold, Dgram
    <3>2. next \in [at : {"top", "read", "lookup", "learn", "done"},
                   dgram : Dgram \cup {NoDgram}, sess : Conn \cup {NoConn}]
          /\ next.sess = sessions[rx.dgram.src]
      BY <3>1, <1>a DEF DataTypeOK
    <3>3. Rx("lookup", next)
      BY <2>1, <2>3 DEF RxFound
    <3>4. QED
      BY <1>3, <2>3, <3>2, <3>3
  <2>4. QED
    BY <2>2, <2>3
<1>7. CASE RxLearn
  <2>1. rx.dgram \in Dgram
    BY <1>7 DEF RxLearn, DataTypeOK, ToldInv, RxTold
  <2>2. QED
    BY <1>7, <2>1, LocalTypes DEF RxLearn, DataTypeOK, Endpoint, Dgram
<1>8. ASSUME NEW next, NEW from, Tx(from, next),
             next \in [at : {"top", "call", "read", "lookup", "address", "write", "done"},
                      dst : Addr, sess : Conn \cup {NoConn},
                      to : Endpoint \cup {NoEndpoint}],
             next.at \in {"address", "write"} => next.sess # NoConn
      PROVE  DataTypeOK'
  BY <1>8 DEF Tx, DataTypeOK
<1>9. CASE TxTop \/ TxReadBegins \/ TxReadError \/ TxLimited \/ TxWrite
  BY <1>9, <1>8, LocalTypes DEF TxTop, TxReadBegins, TxReadError, TxLimited, TxWrite
<1>10. ASSUME NEW a \in ClientAddrs, TxRead(a)
       PROVE  DataTypeOK'
  <2> DEFINE next == [TxAt("lookup") EXCEPT !.dst = a]
  <2>1. next = [at |-> "lookup", dst |-> a, sess |-> NoConn, to |-> NoEndpoint]
    BY DEF TxAt
  <2>2. a \in Addr
    BY PoolPart, ClientAddrType
  <2>3. QED
    BY <1>8, <1>10, <2>1, <2>2 DEF TxRead
<1>11. CASE TxLookup
  <2>1. CASE sessions[tx.dst] = NoConn
    BY <1>11, <2>1, <1>8, LocalTypes DEF TxLookup
  <2>2. CASE sessions[tx.dst] # NoConn
    <3> DEFINE next == [tx EXCEPT !.at = "address", !.sess = sessions[tx.dst]]
    <3>1. next \in [at : {"top", "call", "read", "lookup", "address", "write", "done"},
                   dst : Addr, sess : Conn \cup {NoConn}, to : Endpoint \cup {NoEndpoint}]
          /\ next.sess = sessions[tx.dst]
      BY <1>a DEF DataTypeOK
    <3>2. Tx("lookup", next)
      BY <1>11, <2>2 DEF TxLookup
    <3>3. QED
      BY <1>8, <2>2, <3>1, <3>2
  <2>3. QED
    BY <2>1, <2>2
<1>12. CASE TxAddress
  <2>1. CASE endpoint[tx.sess] = NoEndpoint
    BY <1>12, <2>1, <1>8, LocalTypes DEF TxAddress
  <2>2. CASE endpoint[tx.sess] # NoEndpoint
    <3> DEFINE next == [tx EXCEPT !.at = "write", !.to = endpoint[tx.sess]]
    <3>1. tx.at = "address" /\ tx.sess \in Conn
      BY <1>12 DEF TxAddress, Tx, DataTypeOK
    <3>2. next \in [at : {"top", "call", "read", "lookup", "address", "write", "done"},
                   dst : Addr, sess : Conn \cup {NoConn}, to : Endpoint \cup {NoEndpoint}]
          /\ next.sess = tx.sess
      BY <3>1 DEF DataTypeOK
    <3>3. Tx("address", next)
      BY <1>12, <2>2 DEF TxAddress
    <3>4. QED
      BY <1>8, <3>1, <3>2, <3>3, ServerAssumption
  <2>3. QED
    BY <2>1, <2>2
<1>13. QED
  BY <1>1, <1>2, <1>4, <1>5, <1>6, <1>7, <1>9, <1>10, <1>11, <1>12 DEF RelayNext, RxStep, TxStep

-----------------------------------------------------------------------------
(* The relay adds no behaviour to the control plane: whatever is proved of *)
(* VPNServer alone holds with the relay running beside it.                 *)
THEOREM RelayKeepsServer == DataSpec => ServerSpec
<1>1. DataInit => ServerInit
  BY DEF DataInit
<1>2. [DataNext]_dataVars => [ServerNext]_serverVars
  BY RelayFrame DEF DataNext, dataVars
<1>3. QED
  BY <1>1, <1>2, PTL DEF DataSpec, ServerSpec

(* The inductive invariant of the relay. *)
LEMMA DataInvAlways == DataSpec => [](DataTypeOK /\ ToldInv)
<1>1. DataInit => DataTypeOK /\ ToldInv
  <2> SUFFICES ASSUME DataInit PROVE DataTypeOK /\ ToldInv
    OBVIOUS
  <2>2. DataTypeOK
    BY LocalTypes DEF DataInit, DataTypeOK
  <2>3. NoIPYet
    BY DEF DataInit, ServerInit, NoIPYet
  <2>4. UplinkSent /\ EndpointTold
    BY DEF DataInit, UplinkSent, EndpointTold
  <2>5. RxTold /\ TxTold
    BY LocalTypes DEF DataInit, RxTold, TxTold
  <2>6. QED
    BY <2>2, <2>3, <2>4, <2>5 DEF ToldInv
<1>2. ServerInv /\ DataTypeOK /\ ToldInv /\ [DataNext]_dataVars => (DataTypeOK /\ ToldInv)'
  <2> SUFFICES ASSUME ServerInv, DataTypeOK, ToldInv, [DataNext]_dataVars
               PROVE  DataTypeOK' /\ ToldInv'
    OBVIOUS
  <2>2. CASE RelayNext
    BY <2>2, RelayStepTold, RelayStepType
  <2>3. CASE (ServerNext /\ UNCHANGED relayVars) \/ UNCHANGED dataVars
    <3>1. [ServerNext]_serverVars /\ UNCHANGED relayVars
      BY <2>3 DEF dataVars
    <3>2. DataTypeOK'
      BY <3>1 DEF relayVars, DataTypeOK
    <3>3. QED
      BY <3>1, <3>2, ServerStepTold
  <2>4. QED
    BY <2>2, <2>3 DEF DataNext
<1>3. QED
  BY <1>1, <1>2, RelayKeepsServer, ServerInvAlways, PTL DEF DataSpec

(* A return address, stored or about to be used, is one from which a      *)
(* packet claimed the address that the traffic is for (daemon.go:486-506,  *)
(* 554-570), for any number of clients, ports and datagrams and whatever   *)
(* the clients send.                                                       *)
THEOREM EndpointsClaimed == DataSpec => []EndpointClaimed
<1>1. ToldInv => EndpointClaimed
  BY DEF ToldInv, EndpointTold, TxTold, EndpointClaimed
<1>2. QED
  BY <1>1, DataInvAlways, PTL

(* What that is worth: as long as every packet has carried the address its *)
(* sender was told (which nothing in client.go:374-405 or                  *)
(* daemon.go:486-506 sees to), traffic for an address goes only to a client*)
(* that was given it.                                                      *)
THEOREM OwnSourcesKeepProvenance ==
  DataSpec => [](OwnSourcesOnly => EndpointProvenance)
<1>1. EndpointClaimed => (OwnSourcesOnly => EndpointProvenance)
  BY DEF EndpointClaimed, Claimed, OwnSourcesOnly, EndpointProvenance
<1>2. QED
  BY <1>1, EndpointsClaimed, PTL

(* Type correctness of the relay: no address is learnt and no packet is    *)
(* written without a session (daemon.go:458-576).                          *)
THEOREM DataTypeCorrect == DataSpec => []DataTypeOK
BY DataInvAlways, PTL
=============================================================================
