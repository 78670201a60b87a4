----------------------------- MODULE DataPlane ------------------------------
(***************************************************************************)
(* The relay between clients and the TUN device, dataReadLoop and          *)
(* tunReadLoop of server/daemon/daemon.go, running against the control     *)
(* plane of VPNServer.                                                     *)
(*                                                                         *)
(* A client relays whatever IPv4 packets its own machine routes into the   *)
(* tunnel, so their inner source need not be the address it was told, from *)
(* an outer endpoint that NAT may change.  The network may lose, delay,    *)
(* reorder and duplicate datagrams: one stays in flight until it is lost,  *)
(* and may be read any number of times before.  One that does not decrypt  *)
(* or parse, or whose source is no client's address, finds no session, is  *)
(* skipped without a trace and is left out.                                *)
(* The rate limiters (TokenBucket) appear as a choice to drop.             *)
(***************************************************************************)
EXTENDS VPNServer

CONSTANTS
  Ports,       \* the outer ports NAT may give a client
  MaxDgrams    \* different datagrams that are ever sent (bound)

ASSUME RelayAssumption == Ports # {} /\ MaxDgrams \in Nat

VARIABLES
  uplink,    \* datagrams in flight to the data port: [owner, port, src]
  sent,      \* datagrams sent so far (history, for the properties)
  endpoint,  \* clientAddr of each session
  rx,        \* dataReadLoop and its local variables
  tx         \* tunReadLoop and its local variables

relayVars == <<uplink, sent, endpoint, rx, tx>>
dataVars  == <<serverVars, relayVars>>

Endpoint   == [owner : Conn, port : Ports]
Dgram      == [owner : Conn, port : Ports, src : Addr]
NoEndpoint == [owner |-> NoConn, port |-> 0]
NoDgram    == [owner |-> NoConn, port |-> 0, src |-> 0]

RxAt(place) == [at |-> place, dgram |-> NoDgram, sess |-> NoConn]
TxAt(place) == [at |-> place, dst |-> 0, sess |-> NoConn, to |-> NoEndpoint]

DataInit ==
  /\ ServerInit
  /\ uplink = {} /\ sent = {}
  /\ endpoint = [h \in Conn |-> NoEndpoint]
  /\ rx = RxAt("top")
  /\ tx = TxAt("top")

-----------------------------------------------------------------------------
(* Clients and the network. *)

(* The client of h has read the success response; it does not notice at    *)
(* once that its handler has gone.                                         *)
Informed(h) == ip[h] # NoIP /\ pc[h] # "respond"

(* tunToUdpLoop forwards any IPv4 packet, without a look at its source.    *)
ClientSends(h, p, a) ==
  LET d == [owner |-> h, port |-> p, src |-> a]
  IN  /\ Informed(h)
      /\ Cardinality(sent \cup {d}) <= MaxDgrams
      /\ uplink' = uplink \cup {d} /\ sent' = sent \cup {d}
      /\ UNCHANGED <<serverVars, endpoint, rx, tx>>

Lost(d) ==
  /\ uplink' = uplink \ {d}
  /\ UNCHANGED <<serverVars, sent, endpoint, rx, tx>>

-----------------------------------------------------------------------------
(* dataReadLoop *)

(* A step of the loop that changes only its own variables. *)
Rx(from, next) ==
  rx.at = from /\ rx' = next /\ UNCHANGED <<serverVars, uplink, sent, endpoint, tx>>

RxTop == Rx("top", RxAt(IF ctxDone THEN "done" ELSE "read"))

RxRead(d) == "data" \in open /\ Rx("read", [RxAt("lookup") EXCEPT !.dgram = d])

(* Faulty variant: a read error is retried for ever. *)
RxReadErrorRetried == "data" \notin open /\ Rx("read", RxAt("read"))

(* The socket is closed under the blocked read. *)
RxReadError == "data" \notin open /\ Rx("read", RxAt("done"))

(* The session stored under address a, captured for use after the table's  *)
(* read lock is gone.                                                      *)
RxFound(a) ==
  IF sessions[a] = NoConn THEN RxAt("top")
                          ELSE [rx EXCEPT !.at = "learn", !.sess = sessions[a]]

(* Faulty variant: the session is looked up by the packet's destination,   *)
(* which may be another client.                                            *)
RxLookupByDestination == MuFree /\ \E a \in ClientAddrs : Rx("lookup", RxFound(a))

RxLookup == MuFree /\ Rx("lookup", RxFound(rx.dgram.src))

(* upLimiter refuses the datagram. *)
RxLimited == Rx("learn", RxAt("top"))

(* The sender's endpoint becomes the session's return address, and the     *)
(* packet is written to the TUN device.                                    *)
RxLearn ==
  /\ rx.at = "learn"
  /\ endpoint' = [endpoint EXCEPT
                    ![rx.sess] = [owner |-> rx.dgram.owner, port |-> rx.dgram.port]]
  /\ rx' = RxAt("top")
  /\ UNCHANGED <<serverVars, uplink, sent, tx>>

RxStep == RxTop \/ RxReadError \/ RxLookup \/ RxLimited \/ RxLearn

-----------------------------------------------------------------------------
(* tunReadLoop *)

Tx(from, next) ==
  tx.at = from /\ tx' = next /\ UNCHANGED <<serverVars, uplink, sent, endpoint, rx>>

TxTop == Tx("top", TxAt(IF ctxDone THEN "done" ELSE "call"))

(* A read of the device begins while the device is open, and fails at once *)
(* when it has been closed since the check above.                          *)
TxReadBegins == "tun" \in open /\ Tx("call", TxAt("read"))
TxReadError  == "tun" \notin open /\ Tx("call", TxAt("done"))

(* A packet for a arrives at the device.  The descriptor is in blocking    *)
(* mode (tun_linux.go:47, 77), so a read that has begun ends this way only:*)
(* closing the os.File neither interrupts the read nor, while it lasts,    *)
(* closes the descriptor.                                                  *)
TxRead(a) == Tx("read", [TxAt("lookup") EXCEPT !.dst = a])

TxLookup ==
  /\ MuFree
  /\ Tx("lookup", IF sessions[tx.dst] = NoConn
                  THEN TxAt("top")
                  ELSE [tx EXCEPT !.at = "address", !.sess = sessions[tx.dst]])

(* downLimiter refuses the packet. *)
TxLimited == Tx("address", TxAt("top"))

(* The return address is read under the session's own lock ... *)
TxAddress ==
  Tx("address", IF endpoint[tx.sess] = NoEndpoint
                THEN TxAt("top")
                ELSE [tx EXCEPT !.at = "write", !.to = endpoint[tx.sess]])

(* ... and the packet is sent to it after the lock is gone. *)
TxWrite == Tx("write", TxAt("top"))

TxStep ==
  \/ TxTop \/ TxReadBegins \/ TxReadError
  \/ TxLookup \/ TxLimited \/ TxAddress \/ TxWrite

-----------------------------------------------------------------------------
RelayNext ==
  \/ \E h \in Conn, p \in Ports, a \in ClientAddrs : ClientSends(h, p, a)
  \/ \E d \in uplink : Lost(d) \/ RxRead(d)
  \/ RxStep
  \/ \E a \in ClientAddrs : TxRead(a)
  \/ TxStep

DataNext ==
  \/ ServerNext /\ UNCHANGED relayVars
  \/ RelayNext

DataSpec == DataInit /\ [][DataNext]_dataVars

(* Goroutines run once they are not blocked; nobody owes the server a      *)
(* packet on its TUN device or a datagram.                                 *)
FairDataSpec ==
  /\ DataSpec
  /\ \A h \in Conn : WF_dataVars(HandlerStep(h) /\ UNCHANGED relayVars)
  /\ WF_dataVars(AcceptExit /\ UNCHANGED relayVars)
  /\ WF_dataVars(CloseStep /\ UNCHANGED relayVars)
  /\ WF_dataVars(RxStep)
  /\ WF_dataVars(TxStep)

-----------------------------------------------------------------------------
(* Properties *)

(* Type invariant of the relay: an address is learnt and a packet is       *)
(* written only with a session in hand (daemon.go:486-506, 554-570).       *)
DataTypeOK ==
  /\ uplink \subseteq Dgram /\ sent \subseteq Dgram
  /\ endpoint \in [Conn -> Endpoint \cup {NoEndpoint}]
  /\ rx \in [at : {"top", "read", "lookup", "learn", "done"},
             dgram : Dgram \cup {NoDgram}, sess : Conn \cup {NoConn}]
  /\ tx \in [at : {"top", "call", "read", "lookup", "address", "write", "done"},
             dst : Addr, sess : Conn \cup {NoConn}, to : Endpoint \cup {NoEndpoint}]
  /\ rx.at = "learn" => rx.sess # NoConn
  /\ tx.at \in {"address", "write"} => tx.sess # NoConn

(* Some client sent, from endpoint e, a packet whose source was a.         *)
Claimed(e, a) == [owner |-> e.owner, port |-> e.port, src |-> a] \in sent

(* Traffic for an address goes only to an endpoint that a packet with that *)
(* address as its source came from: a session learns, and tunReadLoop      *)
(* uses, no return address that was claimed for another address, through   *)
(* every interleaving of lookup, reuse of the address, NAT rebinding and   *)
(* late datagrams (daemon.go:486-506, 554-570).                            *)
EndpointClaimed ==
  /\ \A h \in Conn : endpoint[h] # NoEndpoint => Claimed(endpoint[h], ip[h])
  /\ tx.at = "write" => Claimed(tx.to, tx.dst)

(* Traffic for an address never reaches a client that was not at some time *)
(* given it.  The server does not see to that: it holds as far as clients  *)
(* send packets with the address they were told as source (client.go:374-  *)
(* 405, daemon.go:486-506).                                                *)
EndpointProvenance ==
  /\ \A h \in Conn : endpoint[h] # NoEndpoint => ip[endpoint[h].owner] = ip[h]
  /\ tx.at = "write" => ip[tx.to.owner] = tx.dst

OwnSourcesOnly == \A d \in sent : d.src = ip[d.owner]

(* Once Close is called dataReadLoop returns: closing the data socket ends *)
(* the blocked read, and the loop takes the error path (daemon.go:471-481).*)
RxLoopExits == ctxDone ~> rx.at = "done"

(* tunReadLoop "routes them to the appropriate client" (daemon.go:520): a  *)
(* packet sent on behalf of a session goes to that session's own client.   *)
(* The code does not keep this: README, "Disagreements".                   *)
SentToSessionsClient == tx.at = "write" => tx.to.owner = tx.sess

(* "Close closes the underlying file descriptor and tears down the TUN     *)
(* device" (tun_linux.go:112): after Close no read keeps the descriptor    *)
(* of the device open.                                                     *)
(* The code does not keep this: README, "Disagreements".                   *)
TunTornDown == "tun" \notin open ~> tx.at = "done"
=============================================================================
