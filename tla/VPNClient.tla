----------------------------- MODULE VPNClient -----------------------------
(***************************************************************************)
(* The client engine, client/go_core/client.go: connectionWatcher with     *)
(* connectUDP and setupTUN, the two copy loops it starts for every         *)
(* connection, and Stop, as threads over the fields of one VPNClient.      *)
(*                                                                         *)
(* c.mu protects little: connectUDP stores c.quicConn, c.dataConn and      *)
(* c.tunDev without it, and the loops read them without it.  So every      *)
(* access to a field is a step of its own; cleanup closes what a field     *)
(* refers to in one step and clears the field in the next.  A field is     *)
(* never cleared by anyone else in between, so its check and its Close are *)
(* one step.  Nor is c.tunDev stored while it is set (SetupClosesOld), so  *)
(* that its Close and its clearing are one step too.  A field is read and  *)
(* written in one piece, although an interface is two words.               *)
(* Connection k owns QUIC connection k, TUN device k, data socket k and    *)
(* the pair k of loops.                                                    *)
(*                                                                         *)
(* Every caller in the repository makes a new VPNClient for each Start.    *)
(***************************************************************************)
EXTENDS Integers, FiniteSets

CONSTANTS
  MaxConns,     \* QUIC connections the network lets through (bound)
  ServerProtos  \* the ALPN protocols of the server

ASSUME ClientAssumption == MaxConns \in Nat

VARIABLES
  running, mode,             \* c.running, c.activeMode
  quicConn, dataConn, tunDev,\* fields of c: the index of what they refer to
  quic, sock, tun,           \* what the operating system has open
  conns,                     \* connections so far; the last one is the watcher's
  watcher,                   \* where connectionWatcher is
  stop,                      \* where Stop is
  late,                      \* sockets stored since Stop looked at c.dataConn (history)
  tx, rx,                    \* tunToUdpLoop and udpToTunLoop of each connection
  crashed                    \* a goroutine panicked: the process is gone

fields == <<quicConn, dataConn, tunDev>>
opened == <<quic, sock, tun>>
loops  == <<tx, rx>>
clientVars == <<running, mode, fields, opened, conns, watcher, stop, late, loops,
                crashed>>

Conns    == 1 .. MaxConns
Injected == 0   \* the device of SetTUN and SetCustomTUN
Nil      == -1

NextProtos == {"vpn8-quic"}

Loop(at, on) == [at |-> at, on |-> on]

(* Stop cancels the context first and holds c.mu until it is done. *)
Cancelled == stop # "idle"
Locked    == stop \in {"quic", "quicNil", "data", "dataNil", "tun"}

(* Stop has looked at c.dataConn. *)
PastData  == stop \in {"dataNil", "tun", "done"}

ClientInit ==
  /\ running = FALSE /\ mode = "UDP"
  /\ quicConn = Nil /\ dataConn = Nil /\ tunDev \in {Nil, Injected}
  /\ quic = [k \in Conns |-> "none"] /\ sock = [k \in Conns |-> "none"]
  /\ tun = [k \in Conns \cup {Injected} |-> IF k = tunDev THEN "open" ELSE "none"]
  /\ conns = 0
  /\ watcher = "new" /\ stop = "idle" /\ late = {}
  /\ tx = [k \in Conns |-> Loop("none", Nil)] /\ rx = tx
  /\ crashed = FALSE

-----------------------------------------------------------------------------
(* Start and Stop *)

Start ==
  /\ watcher = "new" /\ ~running
  /\ running' = TRUE
  /\ watcher' = "top"
  /\ UNCHANGED <<mode, fields, opened, conns, stop, late, loops, crashed>>

(* What Stop leaves alone all along. *)
Bystanders == <<mode, conns, watcher, late, loops, crashed>>

StopBegins ==
  /\ stop = "idle" /\ running
  /\ stop' = "quic"
  /\ UNCHANGED <<running, fields, opened, Bystanders>>

Close(f, k) == IF k = Nil THEN f ELSE [f EXCEPT ![k] = "closed"]

StopClosesQuic ==
  /\ stop = "quic" /\ stop' = IF quicConn = Nil THEN "data" ELSE "quicNil"
  /\ quic' = Close(quic, quicConn)
  /\ UNCHANGED <<running, fields, sock, tun, Bystanders>>

StopClearsQuic ==
  /\ stop = "quicNil" /\ stop' = "data"
  /\ quicConn' = Nil
  /\ UNCHANGED <<running, dataConn, tunDev, opened, Bystanders>>

(* Faulty variant: the socket is forgotten without being closed. *)
StopDropsData ==
  /\ stop = "data" /\ stop' = IF dataConn = Nil THEN "tun" ELSE "dataNil"
  /\ UNCHANGED <<running, fields, opened, Bystanders>>

StopClosesData ==
  /\ stop = "data" /\ stop' = IF dataConn = Nil THEN "tun" ELSE "dataNil"
  /\ sock' = Close(sock, dataConn)
  /\ UNCHANGED <<running, fields, quic, tun, Bystanders>>

(* By now connectUDP may have stored another socket. *)
StopClearsData ==
  /\ stop = "dataNil" /\ stop' = "tun"
  /\ dataConn' = Nil
  /\ UNCHANGED <<running, quicConn, tunDev, opened, Bystanders>>

StopClosesTun ==
  /\ stop = "tun" /\ stop' = "done"
  /\ tun' = Close(tun, tunDev) /\ tunDev' = Nil
  /\ running' = FALSE
  /\ UNCHANGED <<quicConn, dataConn, quic, sock, Bystanders>>

(* What is left of a Stop that has begun. *)
StopRuns ==
  StopClosesQuic \/ StopClearsQuic \/ StopClosesData \/ StopClearsData \/ StopClosesTun

Stop == StopBegins \/ StopRuns

-----------------------------------------------------------------------------
(* connectionWatcher and connectUDP *)

Go(from, to) == watcher = from /\ watcher' = to

Rest == <<running, stop, late, loops, crashed>>

WatcherTop ==
  /\ watcher = "top"
  /\ watcher' = IF Cancelled THEN "done" ELSE "dial"
  /\ UNCHANGED <<mode, fields, opened, conns, Rest>>

(* A timeout, a refusal, a cancelled context, no common protocol. *)
DialFails == Go("dial", "failed") /\ UNCHANGED <<mode, fields, opened, conns, Rest>>

DialOK ==
  /\ NextProtos \cap ServerProtos # {} /\ conns < MaxConns
  /\ Go("dial", "dialed")
  /\ conns' = conns + 1
  /\ quic' = [quic EXCEPT ![conns + 1] = "open"]
  /\ UNCHANGED <<mode, fields, sock, tun, Rest>>

StoreQuic ==
  /\ Go("dialed", "stream")
  /\ quicConn' = conns
  /\ UNCHANGED <<mode, dataConn, tunDev, opened, conns, Rest>>

(* Faulty variant: the stream is opened whatever the context says. *)
OpenStreamNoCtx ==
  /\ Go("stream", "exchange")
  /\ quic[conns] = "open"
  /\ UNCHANGED <<mode, fields, opened, conns, Rest>>

(* OpenStreamSync looks at the context, the exchange that follows does not. *)
OpenStream ==
  /\ Go("stream", "exchange")
  /\ ~Cancelled /\ quic[conns] = "open"
  /\ UNCHANGED <<mode, fields, opened, conns, Rest>>

AuthOK ==
  /\ Go("exchange", "setup")
  /\ quic[conns] = "open"
  /\ UNCHANGED <<mode, fields, opened, conns, Rest>>

(* Every error return after the dial closes the connection. *)
ErrorReturn ==
  /\ watcher' = "failed"
  /\ quic' = [quic EXCEPT ![conns] = "closed"]
  /\ UNCHANGED <<mode, fields, sock, tun, conns, Rest>>

AuthFails == watcher \in {"stream", "exchange"} /\ ErrorReturn

(* Faulty variant: setupTUN leaves the old device to the collector. *)
SetupKeepsOld ==
  /\ ~Locked
  /\ Go("setup", "create")
  /\ tunDev' = Nil
  /\ UNCHANGED <<mode, quicConn, dataConn, opened, conns, Rest>>

(* The answer is stored, and setupTUN closes the old device, under c.mu. *)
SetupClosesOld ==
  /\ ~Locked
  /\ Go("setup", "create")
  /\ tun' = Close(tun, tunDev) /\ tunDev' = Nil
  /\ UNCHANGED <<mode, quicConn, dataConn, quic, sock, conns, Rest>>

CreateOK ==
  /\ Go("create", "store")
  /\ tun' = [tun EXCEPT ![conns] = "open"]
  /\ UNCHANGED <<mode, fields, quic, sock, conns, Rest>>

(* Faulty variant: the connection stays open. *)
CreateFailsKeepsConn ==
  /\ Go("create", "failed")
  /\ UNCHANGED <<mode, fields, opened, conns, Rest>>

CreateFails == watcher = "create" /\ ErrorReturn

StoreTun ==
  /\ Go("store", "plane")
  /\ tunDev' = conns
  /\ UNCHANGED <<mode, quicConn, dataConn, opened, conns, Rest>>

(* Faulty variant: the error of ListenPacket is not looked at. *)
ListenErrorIgnored ==
  Go("plane", "listen") /\ UNCHANGED <<mode, fields, opened, conns, Rest>>

(* No address, a key of the wrong size, no socket: the device stays. *)
PlaneFails == watcher = "plane" /\ ErrorReturn

Listen ==
  /\ Go("plane", "listen")
  /\ sock' = [sock EXCEPT ![conns] = "open"]
  /\ UNCHANGED <<mode, fields, quic, tun, conns, Rest>>

(* The socket of the previous connection, if any, is not closed. *)
StoreSock ==
  /\ Go("listen", "wait")
  /\ dataConn' = conns
  /\ tx' = [tx EXCEPT ![conns] = Loop("top", Nil)]
  /\ rx' = [rx EXCEPT ![conns] = Loop("top", Nil)]
  /\ late' = IF PastData THEN late \cup {conns} ELSE late
  /\ UNCHANGED <<running, mode, quicConn, tunDev, opened, conns, stop, crashed>>

WaitCancelled == watcher = "wait" /\ Cancelled /\ ErrorReturn

(* Faulty variant: the socket of the lost connection is taken away.        *)
WaitLostClears ==
  /\ Go("wait", "failed")
  /\ quic[conns] # "open"
  /\ sock' = Close(sock, dataConn) /\ dataConn' = Nil
  /\ UNCHANGED <<mode, quicConn, tunDev, quic, tun, conns, Rest>>

WaitLost ==
  /\ Go("wait", "failed")
  /\ quic[conns] # "open"
  /\ UNCHANGED <<mode, fields, opened, conns, Rest>>

(* Every return of connectUDP is an error; connectTCP is a stub that fails. *)
SwapToTCP ==
  /\ ~Locked
  /\ Go("failed", "sleep")
  /\ mode' = "TCP"
  /\ UNCHANGED <<fields, opened, conns, Rest>>

(* Faulty variant: one failed attempt is the last. *)
GivesUp == Go("sleep", "done") /\ UNCHANGED <<mode, fields, opened, conns, Rest>>

Wakes == Go("sleep", "top") /\ UNCHANGED <<mode, fields, opened, conns, Rest>>

Watcher ==
  \/ WatcherTop \/ DialFails \/ DialOK \/ StoreQuic \/ OpenStream \/ AuthOK \/ AuthFails
  \/ SetupClosesOld \/ CreateOK \/ CreateFails \/ StoreTun \/ PlaneFails
  \/ Listen \/ StoreSock \/ WaitCancelled \/ WaitLost \/ SwapToTCP \/ Wakes

(* quic-go: the peer closes, or answers no more keep-alives. *)
PeerGone(k) ==
  /\ quic[k] = "open"
  /\ quic' = [quic EXCEPT ![k] = "closed"]
  /\ UNCHANGED <<running, mode, fields, sock, tun, conns, watcher, stop, late, loops,
                 crashed>>

-----------------------------------------------------------------------------
(* The copy loops.  Loop.on is the device or socket a loop is blocked on. *)

Tx(k, at, on) ==
  /\ tx' = [tx EXCEPT ![k] = Loop(at, on)]
  /\ UNCHANGED <<running, mode, fields, opened, conns, watcher, stop, late, rx, crashed>>

Rx(k, at, on) ==
  /\ rx' = [rx EXCEPT ![k] = Loop(at, on)]
  /\ UNCHANGED <<running, mode, fields, opened, conns, watcher, stop, late, tx, crashed>>

(* A method call on a nil field. *)
Panic ==
  /\ crashed' = TRUE
  /\ UNCHANGED <<running, mode, fields, opened, conns, watcher, stop, late, loops>>

TxTop(k) ==
  /\ tx[k].at = "top"
  /\ \/ Cancelled /\ Tx(k, "done", Nil)
     \/ ~Cancelled /\ tunDev # Nil /\ Tx(k, "read", Nil)

TxRead(k) ==
  /\ tx[k].at = "read"
  /\ IF tunDev = Nil THEN Panic ELSE Tx(k, "blocked", tunDev)

(* A packet, which is dropped unless it is IPv4; or an error. *)
TxReadReturns(k) ==
  /\ tx[k].at = "blocked"
  /\ \/ tun[tx[k].on] = "open" /\ (Tx(k, "send", Nil) \/ Tx(k, "top", Nil))
     \/ Tx(k, "done", Nil)

TxSend(k) ==
  /\ tx[k].at = "send"
  /\ IF dataConn = Nil THEN Panic
     ELSE \/ sock[dataConn] = "open" /\ Tx(k, "top", Nil)
          \/ Tx(k, "done", Nil)

RxTop(k) ==
  /\ rx[k].at = "top"
  /\ Rx(k, IF Cancelled THEN "done" ELSE "call", Nil)

RxCall(k) ==
  /\ rx[k].at = "call"
  /\ IF dataConn = Nil THEN Panic ELSE Rx(k, "blocked", dataConn)

RxPacket(k) == rx[k].at = "blocked" /\ sock[rx[k].on] = "open" /\ Rx(k, "got", Nil)

RxReadError(k) == rx[k].at = "blocked" /\ sock[rx[k].on] # "open" /\ Rx(k, "done", Nil)

RxGot(k) == rx[k].at = "got" /\ Rx(k, IF tunDev = Nil THEN "top" ELSE "write", Nil)

RxWrite(k) == rx[k].at = "write" /\ IF tunDev = Nil THEN Panic ELSE Rx(k, "top", Nil)

RxLoop(k) == RxTop(k) \/ RxCall(k) \/ RxReadError(k) \/ RxGot(k) \/ RxWrite(k)

Halted == (crashed \/ watcher = "done") /\ UNCHANGED clientVars

ClientNext ==
  \/ /\ ~crashed
     /\ \/ Start \/ Stop \/ Watcher
        \/ \E k \in Conns :
             \/ PeerGone(k) \/ RxLoop(k) \/ RxPacket(k)
             \/ TxTop(k) \/ TxRead(k) \/ TxReadReturns(k) \/ TxSend(k)
  \/ Halted

ClientSpec == ClientInit /\ [][ClientNext]_clientVars

(* Goroutines run, and a dial, a listen or a sleep ends by itself.  The    *)
(* answer to an authentication may never come while its connection lives,  *)
(* a packet may never come, and a read of a closed device may stay         *)
(* blocked.                                                                *)
WatcherRuns == Watcher /\ (watcher = "exchange" => quic[conns] # "open")

ClientFairness ==
  /\ WF_clientVars(~crashed /\ StopRuns)
  /\ WF_clientVars(~crashed /\ WatcherRuns)
  /\ \A k \in Conns : WF_clientVars(~crashed /\ RxLoop(k))

(* A server that can be reached is reached by one of the attempts. *)
ClientLiveSpec == ClientSpec /\ ClientFairness /\ SF_clientVars(~crashed /\ DialOK)

-----------------------------------------------------------------------------
(* Properties *)

LoopsOK ==
  /\ tx \in [Conns -> [at : {"none", "top", "read", "blocked", "send", "done"},
                      on : Conns \cup {Injected, Nil}]]
  /\ rx \in [Conns -> [at : {"none", "top", "call", "blocked", "got", "write", "done"},
                      on : Conns \cup {Nil}]]
  /\ \A k \in Conns :
       /\ tx[k].at = "blocked" <=> tx[k].on # Nil
       /\ rx[k].at = "blocked" <=> rx[k].on # Nil

FieldsMade ==
  /\ quicConn # Nil => quic[quicConn] # "none"
  /\ dataConn # Nil => sock[dataConn] # "none"
  /\ tunDev # Nil => tun[tunDev] # "none"

(* Type invariant: a loop that is blocked is blocked on something, and a   *)
(* field refers only to what has been made, also when making it can fail   *)
(* (client.go:223-227, 264-269, 366-370).                                  *)
ClientTypeOK ==
  /\ running \in BOOLEAN /\ mode \in {"UDP", "TCP"} /\ crashed \in BOOLEAN
  /\ conns \in 0 .. MaxConns
  /\ quicConn \in Conns \cup {Nil} /\ dataConn \in Conns \cup {Nil}
  /\ tunDev \in Conns \cup {Injected, Nil}
  /\ quic \in [Conns -> {"none", "open", "closed"}]
  /\ sock \in [Conns -> {"none", "open", "closed"}]
  /\ tun \in [Conns \cup {Injected} -> {"none", "open", "closed"}]
  /\ watcher \in {"new", "top", "dial", "dialed", "stream", "exchange", "setup", "create",
                  "store", "plane", "listen", "wait", "failed", "sleep", "done"}
  /\ stop \in {"idle", "quic", "quicNil", "data", "dataNil", "tun", "done"}
  /\ late \subseteq Conns
  /\ LoopsOK /\ FieldsMade

InConnectUDP == {"dialed", "stream", "exchange", "setup", "create", "store", "plane",
                 "listen", "wait"}

(* A QUIC connection never outlives the call of connectUDP that made it,   *)
(* on any of its error paths and wherever Stop interrupts it, also when    *)
(* Stop looks at c.quicConn before it is set (client.go:143-149, 223-282). *)
ConnReleased ==
  \A k \in Conns : quic[k] = "open" => k = conns /\ watcher \in InConnectUDP

(* At most one TUN device is open, and it is the one in c.tunDev unless    *)
(* setupTUN has just created it: no reconnect forgets a device with its    *)
(* routes (client.go:157-160, 330-335, 366-370).                           *)
OneDevice ==
  \A d \in DOMAIN tun : tun[d] = "open" =>
    \/ d = tunDev /\ watcher # "store"
    \/ d = conns /\ watcher = "store" /\ tunDev = Nil

(* The engine implements the lifecycle that the local daemon relies on.    *)
Tunnel == [phase |-> IF stop = "idle" THEN IF running THEN "running" ELSE "new"
                     ELSE IF stop = "done" THEN "stopped" ELSE "stopping",
           alive |-> watcher \notin {"new", "done"},
           device |-> IF watcher = "store" THEN "new"
                      ELSE IF tunDev = Nil THEN "none" ELSE "held"]

Life == INSTANCE TunnelLifecycle WITH tunnel <- Tunnel

(* Refinement: Stop closes the device that c.tunDev holds and only that,   *)
(* and connectionWatcher ends only after Stop.                             *)
ImplementsLife == Life!LifeSpec

(* After Stop connectionWatcher ends, wherever it was, although neither    *)
(* the authentication exchange nor the sleep looks at the context          *)
(* (client.go:180-209, 292-321).                                           *)
StopEndsWatcher == Cancelled ~> watcher = "done" \/ crashed

(* The loops check a field in one step and call it in a later one, and the *)
(* receiver does not check the socket at all.  Until Stop is called a nil  *)
(* call is one of the device, between a reconnect's Close of the old       *)
(* device and its store of the new one: the socket is always there         *)
(* (client.go:269, 331-335, 370, 383-401, 417-425).                        *)
PanicsExplained == crashed => Cancelled \/ (conns > 1 /\ tunDev = Nil)

(* After Stop every udpToTunLoop ends, although it is blocked in a read    *)
(* that only closing its socket can end, with two exceptions: the socket   *)
(* was replaced in c.dataConn by a reconnect, or connectUDP stored it      *)
(* there after Stop had looked at the field, also when Stop then cleared   *)
(* the field (client.go:150-153, 269, 408-430).                            *)
StopEndsReader ==
  [](stop = "done" => <>[](crashed \/ \A k \in Conns :
        \/ rx[k].at \in {"none", "done"}
        \/ /\ rx[k].at = "blocked"
           /\ rx[k].on \in late \/ \E j \in Conns : j > rx[k].on /\ sock[j] # "none"))

(* A lost connection is dialled again unless Stop was called               *)
(* (client.go:190-202, 279-281).                                           *)
LossIsRetried ==
  watcher = "wait" /\ quic[conns] # "open" ~> watcher = "dial" \/ Cancelled \/ crashed

(* "expected client to establish QUIC connection" (client_test.go:135).    *)
EstablishesQUIC == running ~> quicConn # Nil \/ Cancelled \/ crashed

(* "expected active mode UDP" (client_test.go:131): a client that relays   *)
(* over its data socket says that its mode is UDP.                         *)
(* The code does not keep this: README, "Disagreements".                   *)
ModeTellsTransport == watcher = "wait" /\ quic[conns] = "open" => mode = "UDP"

(* "Inject the custom AppExtension TUNDevice into the client."             *)
(* (api_export.go:60): the device given to the client is the one it reads. *)
(* The code does not keep this: README, "Disagreements".                   *)
InjectedDeviceServes ==
  tun[Injected] # "none" => \A k \in Conns : tx[k].at = "blocked" => tx[k].on = Injected

(* "if c.tunDev == nil" (client.go:383), "if c.tunDev != nil"              *)
(* (client.go:424): a device or a socket that Stop took away is waited     *)
(* for or skipped, and never called.                                       *)
(* The code does not keep this: README, "Disagreements".                   *)
NoNilCall == ~crashed
=============================================================================
