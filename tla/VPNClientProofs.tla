-------------------------- MODULE VPNClientProofs --------------------------
(***************************************************************************)
(* Theorems about the programs on the client's machine: VPNClient, for any *)
(* number of reconnects and any server, and LocalDaemon, which runs one    *)
(* engine after another, for any number of them.                           *)
(*                                                                         *)
(* ClientInv is inductive: types, ConnReleased and OneDevice, with what    *)
(* they need of the watcher (a connection exists while connectUDP runs,    *)
(* and no device is in c.tunDev while one is being created) and of Stop    *)
(* (it runs once, after Start).  SocketsInv adds where the data sockets    *)
(* are, for what Stop leaves behind.                                       *)
(*                                                                         *)
(* DaemonInv is inductive: types, OneRunning and the DNS override, with    *)
(* what they need of stopVPN and of the engines not yet made; Routed adds  *)
(* which devices have the override routes.  The daemon is seen through the *)
(* contract of an engine, TunnelLifecycle, so the two halves of this       *)
(* module share no state.                                                  *)
(***************************************************************************)
EXTENDS VPNClient, LocalDaemon, TLAPS

(* Where the watcher and Stop are, and what that says of the fields. *)
Threads ==
  /\ watcher \in InConnectUDP => conns \in Conns
  /\ watcher \in {"create", "store"} => tunDev = Nil
  /\ watcher = "new" => ~running /\ stop = "idle"
  /\ stop = "idle" => (running <=> watcher # "new")
  /\ running <=> (watcher # "new" /\ stop # "done")

(* What the watcher is about to store has been made.                       *)
Made ==
  /\ watcher \in InConnectUDP => quic[conns] # "none"
  /\ watcher = "store" => tun[conns] # "none"
  /\ watcher = "listen" => sock[conns] # "none"

ClientInv == ClientTypeOK /\ Threads /\ Made /\ ConnReleased /\ OneDevice

-----------------------------------------------------------------------------
(* Initially no connection and at most the injected device is open. *)
LEMMA InitInv == ClientInit => ClientInv
  <1> SUFFICES ASSUME ClientInit PROVE ClientInv
    OBVIOUS
  <1>1. LoopsOK
    BY DEF ClientInit, LoopsOK, Loop, Conns, Injected, Nil
  <1>2. conns \in 0 .. MaxConns
    BY ClientAssumption, SMT DEF ClientInit, ClientAssumption
  <1>3. tunDev \in Conns \cup {Injected, Nil}
    BY Zenon DEF ClientInit
  <1>4. quic \in [Conns -> {"none", "open", "closed"}] /\ sock \in [Conns -> {"none", "open", "closed"}]
    BY Zenon DEF ClientInit
  <1>5. tun \in [Conns \cup {Injected} -> {"none", "open", "closed"}]
    BY Zenon DEF ClientInit
  <1>f. FieldsMade /\ Made
    BY DEF ClientInit, FieldsMade, Made, InConnectUDP, Injected, Nil
  <1>6. ClientTypeOK
    BY <1>1, <1>2, <1>3, <1>4, <1>5, <1>f, Zenon DEF ClientInit, ClientTypeOK
  <1>7. Threads
    BY DEF ClientInit, Threads, InConnectUDP
  <1>8. ConnReleased
    BY DEF ClientInit, ConnReleased
  <1>9. OneDevice
    BY DEF ClientInit, OneDevice
  <1> QED BY <1>f, <1>6, <1>7, <1>8, <1>9 DEF ClientInv

-----------------------------------------------------------------------------
(* The copy loops touch their own places only, and a panic nothing but     *)
(* crashed.                                                                *)

(* What a step of tunToUdpLoop leaves alone, and where it can be after. *)
LEMMA TxKeeps ==
  ASSUME LoopsOK, NEW k \in Conns,
         NEW at \in {"top", "read", "blocked", "send", "done"},
         NEW on \in Conns \cup {Injected, Nil}, at = "blocked" <=> on # Nil, Tx(k, at, on)
  PROVE  LoopsOK'
  <1>1. Loop(at, on) \in [at : {"none", "top", "read", "blocked", "send", "done"},
                          on : Conns \cup {Injected, Nil}]
    BY Zenon DEF Loop
  <1>2. tx' \in [Conns -> [at : {"none", "top", "read", "blocked", "send", "done"},
                           on : Conns \cup {Injected, Nil}]]
    BY <1>1, Zenon DEF Tx, LoopsOK
  <1>3. \A j \in Conns : tx'[j] = IF j = k THEN Loop(at, on) ELSE tx[j]
    BY Zenon DEF Tx, LoopsOK
  <1>4. \A j \in Conns : tx'[j].at = "blocked" <=> tx'[j].on # Nil
    BY <1>3 DEF Loop, LoopsOK
  <1>5. rx' = rx
    BY DEF Tx
  <1> QED BY <1>2, <1>4, <1>5, Zenon DEF LoopsOK, Conns

(* The same of udpToTunLoop. *)
LEMMA RxKeeps ==
  ASSUME LoopsOK, NEW k \in Conns,
         NEW at \in {"top", "call", "blocked", "got", "write", "done"},
         NEW on \in Conns \cup {Nil}, at = "blocked" <=> on # Nil, Rx(k, at, on)
  PROVE  LoopsOK'
  <1>1. Loop(at, on) \in [at : {"none", "top", "call", "blocked", "got", "write", "done"},
                          on : Conns \cup {Nil}]
    BY Zenon DEF Loop
  <1>2. rx' \in [Conns -> [at : {"none", "top", "call", "blocked", "got", "write", "done"},
                           on : Conns \cup {Nil}]]
    BY <1>1, Zenon DEF Rx, LoopsOK
  <1>3. \A j \in Conns : rx'[j] = IF j = k THEN Loop(at, on) ELSE rx[j]
    BY Zenon DEF Rx, LoopsOK
  <1>4. \A j \in Conns : rx'[j].at = "blocked" <=> rx'[j].on # Nil
    BY <1>3 DEF Loop, LoopsOK
  <1>5. tx' = tx
    BY DEF Rx
  <1> QED BY <1>2, <1>4, <1>5, Zenon DEF LoopsOK, Conns

LoopStep(k) ==
  RxLoop(k) \/ RxPacket(k) \/ TxTop(k) \/ TxRead(k) \/ TxReadReturns(k) \/ TxSend(k)

coreVars == <<running, mode, fields, opened, conns, watcher, stop, late>>

(* A loop changes nothing that another thread looks at. *)
LEMMA LoopKeepsCore ==
  ASSUME NEW k \in Conns, LoopStep(k)
  PROVE  UNCHANGED coreVars
  BY Zenon DEF LoopStep, RxLoop, RxTop, RxCall, RxReadError, RxGot, RxWrite, RxPacket, TxTop,
     TxRead, TxReadReturns, TxSend, Tx, Rx, Panic, coreVars, fields, opened

(* A loop stays in its own control points, and blocks on a field that is set. *)
LEMMA LoopKeepsLoops ==
  ASSUME ClientTypeOK, NEW k \in Conns, LoopStep(k)
  PROVE  LoopsOK' /\ crashed' \in BOOLEAN
  <1> USE DEF ClientTypeOK
  <1>0. /\ LoopsOK /\ crashed \in BOOLEAN
        /\ dataConn \in Conns \cup {Nil} /\ tunDev \in Conns \cup {Injected, Nil}
        /\ Nil \in Conns \cup {Nil} /\ Nil \in Conns \cup {Injected, Nil}
    OBVIOUS
  <1> HIDE DEF ClientTypeOK
  <1>1. CASE Panic
    BY <1>0, <1>1, Zenon DEF Panic, loops, LoopsOK, Conns
  <1>2. CASE \E at \in {"top", "read", "send", "done"} : Tx(k, at, Nil)
    <2> PICK at \in {"top", "read", "send", "done"} : Tx(k, at, Nil)
      BY <1>2
    <2>1. at \in {"top", "read", "blocked", "send", "done"} /\ (at = "blocked" <=> Nil # Nil)
      OBVIOUS
    <2>2. LoopsOK'
      BY <1>0, <2>1, TxKeeps, Zenon
    <2> QED BY <1>0, <2>2, Zenon DEF Tx
  <1>3. CASE tunDev # Nil /\ Tx(k, "blocked", tunDev)
    <2>1. LoopsOK'
      BY <1>0, <1>3, TxKeeps, Zenon
    <2> QED BY <1>0, <1>3, <2>1, Zenon DEF Tx
  <1>4. CASE \E at \in {"top", "call", "got", "write", "done"} : Rx(k, at, Nil)
    <2> PICK at \in {"top", "call", "got", "write", "done"} : Rx(k, at, Nil)
      BY <1>4
    <2>1. at \in {"top", "call", "blocked", "got", "write", "done"} /\ (at = "blocked" <=> Nil # Nil)
      OBVIOUS
    <2>2. LoopsOK'
      BY <1>0, <2>1, RxKeeps, Zenon
    <2> QED BY <1>0, <2>2, Zenon DEF Rx
  <1>5. CASE dataConn # Nil /\ Rx(k, "blocked", dataConn)
    <2>1. LoopsOK'
      BY <1>0, <1>5, RxKeeps, Zenon
    <2> QED BY <1>0, <1>5, <2>1, Zenon DEF Rx
  <1> QED BY <1>1, <1>2, <1>3, <1>4, <1>5, Zenon
          DEF LoopStep, RxLoop, RxTop, RxCall, RxReadError, RxGot, RxWrite, RxPacket, TxTop,
              TxRead, TxReadReturns, TxSend

-----------------------------------------------------------------------------
(* The steps of Start, Stop, the watcher and the peer, property by property *)

CoreStep == Start \/ Stop \/ Watcher \/ \E k \in Conns : PeerGone(k)

(* Control points and fields: the watcher has a connection wherever it     *)
(* uses one, and c.tunDev is nil while it creates a device.                *)
LEMMA ThreadsKept ==
  ASSUME ClientInv, CoreStep
  PROVE  Threads'
  <1> USE DEF ClientInv, Threads, Bystanders, ClientTypeOK, InConnectUDP, Cancelled, Locked, Conns, fields, opened, loops
  <1>1. CASE Start
    BY <1>1, ClientAssumption DEF Start, ClientAssumption
  <1>2. CASE StopBegins
    BY <1>2, ClientAssumption DEF StopBegins, ClientAssumption
  <1>3. CASE StopClosesQuic
    BY <1>3, ClientAssumption DEF StopClosesQuic, Close, ClientAssumption
  <1>4. CASE StopClosesData
    BY <1>4, ClientAssumption DEF StopClosesData, Close, ClientAssumption
  <1>5. CASE StopClosesTun
    BY <1>5, ClientAssumption DEF StopClosesTun, Close, ClientAssumption
  <1>6. CASE WatcherTop
    BY <1>6, ClientAssumption DEF WatcherTop, Rest, ClientAssumption
  <1>7. CASE DialFails
    BY <1>7, ClientAssumption DEF DialFails, Go, Rest, ClientAssumption
  <1>8. CASE DialOK
    BY <1>8, ClientAssumption DEF DialOK, Go, Rest, ClientAssumption
  <1>9. CASE StoreQuic
    BY <1>9, ClientAssumption DEF StoreQuic, Go, Rest, ClientAssumption
  <1>10. CASE OpenStream
    BY <1>10, ClientAssumption DEF OpenStream, Go, Rest, ClientAssumption
  <1>11. CASE AuthOK
    BY <1>11, ClientAssumption DEF AuthOK, Go, Rest, ClientAssumption
  <1>12. CASE AuthFails
    BY <1>12, ClientAssumption DEF AuthFails, ErrorReturn, Rest, ClientAssumption
  <1>13. CASE SetupClosesOld
    BY <1>13, ClientAssumption DEF SetupClosesOld, Go, Close, Rest, ClientAssumption
  <1>14. CASE CreateOK
    BY <1>14, ClientAssumption DEF CreateOK, Go, Rest, ClientAssumption
  <1>15. CASE CreateFails
    BY <1>15, ClientAssumption DEF CreateFails, ErrorReturn, Rest, ClientAssumption
  <1>16. CASE StoreTun
    BY <1>16, ClientAssumption DEF StoreTun, Go, Rest, ClientAssumption
  <1>17. CASE PlaneFails
    BY <1>17, ClientAssumption DEF PlaneFails, ErrorReturn, Rest, ClientAssumption
  <1>18. CASE Listen
    BY <1>18, ClientAssumption DEF Listen, Go, Rest, ClientAssumption
  <1>19. CASE StoreSock
    BY <1>19, ClientAssumption DEF StoreSock, Go, Loop, Rest, ClientAssumption
  <1>20. CASE WaitCancelled
    BY <1>20, ClientAssumption DEF WaitCancelled, ErrorReturn, Rest, ClientAssumption
  <1>21. CASE WaitLost
    BY <1>21, ClientAssumption DEF WaitLost, Go, Rest, ClientAssumption
  <1>22. CASE SwapToTCP
    BY <1>22, ClientAssumption DEF SwapToTCP, Go, Rest, ClientAssumption
  <1>23. CASE Wakes
    BY <1>23, ClientAssumption DEF Wakes, Go, Rest, ClientAssumption
  <1>24. CASE \E k \in Conns : PeerGone(k)
    BY <1>24 DEF PeerGone
  <1>25. CASE StopClearsQuic
    BY <1>25, ClientAssumption DEF StopClearsQuic, ClientAssumption
  <1>26. CASE StopClearsData
    BY <1>26, ClientAssumption DEF StopClearsData, ClientAssumption
  <1> QED BY <1>1, <1>2, <1>3, <1>4, <1>5, <1>6, <1>7, <1>8, <1>9, <1>10, <1>11, <1>12, <1>13, <1>14, <1>15, <1>16, <1>17, <1>18, <1>19, <1>20, <1>21, <1>22, <1>23, <1>24, <1>25, <1>26 DEF CoreStep, Stop, StopRuns, Watcher

(* Every error return closes the connection of this call of connectUDP. *)
LEMMA ConnKept ==
  ASSUME ClientInv, CoreStep
  PROVE  ConnReleased'
  <1> USE DEF ClientInv, Threads, Bystanders, ClientTypeOK, ConnReleased, InConnectUDP, Conns, fields, opened, loops
  <1>1. CASE Start
    BY <1>1 DEF Start
  <1>2. CASE StopBegins
    BY <1>2 DEF StopBegins
  <1>3. CASE StopClosesQuic
    BY <1>3 DEF StopClosesQuic, Close
  <1>4. CASE StopClosesData
    BY <1>4 DEF StopClosesData, Close
  <1>5. CASE StopClosesTun
    BY <1>5 DEF StopClosesTun, Close
  <1>6. CASE WatcherTop
    BY <1>6 DEF WatcherTop, Rest
  <1>7. CASE DialFails
    BY <1>7 DEF DialFails, Go, Rest
  <1>8. CASE DialOK
    BY <1>8 DEF DialOK, Go, Rest
  <1>9. CASE StoreQuic
    BY <1>9 DEF StoreQuic, Go, Rest
  <1>10. CASE OpenStream
    BY <1>10 DEF OpenStream, Go, Rest
  <1>11. CASE AuthOK
    BY <1>11 DEF AuthOK, Go, Rest
  <1>12. CASE AuthFails
    BY <1>12 DEF AuthFails, ErrorReturn, Rest
  <1>13. CASE SetupClosesOld
    BY <1>13 DEF SetupClosesOld, Go, Close, Rest
  <1>14. CASE CreateOK
    BY <1>14 DEF CreateOK, Go, Rest
  <1>15. CASE CreateFails
    BY <1>15 DEF CreateFails, ErrorReturn, Rest
  <1>16. CASE StoreTun
    BY <1>16 DEF StoreTun, Go, Rest
  <1>17. CASE PlaneFails
    BY <1>17 DEF PlaneFails, ErrorReturn, Rest
  <1>18. CASE Listen
    BY <1>18 DEF Listen, Go, Rest
  <1>19. CASE StoreSock
    BY <1>19 DEF StoreSock, Go, Loop, Rest
  <1>20. CASE WaitCancelled
    BY <1>20 DEF WaitCancelled, ErrorReturn, Rest
  <1>21. CASE WaitLost
    BY <1>21 DEF WaitLost, Go, Rest
  <1>22. CASE SwapToTCP
    BY <1>22 DEF SwapToTCP, Go, Rest
  <1>23. CASE Wakes
    BY <1>23 DEF Wakes, Go, Rest
  <1>24. CASE \E k \in Conns : PeerGone(k)
    BY <1>24 DEF PeerGone
  <1>25. CASE StopClearsQuic
    BY <1>25 DEF StopClearsQuic
  <1>26. CASE StopClearsData
    BY <1>26 DEF StopClearsData
  <1> QED BY <1>1, <1>2, <1>3, <1>4, <1>5, <1>6, <1>7, <1>8, <1>9, <1>10, <1>11, <1>12, <1>13, <1>14, <1>15, <1>16, <1>17, <1>18, <1>19, <1>20, <1>21, <1>22, <1>23, <1>24, <1>25, <1>26 DEF CoreStep, Stop, StopRuns, Watcher

(* A device is created with no other open, and closed wherever c.tunDev    *)
(* loses it.                                                               *)
LEMMA DeviceKept ==
  ASSUME ClientInv, CoreStep
  PROVE  OneDevice'
  <1> USE DEF ClientInv, Threads, Bystanders, ClientTypeOK, OneDevice, InConnectUDP, Conns, Injected, Nil, fields, opened, loops
  <1>1. CASE Start
    BY <1>1 DEF Start
  <1>2. CASE StopBegins
    BY <1>2 DEF StopBegins
  <1>3. CASE StopClosesQuic
    BY <1>3 DEF StopClosesQuic, Close
  <1>4. CASE StopClosesData
    BY <1>4 DEF StopClosesData, Close
  <1>5. CASE StopClosesTun
    BY <1>5 DEF StopClosesTun, Close
  <1>6. CASE WatcherTop
    BY <1>6 DEF WatcherTop, Rest
  <1>7. CASE DialFails
    BY <1>7 DEF DialFails, Go, Rest
  <1>8. CASE DialOK
    BY <1>8 DEF DialOK, Go, Rest
  <1>9. CASE StoreQuic
    BY <1>9 DEF StoreQuic, Go, Rest
  <1>10. CASE OpenStream
    BY <1>10 DEF OpenStream, Go, Rest
  <1>11. CASE AuthOK
    BY <1>11 DEF AuthOK, Go, Rest
  <1>12. CASE AuthFails
    BY <1>12 DEF AuthFails, ErrorReturn, Rest
  <1>13. CASE SetupClosesOld
    BY <1>13 DEF SetupClosesOld, Go, Close, Rest
  <1>14. CASE CreateOK
    BY <1>14 DEF CreateOK, Go, Rest
  <1>15. CASE CreateFails
    BY <1>15 DEF CreateFails, ErrorReturn, Rest
  <1>16. CASE StoreTun
    BY <1>16 DEF StoreTun, Go, Rest
  <1>17. CASE PlaneFails
    BY <1>17 DEF PlaneFails, ErrorReturn, Rest
  <1>18. CASE Listen
    BY <1>18 DEF Listen, Go, Rest
  <1>19. CASE StoreSock
    BY <1>19 DEF StoreSock, Go, Loop, Rest
  <1>20. CASE WaitCancelled
    BY <1>20 DEF WaitCancelled, ErrorReturn, Rest
  <1>21. CASE WaitLost
    BY <1>21 DEF WaitLost, Go, Rest
  <1>22. CASE SwapToTCP
    BY <1>22 DEF SwapToTCP, Go, Rest
  <1>23. CASE Wakes
    BY <1>23 DEF Wakes, Go, Rest
  <1>24. CASE \E k \in Conns : PeerGone(k)
    BY <1>24 DEF PeerGone
  <1>25. CASE StopClearsQuic
    BY <1>25 DEF StopClearsQuic
  <1>26. CASE StopClearsData
    BY <1>26 DEF StopClearsData
  <1> QED BY <1>1, <1>2, <1>3, <1>4, <1>5, <1>6, <1>7, <1>8, <1>9, <1>10, <1>11, <1>12, <1>13, <1>14, <1>15, <1>16, <1>17, <1>18, <1>19, <1>20, <1>21, <1>22, <1>23, <1>24, <1>25, <1>26 DEF CoreStep, Stop, StopRuns, Watcher

(* Nothing that was made is unmade, and a field is set to what the watcher *)
(* has just made.                                                          *)
LEMMA MadeKept ==
  ASSUME ClientInv, CoreStep
  PROVE  Made' /\ FieldsMade'
  <1> USE DEF ClientInv, ClientTypeOK, FieldsMade, Threads, Made, InConnectUDP, Bystanders, Rest,
              fields, opened, loops, Go, Conns, Injected, Nil
  <1>1. CASE Start \/ StopBegins \/ StopClearsQuic \/ StopClearsData
    BY <1>1 DEF Start, StopBegins, StopClearsQuic, StopClearsData
  <1>2. CASE StopClosesQuic \/ StopClosesData
    BY <1>2 DEF StopClosesQuic, StopClosesData, Close
  <1>3. CASE StopClosesTun \/ SetupClosesOld
    BY <1>3 DEF StopClosesTun, SetupClosesOld, Close
  <1>4. CASE WatcherTop \/ DialFails \/ WaitLost \/ SwapToTCP \/ Wakes
    BY <1>4 DEF WatcherTop, DialFails, WaitLost, SwapToTCP, Wakes
  <1>5. CASE DialOK
    BY <1>5, ClientAssumption DEF DialOK, ClientAssumption
  <1>6. CASE StoreQuic \/ OpenStream \/ AuthOK
    BY <1>6 DEF StoreQuic, OpenStream, AuthOK
  <1>7. CASE AuthFails \/ CreateFails \/ PlaneFails \/ WaitCancelled
    BY <1>7 DEF AuthFails, CreateFails, PlaneFails, WaitCancelled, ErrorReturn
  <1>8. CASE CreateOK \/ StoreTun
    BY <1>8 DEF CreateOK, StoreTun
  <1>9. CASE Listen \/ StoreSock
    BY <1>9 DEF Listen, StoreSock
  <1>10. CASE \E k \in Conns : PeerGone(k)
    BY <1>10 DEF PeerGone
  <1> QED BY <1>1, <1>2, <1>3, <1>4, <1>5, <1>6, <1>7, <1>8, <1>9, <1>10
          DEF CoreStep, Stop, StopRuns, Watcher

(* Fields refer to connections, and start their loops at the top. *)
LEMMA TypeKept ==
  ASSUME ClientInv, CoreStep
  PROVE  ClientTypeOK'
  <1> USE DEF ClientInv, Threads, Bystanders, ClientTypeOK, InConnectUDP, Conns, fields, opened, loops
  <1>l. (tx' = tx /\ rx' = rx) => LoopsOK'
    BY ZenonT(60) DEF LoopsOK
  <1>0. FieldsMade' /\ ((tx' = tx /\ rx' = rx) => LoopsOK')
    BY <1>l, MadeKept
  <1>1. CASE Start
    BY <1>1, <1>0, ClientAssumption DEF Start, ClientAssumption
  <1>2. CASE StopBegins
    BY <1>2, <1>0, ClientAssumption DEF StopBegins, ClientAssumption
  <1>3. CASE StopClosesQuic
    BY <1>3, <1>0, ClientAssumption, SMTT(30) DEF StopClosesQuic, Close, ClientAssumption
  <1>4. CASE StopClosesData
    BY <1>4, <1>0, ClientAssumption DEF StopClosesData, Close, ClientAssumption
  <1>5. CASE StopClosesTun
    BY <1>5, <1>0, ClientAssumption DEF StopClosesTun, Close, ClientAssumption
  <1>6. CASE WatcherTop
    BY <1>6, <1>0, ClientAssumption DEF WatcherTop, Rest, ClientAssumption
  <1>7. CASE DialFails
    BY <1>7, <1>0, ClientAssumption DEF DialFails, Go, Rest, ClientAssumption
  <1>8. CASE DialOK
    BY <1>8, <1>0, ClientAssumption DEF DialOK, Go, Rest, ClientAssumption
  <1>9. CASE StoreQuic
    BY <1>9, <1>0, ClientAssumption DEF StoreQuic, Go, Rest, ClientAssumption
  <1>10. CASE OpenStream
    BY <1>10, <1>0, ClientAssumption DEF OpenStream, Go, Rest, ClientAssumption
  <1>11. CASE AuthOK
    BY <1>11, <1>0, ClientAssumption DEF AuthOK, Go, Rest, ClientAssumption
  <1>12. CASE AuthFails
    BY <1>12, <1>0, ClientAssumption DEF AuthFails, ErrorReturn, Rest, ClientAssumption
  <1>13. CASE SetupClosesOld
    BY <1>13, <1>0, ClientAssumption DEF SetupClosesOld, Go, Close, Rest, ClientAssumption
  <1>14. CASE CreateOK
    BY <1>14, <1>0, ClientAssumption DEF CreateOK, Go, Rest, ClientAssumption
  <1>15. CASE CreateFails
    BY <1>15, <1>0, ClientAssumption DEF CreateFails, ErrorReturn, Rest, ClientAssumption
  <1>16. CASE StoreTun
    BY <1>16, <1>0, ClientAssumption DEF StoreTun, Go, Rest, ClientAssumption
  <1>17. CASE PlaneFails
    BY <1>17, <1>0, ClientAssumption DEF PlaneFails, ErrorReturn, Rest, ClientAssumption
  <1>18. CASE Listen
    BY <1>18, <1>0, ClientAssumption DEF Listen, Go, Rest, ClientAssumption
  <1>19. CASE StoreSock
    <2> DEFINE Top == [at |-> "top", on |-> Nil]
    <2>1. Top \in [at : {"none", "top", "read", "blocked", "send", "done"},
                   on : Conns \cup {Injected, Nil}]
      BY Zenon
    <2>2. Top \in [at : {"none", "top", "call", "blocked", "got", "write", "done"},
                   on : Conns \cup {Nil}]
      BY Zenon
    <2>3. Top.at # "blocked" /\ Top.on = Nil
      OBVIOUS
    <2>4. tx' = [tx EXCEPT ![conns] = Top] /\ rx' = [rx EXCEPT ![conns] = Top]
      BY <1>19, Zenon DEF StoreSock, Loop
    <2> HIDE DEF Top
    <2>5. LoopsOK
      BY Zenon
    <2>6. \A j \in Conns : /\ tx'[j] = tx[j] \/ tx'[j] = Top
                           /\ rx'[j] = rx[j] \/ rx'[j] = Top
      BY <2>4, <2>5, Zenon DEF LoopsOK
    <2>7. LoopsOK'
      BY <2>1, <2>2, <2>3, <2>4, <2>5, <2>6, ZenonT(60) DEF LoopsOK
    <2> QED BY <1>19, <1>0, <2>7 DEF StoreSock, Go, Rest
  <1>20. CASE WaitCancelled
    BY <1>20, <1>0, ClientAssumption DEF WaitCancelled, ErrorReturn, Rest, ClientAssumption
  <1>21. CASE WaitLost
    BY <1>21, <1>0, ClientAssumption DEF WaitLost, Go, Rest, ClientAssumption
  <1>22. CASE SwapToTCP
    BY <1>22, <1>0, ClientAssumption DEF SwapToTCP, Go, Rest, ClientAssumption
  <1>23. CASE Wakes
    BY <1>23, <1>0, ClientAssumption DEF Wakes, Go, Rest, ClientAssumption
  <1>24. CASE \E k \in Conns : PeerGone(k)
    BY <1>24, <1>0 DEF PeerGone
  <1>25. CASE StopClearsQuic
    BY <1>25, <1>0, ClientAssumption, SMTT(30) DEF StopClearsQuic, ClientAssumption
  <1>26. CASE StopClearsData
    BY <1>26, <1>0, ClientAssumption DEF StopClearsData, ClientAssumption
  <1> QED BY <1>1, <1>2, <1>3, <1>4, <1>5, <1>6, <1>7, <1>8, <1>9, <1>10, <1>11, <1>12, <1>13, <1>14, <1>15, <1>16, <1>17, <1>18, <1>19, <1>20, <1>21, <1>22, <1>23, <1>24, <1>25, <1>26 DEF CoreStep, Stop, StopRuns, Watcher
-----------------------------------------------------------------------------
(* Every step keeps the invariant: a loop's step changes none of the       *)
(* fields that the rest of it speaks of.                                   *)
LEMMA StepInv == ClientInv /\ [ClientNext]_clientVars => ClientInv'
  <1> SUFFICES ASSUME ClientInv, [ClientNext]_clientVars PROVE ClientInv'
    OBVIOUS
  <1>1. CASE CoreStep
    BY <1>1, ThreadsKept, MadeKept, ConnKept, DeviceKept, TypeKept, Zenon DEF ClientInv
  <1>2. CASE \E k \in Conns : LoopStep(k)
    <2> PICK k \in Conns : LoopStep(k)
      BY <1>2
    <2>1. UNCHANGED coreVars
      BY LoopKeepsCore
    <2>2. LoopsOK' /\ crashed' \in BOOLEAN
      BY LoopKeepsLoops, Zenon DEF ClientInv
    <2>3. /\ UNCHANGED <<running, mode, conns, watcher, stop, late>>
          /\ UNCHANGED <<quicConn, dataConn, tunDev>> /\ UNCHANGED <<quic, sock, tun>>
      BY <2>1, Zenon DEF coreVars, fields, opened
    <2>4. ClientTypeOK'
      <3>1. ClientTypeOK
        BY Zenon DEF ClientInv
      <3>2. /\ running' \in BOOLEAN /\ mode' \in {"UDP", "TCP"} /\ conns' \in 0 .. MaxConns
            /\ quicConn' \in Conns \cup {Nil} /\ dataConn' \in Conns \cup {Nil}
            /\ tunDev' \in Conns \cup {Injected, Nil}
        BY <2>3, <3>1, Zenon DEF ClientTypeOK
      <3>3. /\ quic' \in [Conns -> {"none", "open", "closed"}]
            /\ sock' \in [Conns -> {"none", "open", "closed"}]
            /\ tun' \in [Conns \cup {Injected} -> {"none", "open", "closed"}]
        BY <2>3, <3>1, Zenon DEF ClientTypeOK
      <3>4. /\ watcher' \in {"new", "top", "dial", "dialed", "stream", "exchange", "setup",
                            "create", "store", "plane", "listen", "wait", "failed", "sleep",
                            "done"}
            /\ stop' \in {"idle", "quic", "quicNil", "data", "dataNil", "tun", "done"}
            /\ late' \subseteq Conns
        BY <2>3, <3>1, Zenon DEF ClientTypeOK
      <3>5. FieldsMade'
        BY <2>3, <3>1, Zenon DEF ClientTypeOK, FieldsMade
      <3> QED BY <2>2, <3>2, <3>3, <3>4, <3>5, Zenon DEF ClientTypeOK
    <2>5. Threads' /\ Made' /\ ConnReleased' /\ OneDevice'
      BY <2>3, Zenon DEF ClientInv, Threads, Made, ConnReleased, OneDevice
    <2> QED BY <2>4, <2>5 DEF ClientInv
  <1>3. CASE UNCHANGED clientVars
    BY <1>3 DEF clientVars, fields, opened, loops, ClientInv, ClientTypeOK, LoopsOK, FieldsMade,
                       Threads, Made, ConnReleased, OneDevice, Conns
  <1> QED BY <1>1, <1>2, <1>3, Zenon DEF ClientNext, CoreStep, LoopStep, Halted

(* The invariant holds of every state of the engine. *)
THEOREM ClientInvariant == ClientSpec => []ClientInv
  <1> QED BY InitInv, StepInv, PTL DEF ClientSpec

(* The engine keeps its types, and c refers only to connections, devices   *)
(* and sockets that have been made (client.go:223-227, 264-269, 366-370).  *)
THEOREM ClientTypeCorrect == ClientSpec => []ClientTypeOK
  <1>1. ClientInv => ClientTypeOK
    BY DEF ClientInv
  <1> QED BY <1>1, ClientInvariant, PTL

(* No QUIC connection outlives the call of connectUDP that made it, for    *)
(* any number of reconnects (client.go:223-282).                           *)
THEOREM ConnectionsReleased == ClientSpec => []ConnReleased
  <1>1. ClientInv => ConnReleased
    BY DEF ClientInv
  <1> QED BY <1>1, ClientInvariant, PTL

(* No reconnect leaves a TUN device behind, for any number of them         *)
(* (client.go:323-372).                                                    *)
THEOREM SingleDevice == ClientSpec => []OneDevice
  <1>1. ClientInv => OneDevice
    BY DEF ClientInv
  <1> QED BY <1>1, ClientInvariant, PTL

-----------------------------------------------------------------------------
(* What a loop finds nil.                                                  *)

(* The loops of connection k have been started.                            *)
LoopsOf(k) == rx[k].at # "none" \/ tx[k].at # "none"

(* The loops start with the socket stored; until Stop nobody takes it away,*)
(* and only a reconnect, with an earlier connection, takes the device.     *)
NilInv ==
  /\ \A k \in Conns : LoopsOf(k) =>
       /\ k <= conns
       /\ watcher \in InConnectUDP \ {"wait"} => k < conns
       /\ ~Cancelled => dataConn # Nil /\ (tunDev # Nil \/ conns > 1)
  /\ ~Cancelled /\ watcher \in {"plane", "listen"} => tunDev # Nil
  /\ PanicsExplained

(* The steps of Start, Stop, the watcher and the peer, none of which runs  *)
(* after a panic.                                                          *)
LEMMA NilKept ==
  ASSUME ClientInv, NilInv, CoreStep, ~crashed
  PROVE  NilInv'
  <1>t. /\ dataConn \in Conns \cup {Nil} /\ conns \in 0 .. MaxConns /\ MaxConns \in Nat
        /\ (watcher \in InConnectUDP => conns \in Conns)
    BY ClientAssumption DEF ClientInv, ClientTypeOK, Threads
  <1> USE DEF NilInv, LoopsOf, PanicsExplained, Cancelled, InConnectUDP, fields, opened, loops,
              Bystanders, Rest, Go
  <1>1. CASE Stop
    BY <1>1 DEF Stop, StopRuns, StopBegins, StopClosesQuic, StopClearsQuic, StopClosesData,
                StopClearsData, StopClosesTun
  <1>2. CASE Start \/ WatcherTop \/ DialFails \/ WaitLost \/ SwapToTCP \/ Wakes
             \/ \E k \in Conns : PeerGone(k)
    BY <1>2 DEF Start, WatcherTop, DialFails, WaitLost, SwapToTCP, Wakes, PeerGone
  <1>3. CASE AuthFails \/ CreateFails \/ PlaneFails \/ WaitCancelled
    BY <1>3 DEF AuthFails, CreateFails, PlaneFails, WaitCancelled, ErrorReturn
  <1>4. CASE DialOK
    <2> DEFINE n == conns + 1
    <2>1. \A k \in Conns : k <= conns => k <= n /\ k < n
      BY <1>t DEF Conns
    <2>2. conns > 1 => n > 1
      BY <1>t
    <2>3. conns' = n /\ watcher' = "dialed" /\ UNCHANGED <<dataConn, tunDev, stop, tx, rx, crashed>>
      BY <1>4 DEF DialOK
    <2> HIDE DEF n
    <2> QED BY <2>1, <2>2, <2>3
  <1>5. CASE StoreQuic \/ OpenStream \/ AuthOK \/ CreateOK \/ Listen
    BY <1>5 DEF StoreQuic, OpenStream, AuthOK, CreateOK, Listen
  <1>6. CASE SetupClosesOld
    <2>1. \A k \in Conns : k < conns => conns > 1
      BY <1>t DEF Conns
    <2> QED BY <1>6, <2>1 DEF SetupClosesOld
  <1>7. CASE StoreTun
    BY <1>7, <1>t DEF StoreTun, Conns, Nil
  <1>8. CASE StoreSock
    <2>1. /\ \A k \in Conns : k # conns => tx'[k] = tx[k] /\ rx'[k] = rx[k]
          /\ watcher = "listen" /\ watcher' = "wait" /\ dataConn' = conns /\ conns # Nil
          /\ UNCHANGED <<conns, tunDev, stop, crashed>>
      BY <1>8, <1>t DEF StoreSock, ClientInv, ClientTypeOK, LoopsOK, Conns, Nil
    <2> QED BY <2>1, <1>t
  <1> QED BY <1>1, <1>2, <1>3, <1>4, <1>5, <1>6, <1>7, <1>8 DEF CoreStep, Watcher

(* A loop that panics has been started.                                    *)
LEMMA NilLoop ==
  ASSUME ClientInv, NilInv, NEW k \in Conns, LoopStep(k)
  PROVE  NilInv'
  <1>1. UNCHANGED <<dataConn, tunDev, conns, watcher, stop>>
    BY LoopKeepsCore DEF coreVars, fields
  <1>2. LoopsOf(k)
    BY DEF LoopStep, RxLoop, RxTop, RxCall, RxReadError, RxGot, RxWrite, RxPacket, TxTop,
           TxRead, TxReadReturns, TxSend, LoopsOf
  <1>3. \A j \in Conns : j # k => tx'[j] = tx[j] /\ rx'[j] = rx[j]
    BY DEF LoopStep, RxLoop, RxTop, RxCall, RxReadError, RxGot, RxWrite, RxPacket, TxTop,
           TxRead, TxReadReturns, TxSend, Tx, Rx, Panic, loops, Loop, ClientInv, ClientTypeOK,
           LoopsOK
  <1>4. crashed' = crashed \/ dataConn = Nil \/ tunDev = Nil
    BY DEF LoopStep, RxLoop, RxTop, RxCall, RxReadError, RxGot, RxWrite, RxPacket, TxTop,
           TxRead, TxReadReturns, TxSend, Tx, Rx
  <1> QED BY <1>1, <1>2, <1>3, <1>4 DEF NilInv, LoopsOf, PanicsExplained, Cancelled

(* Until Stop is called no loop finds c.dataConn nil, and it finds         *)
(* c.tunDev nil only while a reconnect makes the new device, for any       *)
(* number of reconnects (client.go:269, 331-335, 370, 383-401, 417-425).   *)
THEOREM NilCallsExplained == ClientSpec => []PanicsExplained
  <1>1. ClientInit => NilInv
    BY DEF ClientInit, NilInv, LoopsOf, PanicsExplained, Loop
  <1>2. ClientInv /\ NilInv /\ [ClientNext]_clientVars => NilInv'
    <2> SUFFICES ASSUME ClientInv, NilInv, [ClientNext]_clientVars PROVE NilInv'
      OBVIOUS
    <2>1. CASE UNCHANGED clientVars
      BY <2>1 DEF clientVars, fields, loops, NilInv, LoopsOf, PanicsExplained, Cancelled
    <2> QED BY <2>1, NilKept, NilLoop DEF ClientNext, CoreStep, LoopStep, Halted
  <1>3. NilInv => PanicsExplained
    BY DEF NilInv
  <1> QED BY <1>1, <1>2, <1>3, ClientInvariant, PTL DEF ClientSpec

-----------------------------------------------------------------------------
(* What Stop leaves behind: the safety part of StopEndsWatcher and         *)
(* StopEndsReader.                                                         *)

(* connectUDP before it has a data socket.                                 *)
BeforeListen == {"dialed", "stream", "exchange", "setup", "create", "store", "plane"}

(* The data sockets: those of past connections, and the one of this        *)
(* connection from ListenUDP on, which c.dataConn refers to and loops read *)
(* from only after connectUDP has stored it (client.go:264-272).           *)
Sockets ==
  /\ \A k \in Conns : sock[k] # "none" => k <= conns
  /\ watcher \in BeforeListen => sock[conns] = "none"
  /\ watcher = "listen" => sock[conns] = "open" /\ dataConn # conns
  /\ dataConn # Nil => sock[dataConn] # "none"
  /\ \A k \in Conns : rx[k].at = "blocked" =>
       sock[rx[k].on] # "none" /\ (watcher = "listen" => rx[k].on # conns)

(* Where an open socket is: Stop will find it in c.dataConn, or connectUDP *)
(* is about to store it, or a reconnect has replaced it, or connectUDP has *)
(* stored it since Stop looked at c.dataConn.                              *)
Accounted(s) ==
  \/ s = dataConn
  \/ s = conns /\ watcher = "listen"
  \/ \E j \in Conns : j > s /\ sock[j] # "none"
  \/ s \in late

(* Between Stop's Close of the socket and its store of nil, c.dataConn     *)
(* refers to the closed socket or to a late one.                           *)
Cleared == stop = "dataNil" => dataConn \in late \/ (dataConn # Nil /\ sock[dataConn] = "closed")

SocketsInv ==
  Sockets /\ Cleared /\ \A s \in Conns : sock[s] = "open" => Accounted(s)

(* Steps that touch no socket, and do not take connectUDP towards one.     *)
LEMMA SocketsQuiet ==
  ASSUME SocketsInv, UNCHANGED <<dataConn, sock, conns, rx, late>>,
         stop' = stop \/ stop' # "dataNil",
         watcher' = watcher \/ watcher' \notin BeforeListen \cup {"listen"}
           \/ (watcher \in BeforeListen /\ watcher' \in BeforeListen),
         watcher = "listen" => watcher' = "listen"
  PROVE  SocketsInv'
  BY DEF SocketsInv, Sockets, Cleared, Accounted, BeforeListen

(* The steps of Start, Stop, the watcher and the peer. A socket is lost    *)
(* sight of only in StoreSock, where a later one takes its place.          *)
LEMMA SocketsKept ==
  ASSUME ClientInv, SocketsInv, CoreStep
  PROVE  SocketsInv'
  <1>t. /\ sock \in [Conns -> {"none", "open", "closed"}] /\ dataConn \in Conns \cup {Nil}
        /\ conns \in 0 .. MaxConns /\ MaxConns \in Nat
    BY ClientAssumption DEF ClientInv, ClientTypeOK
  <1>c. watcher \in InConnectUDP => conns \in Conns
    BY DEF ClientInv, Threads
  <1> USE DEF fields, opened, loops, Bystanders, Rest, Go, Cleared
  <1>1. CASE DialOK
    <2> DEFINE n == conns + 1
    <2>1. /\ conns' = n /\ watcher = "dial" /\ watcher' = "dialed"
          /\ UNCHANGED <<dataConn, sock, rx, stop, late>> /\ conns < MaxConns
      BY <1>1 DEF DialOK
    <2>2. n \in Conns /\ ~(n <= conns) /\ \A k \in Conns : k <= conns => k <= n
      BY <1>t, <2>1 DEF Conns
    <2>3. sock[n] = "none"
      BY <1>t, <2>2 DEF SocketsInv, Sockets
    <2> HIDE DEF n
    <2> QED BY <2>1, <2>2, <2>3 DEF SocketsInv, Sockets, Accounted, BeforeListen
  <1>2. CASE Listen
    <2>1. /\ watcher = "plane" /\ watcher' = "listen" /\ sock' = [sock EXCEPT ![conns] = "open"]
          /\ UNCHANGED <<dataConn, conns, rx, stop, late>>
      BY <1>2 DEF Listen
    <2>2. conns \in Conns /\ sock[conns] = "none" /\ conns <= conns
      BY <1>c, <1>t, <2>1 DEF SocketsInv, Sockets, BeforeListen, InConnectUDP
    <2>3. sock'[conns] = "open" /\ \A k \in Conns : k # conns => sock'[k] = sock[k]
      BY <2>1, <2>2, <1>t
    <2>4. \A s \in Conns : sock[s] # "none" => sock'[s] # "none" /\ s # conns
      BY <2>2, <2>3
    <2>5. Sockets'
      <3>1. \A k \in Conns : sock'[k] # "none" => k <= conns
        BY <2>2, <2>3 DEF SocketsInv, Sockets
      <3>2. dataConn # conns /\ (dataConn # Nil => sock'[dataConn] # "none")
        BY <2>2, <2>3, <1>t DEF SocketsInv, Sockets, Conns, Nil
      <3>3. \A k \in Conns : rx[k].at = "blocked" => rx[k].on \in Conns
        BY DEF ClientInv, ClientTypeOK, LoopsOK
      <3>4. \A k \in Conns : rx[k].at = "blocked" =>
              sock'[rx[k].on] # "none" /\ rx[k].on # conns
        BY <2>4, <3>3 DEF SocketsInv, Sockets
      <3> QED BY <2>1, <2>3, <3>1, <3>2, <3>4 DEF Sockets, BeforeListen
    <2>6. Cleared'
      BY <2>1, <2>2, <2>3, <1>t DEF SocketsInv, Sockets
    <2> QED BY <2>1, <2>3, <2>4, <2>5, <2>6 DEF SocketsInv, Accounted
  <1>3. CASE StoreSock
    <2>1. /\ watcher = "listen" /\ watcher' = "wait" /\ dataConn' = conns
          /\ UNCHANGED <<sock, conns, stop>> /\ rx' = [rx EXCEPT ![conns] = Loop("top", Nil)]
          /\ late' = IF PastData THEN late \cup {conns} ELSE late
      BY <1>3 DEF StoreSock
    <2>2. conns \in Conns /\ sock[conns] = "open" /\ dataConn # conns
      BY <1>c, <2>1 DEF SocketsInv, Sockets, InConnectUDP
    <2>3. \A k \in Conns : rx'[k].at = "blocked" => rx'[k] = rx[k]
      BY <2>1, <2>2 DEF ClientInv, ClientTypeOK, LoopsOK, Loop
    <2>4. \A s \in Conns : sock[s] # "none" /\ s # conns => conns > s
      BY <1>t, <2>2 DEF SocketsInv, Sockets, Conns
    <2>5. \A s \in Conns : sock[s] = "open" => s = conns \/ conns > s
      BY <2>4
    <2>6. Sockets'
      BY <2>1, <2>2, <2>3 DEF SocketsInv, Sockets, BeforeListen
    <2>7. Cleared'
      BY <2>1 DEF PastData
    <2> QED BY <2>1, <2>2, <2>5, <2>6, <2>7 DEF SocketsInv, Accounted
  <1>4. CASE StopClosesData
    <2>1. /\ sock' = Close(sock, dataConn) /\ stop' = IF dataConn = Nil THEN "tun" ELSE "dataNil"
          /\ UNCHANGED <<dataConn, conns, watcher, rx, late>>
      BY <1>4 DEF StopClosesData
    <2>2. \A s \in Conns : s # dataConn => sock'[s] = sock[s]
      BY <2>1, <1>t DEF Close
    <2>3. dataConn \in Conns => sock'[dataConn] = "closed" /\ sock[dataConn] # "none"
      BY <2>1, <1>t DEF Close, SocketsInv, Sockets, Conns, Nil
    <2>4. \A s \in Conns : /\ sock'[s] # "none" => sock[s] # "none"
                           /\ sock[s] # "none" => sock'[s] # "none"
                           /\ sock'[s] = "open" => sock[s] = "open" /\ s # dataConn
      BY <2>2, <2>3
    <2>5. \A k \in Conns : rx[k].at = "blocked" => rx[k].on \in Conns
      BY DEF ClientInv, ClientTypeOK, LoopsOK
    <2>6. Sockets'
      <3>1. \A k \in Conns : sock'[k] # "none" => k <= conns
        BY <2>4 DEF SocketsInv, Sockets
      <3>2. watcher \in BeforeListen => sock'[conns] = "none"
        BY <2>4, <1>c DEF SocketsInv, Sockets, BeforeListen, InConnectUDP
      <3>3. watcher = "listen" => sock'[conns] = "open" /\ dataConn' # conns
        BY <2>1, <2>2, <1>c DEF SocketsInv, Sockets, InConnectUDP, Conns, Nil
      <3>4. \A k \in Conns : rx[k].at = "blocked" =>
              sock'[rx[k].on] # "none" /\ (watcher = "listen" => rx[k].on # conns)
        BY <2>4, <2>5 DEF SocketsInv, Sockets
      <3>5. dataConn # Nil => sock'[dataConn] # "none"
        BY <2>3, <1>t
      <3> QED BY <2>1, <3>1, <3>2, <3>3, <3>4, <3>5 DEF Sockets
    <2>7. ASSUME NEW s \in Conns, sock'[s] = "open"
          PROVE  Accounted(s)'
      <3>1. Accounted(s) /\ s # dataConn
        BY <2>4, <2>7 DEF SocketsInv
      <3>2. CASE s = conns /\ watcher = "listen"
        BY <2>1, <3>2 DEF Accounted
      <3>3. CASE \E j \in Conns : j > s /\ sock[j] # "none"
        BY <2>4, <3>3 DEF Accounted
      <3>4. CASE s \in late
        BY <2>1, <3>4 DEF Accounted
      <3> QED BY <3>1, <3>2, <3>3, <3>4 DEF Accounted
    <2>8. Cleared'
      BY <2>1, <2>3, <1>t
    <2> QED BY <2>6, <2>7, <2>8 DEF SocketsInv
  <1>5. CASE StopClearsData
    <2>1. /\ stop = "dataNil" /\ stop' = "tun" /\ dataConn' = Nil
          /\ UNCHANGED <<sock, conns, watcher, rx, late>>
      BY <1>5 DEF StopClearsData
    <2>2. Sockets' /\ Cleared'
      BY <2>1, <1>t, <1>c DEF SocketsInv, Sockets, Conns, Nil, InConnectUDP
    <2>3. ASSUME NEW s \in Conns, sock'[s] = "open"
          PROVE  Accounted(s)'
      BY <2>1, <2>3 DEF SocketsInv, Accounted
    <2> QED BY <2>2, <2>3 DEF SocketsInv
  <1>6. CASE Start \/ StopBegins \/ StopClosesQuic \/ StopClearsQuic \/ StopClosesTun
             \/ WatcherTop \/ DialFails
    <2>1. /\ UNCHANGED <<dataConn, sock, conns, rx, late>> /\ (stop' = stop \/ stop' # "dataNil")
          /\ (watcher = "listen" => watcher' = "listen")
          /\ watcher' = watcher \/ watcher' \in {"top", "done", "dial", "failed"}
      BY <1>6 DEF Start, StopBegins, StopClosesQuic, StopClearsQuic, StopClosesTun,
                  WatcherTop, DialFails
    <2> QED BY <2>1, SocketsQuiet DEF BeforeListen
  <1>7. CASE StoreQuic \/ OpenStream \/ AuthOK \/ SetupClosesOld \/ CreateOK \/ StoreTun
    <2>1. /\ UNCHANGED <<dataConn, sock, conns, rx, late>> /\ (stop' = stop \/ stop' # "dataNil")
          /\ watcher \in BeforeListen /\ watcher' \in BeforeListen
      BY <1>7 DEF StoreQuic, OpenStream, AuthOK, SetupClosesOld, CreateOK, StoreTun,
                  BeforeListen
    <2> QED BY <2>1, SocketsQuiet DEF BeforeListen
  <1>8. CASE AuthFails \/ CreateFails \/ PlaneFails \/ WaitCancelled \/ WaitLost \/ SwapToTCP
             \/ Wakes \/ \E k \in Conns : PeerGone(k)
    <2>1. /\ UNCHANGED <<dataConn, sock, conns, rx, late>> /\ (stop' = stop \/ stop' # "dataNil")
          /\ (watcher = "listen" => watcher' = "listen")
          /\ watcher' = watcher \/ watcher' \in {"failed", "sleep", "top"}
      BY <1>8 DEF AuthFails, CreateFails, PlaneFails, WaitCancelled, WaitLost, SwapToTCP, Wakes,
                  PeerGone, ErrorReturn
    <2> QED BY <2>1, SocketsQuiet DEF BeforeListen
  <1> QED BY <1>1, <1>2, <1>3, <1>4, <1>5, <1>6, <1>7, <1>8 DEF CoreStep, Stop, StopRuns, Watcher

(* A reader blocks on the socket in c.dataConn.                            *)
LEMMA SocketsLoop ==
  ASSUME ClientInv, SocketsInv, NEW k \in Conns, LoopStep(k)
  PROVE  SocketsInv'
  <1>1. UNCHANGED <<dataConn, sock, conns, watcher, stop, late>>
    BY LoopKeepsCore DEF coreVars, fields, opened
  <1>2. \A j \in Conns : rx'[j].at = "blocked" =>
          rx'[j] = rx[j] \/ (dataConn # Nil /\ rx'[j].on = dataConn)
    BY DEF LoopStep, RxLoop, RxTop, RxCall, RxReadError, RxGot, RxWrite, RxPacket, TxTop,
           TxRead, TxReadReturns, TxSend, Tx, Rx, Panic, loops, Loop, ClientInv, ClientTypeOK, LoopsOK
  <1> QED BY <1>1, <1>2 DEF SocketsInv, Sockets, Cleared, Accounted

(* A data socket that is still open is in c.dataConn for Stop to close,    *)
(* or connectUDP has not stored it yet, or a reconnect replaced it there,  *)
(* or connectUDP stored it after Stop had looked at the field, which Stop  *)
(* may then clear without another look; and so a udpToTunLoop that is      *)
(* blocked in a read that does not fail is blocked on the socket in        *)
(* c.dataConn, on one that was replaced, or on one stored too late.  These *)
(* are the exceptions of StopEndsReader, and the only ones, for any number *)
(* of reconnects (client.go:143-153, 264-272, 408-430).                    *)
THEOREM SocketsAccounted ==
  ClientSpec =>
    [](/\ \A s \in Conns : sock[s] = "open" => Accounted(s)
       /\ \A k \in Conns : rx[k].at = "blocked" =>
            \/ sock[rx[k].on] = "closed"
            \/ rx[k].on = dataConn
            \/ \E j \in Conns : j > rx[k].on /\ sock[j] # "none"
            \/ rx[k].on \in late)
  <1>1. ClientInit => SocketsInv
    BY DEF ClientInit, SocketsInv, Sockets, Cleared, Loop, BeforeListen, Nil
  <1>2. ClientInv /\ SocketsInv /\ [ClientNext]_clientVars => SocketsInv'
    <2> SUFFICES ASSUME ClientInv, SocketsInv, [ClientNext]_clientVars PROVE SocketsInv'
      OBVIOUS
    <2>1. CASE UNCHANGED clientVars
      BY <2>1, SocketsQuiet DEF clientVars, fields, opened, loops
    <2> QED BY <2>1, SocketsKept, SocketsLoop DEF ClientNext, CoreStep, LoopStep, Halted
  <1>3. ASSUME ClientInv, SocketsInv
        PROVE  /\ \A s \in Conns : sock[s] = "open" => Accounted(s)
               /\ \A k \in Conns : rx[k].at = "blocked" =>
                    \/ sock[rx[k].on] = "closed"
                    \/ rx[k].on = dataConn
                    \/ \E j \in Conns : j > rx[k].on /\ sock[j] # "none"
                    \/ rx[k].on \in late
    <2>1. \A k \in Conns : rx[k].at = "blocked" => rx[k].on \in Conns
      BY <1>3 DEF ClientInv, ClientTypeOK, LoopsOK
    <2>2. \A s \in Conns : sock[s] \in {"none", "open", "closed"}
      BY <1>3 DEF ClientInv, ClientTypeOK
    <2> QED BY <1>3, <2>1, <2>2 DEF SocketsInv, Sockets, Accounted
  <1> QED BY <1>1, <1>2, <1>3, ClientInvariant, PTL DEF ClientSpec

(* The places of connectionWatcher in the order in which it can still pass *)
(* them after Stop: the dial that it is in, its failure, the five seconds  *)
(* of sleep, and the context at the top of the loop.                       *)
EndPath == <<"dial", "dialed", "stream", "exchange", "setup", "create", "store", "plane",
             "listen", "wait", "failed", "sleep", "top", "done">>

(* After Stop the watcher only moves forward on the way to its end, in at  *)
(* most thirteen steps: a dial that was under way may still set up a whole *)
(* connection, but no second one, since the top of the loop looks at the   *)
(* context, which Stop cancelled before anything else and for good         *)
(* (client.go:143-146, 180-209, 223-282).                                  *)
THEOREM StoppedWatcherMovesToEnd ==
  ClientSpec => [][Cancelled =>
                     /\ Cancelled'
                     /\ \/ watcher' = watcher
                        \/ \E i, j \in 1 .. 14 :
                             i < j /\ EndPath[i] = watcher /\ EndPath[j] = watcher'
                  ]_clientVars
  <1> DEFINE Ahead(p, q) == \E i, j \in 1 .. 14 : i < j /\ EndPath[i] = p /\ EndPath[j] = q
  <1>p. /\ EndPath[1] = "dial" /\ EndPath[2] = "dialed" /\ EndPath[3] = "stream"
        /\ EndPath[4] = "exchange" /\ EndPath[5] = "setup" /\ EndPath[6] = "create"
        /\ EndPath[7] = "store" /\ EndPath[8] = "plane" /\ EndPath[9] = "listen"
        /\ EndPath[10] = "wait" /\ EndPath[11] = "failed" /\ EndPath[12] = "sleep"
        /\ EndPath[13] = "top" /\ EndPath[14] = "done"
    BY DEF EndPath
  <1>a. /\ Ahead("dial", "dialed") /\ Ahead("dialed", "stream") /\ Ahead("stream", "exchange")
        /\ Ahead("exchange", "setup") /\ Ahead("setup", "create") /\ Ahead("create", "store")
        /\ Ahead("store", "plane") /\ Ahead("plane", "listen") /\ Ahead("listen", "wait")
        /\ Ahead("failed", "sleep") /\ Ahead("sleep", "top") /\ Ahead("top", "done")
    BY <1>p
  <1>b. /\ Ahead("dial", "failed") /\ Ahead("stream", "failed") /\ Ahead("exchange", "failed")
        /\ Ahead("create", "failed") /\ Ahead("plane", "failed") /\ Ahead("wait", "failed")
    BY <1>p
  <1> HIDE DEF Ahead
  <1>1. ASSUME ClientInv, [ClientNext]_clientVars, Cancelled
        PROVE  Cancelled' /\ (watcher' = watcher \/ Ahead(watcher, watcher'))
    <2> USE DEF Cancelled, fields, opened, loops, Rest
    <2>1. CASE Start
      BY <1>1, <2>1 DEF Start, ClientInv, Threads
    <2>2. CASE Stop
      BY <1>1, <2>2 DEF Stop, StopRuns, StopBegins, StopClosesQuic, StopClearsQuic,
                        StopClosesData, StopClearsData, StopClosesTun, Bystanders
    <2>3. CASE WatcherTop \/ DialFails \/ DialOK \/ StoreQuic \/ OpenStream \/ AuthOK
      BY <1>1, <2>3, <1>a, <1>b, Zenon DEF WatcherTop, DialFails, DialOK, StoreQuic, OpenStream, AuthOK, Go
    <2>4. CASE SetupClosesOld \/ CreateOK \/ StoreTun \/ Listen
      BY <1>1, <2>4, <1>a, Zenon DEF SetupClosesOld, CreateOK, StoreTun, Listen, Go
    <2>5. CASE StoreSock \/ WaitLost \/ SwapToTCP \/ Wakes
      BY <1>1, <2>5, <1>a, <1>b, Zenon DEF StoreSock, WaitLost, SwapToTCP, Wakes, Go
    <2>6. CASE AuthFails \/ CreateFails \/ PlaneFails \/ WaitCancelled
      <3>1. stop' = stop /\ watcher' = "failed"
            /\ watcher \in {"stream", "exchange", "create", "plane", "wait"}
        BY <2>6 DEF AuthFails, CreateFails, PlaneFails, WaitCancelled, ErrorReturn
      <3> QED BY <1>1, <3>1, <1>b
    <2>7. CASE \E k \in Conns : PeerGone(k) \/ LoopStep(k)
      BY <1>1, <2>7, LoopKeepsCore DEF PeerGone, coreVars
    <2>8. CASE UNCHANGED clientVars
      BY <1>1, <2>8 DEF clientVars
    <2> QED BY <1>1, <2>1, <2>2, <2>3, <2>4, <2>5, <2>6, <2>7, <2>8
            DEF ClientNext, Watcher, LoopStep, Halted
  <1>2. ClientInv /\ [ClientNext]_clientVars =>
          (Cancelled =>
             /\ Cancelled'
             /\ \/ watcher' = watcher
                \/ \E i, j \in 1 .. 14 :
                     i < j /\ EndPath[i] = watcher /\ EndPath[j] = watcher')
    BY <1>1 DEF Ahead
  <1> QED BY <1>2, ClientInvariant, PTL DEF ClientSpec

-----------------------------------------------------------------------------
(* Refinement *)

(* The engine starts as a new tunnel, with a device injected or not. *)
LEMMA InitLife == ClientInit => Life!LifeInit
  <1> SUFFICES ASSUME ClientInit PROVE Life!LifeInit
    OBVIOUS
  <1>1. PICK d \in {"none", "held"} : Tunnel = [phase |-> "new", alive |-> FALSE, device |-> d]
    BY DEF ClientInit, Tunnel, Injected, Nil
  <1> QED BY <1>1 DEF Life!LifeInit, Life!Tunnels

(* A step that leaves the mapped tunnel alone. *)
LEMMA Stutters ==
  ASSUME running' = running, stop' = stop, tunDev' = tunDev,
         watcher' = watcher \/ ({watcher, watcher'} \cap {"new", "store", "done"} = {})
  PROVE  Tunnel' = Tunnel
  BY DEF Tunnel

(* The four events that change one field, for the other two as they are. *)
LEMMA EndedStep ==
  ASSUME NEW p \in {"stopping", "stopped"}, NEW d \in {"none", "held"},
         Tunnel  = [phase |-> p, alive |-> TRUE, device |-> d],
         Tunnel' = [phase |-> p, alive |-> FALSE, device |-> d]
  PROVE  Tunnel' \in Life!Ended
  BY DEF Life!Ended, Life!To

LEMMA DroppedStep ==
  ASSUME NEW p \in {"new", "running", "stopped"},
         Tunnel  = [phase |-> p, alive |-> TRUE, device |-> "held"],
         Tunnel' = [phase |-> p, alive |-> TRUE, device |-> "none"]
  PROVE  Tunnel' \in Life!Dropped
  BY DEF Life!Dropped, Life!To, Life!WithDevice

LEMMA OpenedStep ==
  ASSUME NEW p \in {"new", "running", "stopping", "stopped"},
         Tunnel  = [phase |-> p, alive |-> TRUE, device |-> "none"],
         Tunnel' = [phase |-> p, alive |-> TRUE, device |-> "new"]
  PROVE  Tunnel' \in Life!Opened
  BY DEF Life!Opened, Life!To, Life!WithDevice

LEMMA HeldStep ==
  ASSUME NEW p \in {"new", "running", "stopping", "stopped"},
         Tunnel  = [phase |-> p, alive |-> TRUE, device |-> "new"],
         Tunnel' = [phase |-> p, alive |-> TRUE, device |-> "held"]
  PROVE  Tunnel' \in Life!Held
  BY DEF Life!Held, Life!To, Life!WithDevice

(* Start, Stop and the end of the watcher are events of the lifecycle, and *)
(* of the rest only what setupTUN does to the device is not a stutter.     *)
LEMMA StepLife ==
  ASSUME ClientInv, [ClientNext]_clientVars
  PROVE  [Life!LifeNext]_Tunnel
  <1> USE DEF fields, opened, loops, Rest, Bystanders
  <1>1. CASE Start
    <2>1. /\ Tunnel = [phase |-> "new", alive |-> FALSE, device |-> Tunnel.device]
          /\ Tunnel' = [phase |-> "running", alive |-> TRUE, device |-> Tunnel.device]
      BY <1>1 DEF Start, ClientInv, Threads, Tunnel
    <2>2. Tunnel' \in Life!Started
      BY <2>1 DEF Life!Started, Life!To
    <2> QED BY <2>2, Zenon DEF Life!LifeNext
  <1>2. CASE StopBegins
    <2>1. /\ Tunnel = [phase |-> "running", alive |-> Tunnel.alive, device |-> Tunnel.device]
          /\ Tunnel' = [phase |-> "stopping", alive |-> Tunnel.alive, device |-> Tunnel.device]
      BY <1>2 DEF StopBegins, Tunnel
    <2>2. Tunnel' \in Life!Cancelled
      BY <2>1 DEF Life!Cancelled, Life!To
    <2> QED BY <2>2, Zenon DEF Life!LifeNext
  <1>3. CASE StopClosesQuic \/ StopClearsQuic \/ StopClosesData \/ StopClearsData
    BY <1>3 DEF StopClosesQuic, StopClearsQuic, StopClosesData, StopClearsData, Tunnel
  <1>4. CASE StopClosesTun
    <2>1. /\ Tunnel = [phase |-> "stopping", alive |-> Tunnel.alive, device |-> Tunnel.device]
          /\ Tunnel' = [phase |-> "stopped", alive |-> Tunnel.alive,
                        device |-> IF Tunnel.device = "held" THEN "none" ELSE Tunnel.device]
      BY <1>4 DEF StopClosesTun, ClientInv, Threads, Tunnel
    <2>2. Tunnel' \in Life!Released
      BY <2>1 DEF Life!Released, Life!To
    <2> QED BY <2>2, Zenon DEF Life!LifeNext
  <1>5. CASE WatcherTop
    <2>1. CASE ~Cancelled
      BY <1>5, <2>1, Stutters DEF WatcherTop
    <2>2. CASE Cancelled
      <3>1. PICK p \in {"stopping", "stopped"}, d \in {"none", "held"} :
              /\ Tunnel  = [phase |-> p, alive |-> TRUE, device |-> d]
              /\ Tunnel' = [phase |-> p, alive |-> FALSE, device |-> d]
        BY <1>5, <2>2 DEF WatcherTop, Cancelled, Tunnel
      <3> QED BY <3>1, EndedStep, Zenon DEF Life!LifeNext
    <2> QED BY <2>1, <2>2
  <1>6. CASE SetupClosesOld
    <2>1. CASE tunDev = Nil
      BY <1>6, <2>1, Stutters DEF SetupClosesOld, Go
    <2>2. CASE tunDev # Nil
      <3>1. PICK p \in {"new", "running", "stopped"} :
              /\ Tunnel  = [phase |-> p, alive |-> TRUE, device |-> "held"]
              /\ Tunnel' = [phase |-> p, alive |-> TRUE, device |-> "none"]
        BY <1>6, <2>2 DEF SetupClosesOld, Go, Locked, ClientInv, ClientTypeOK, Tunnel
      <3> QED BY <3>1, DroppedStep, Zenon DEF Life!LifeNext
    <2> QED BY <2>1, <2>2
  <1>7. CASE CreateOK
    <2>1. PICK p \in {"new", "running", "stopping", "stopped"} :
            /\ Tunnel  = [phase |-> p, alive |-> TRUE, device |-> "none"]
            /\ Tunnel' = [phase |-> p, alive |-> TRUE, device |-> "new"]
      BY <1>7 DEF CreateOK, Go, ClientInv, Threads, Tunnel
    <2> QED BY <2>1, OpenedStep, Zenon DEF Life!LifeNext
  <1>8. CASE StoreTun
    <2>1. conns # Nil
      BY <1>8 DEF StoreTun, Go, ClientInv, Threads, InConnectUDP, Conns, Nil
    <2>2. PICK p \in {"new", "running", "stopping", "stopped"} :
            /\ Tunnel  = [phase |-> p, alive |-> TRUE, device |-> "new"]
            /\ Tunnel' = [phase |-> p, alive |-> TRUE, device |-> "held"]
      BY <1>8, <2>1 DEF StoreTun, Go, Tunnel
    <2> QED BY <2>2, HeldStep, Zenon DEF Life!LifeNext
  <1>9. CASE DialFails \/ DialOK \/ StoreQuic \/ OpenStream \/ AuthOK \/ AuthFails
    BY <1>9, Stutters DEF DialFails, DialOK, StoreQuic, OpenStream, AuthOK, AuthFails, ErrorReturn, Go
  <1>10. CASE CreateFails \/ PlaneFails \/ Listen \/ StoreSock \/ WaitCancelled \/ WaitLost
    BY <1>10, Stutters DEF CreateFails, PlaneFails, Listen, StoreSock, WaitCancelled, WaitLost,
                           ErrorReturn, Go
  <1>11. CASE SwapToTCP \/ Wakes \/ \E k \in Conns : PeerGone(k)
    BY <1>11, Stutters DEF SwapToTCP, Wakes, PeerGone, Go
  <1>12. CASE \E k \in Conns : LoopStep(k)
    BY <1>12, LoopKeepsCore, Stutters DEF coreVars
  <1>13. CASE UNCHANGED clientVars
    BY <1>13, Stutters DEF clientVars
  <1> QED BY <1>1, <1>2, <1>3, <1>4, <1>5, <1>6, <1>7, <1>8, <1>9, <1>10, <1>11, <1>12, <1>13, Zenon
          DEF ClientNext, Stop, StopRuns, Watcher, LoopStep, Halted

(* The engine implements the lifecycle on which the local daemon and the   *)
(* bridge are built, for any number of reconnects (client.go:108-209).     *)
THEOREM LifeRefinement == ClientSpec => ImplementsLife
  <1>1. ClientInv /\ [ClientNext]_clientVars => [Life!LifeNext]_Tunnel
    BY StepLife
  <1> QED BY <1>1, InitLife, ClientInvariant, PTL DEF ClientSpec, ImplementsLife, Life!LifeSpec

-----------------------------------------------------------------------------
(* The local daemon *)

(* What the daemon can see of an engine.                                   *)
Engines == [phase : {"new", "running", "stopping", "stopped"}, alive : BOOLEAN,
            device : {"none", "new", "held"}]

(* stopVPN (client/cmd/main.go:169-176) holds clientMutex until the engine *)
(* in globalClient has stopped; outside it a globalClient that is set is   *)
(* one that runs.                                                          *)
Stops ==
  /\ mutex # "free" =>
       global # None /\ client[global].phase \in {"running", "stopping"} /\ proc # "gone"
  /\ mutex = "free" /\ global # None => client[global].phase = "running"

(* Before its connect (client/cmd/main.go:88-124) an engine does nothing.  *)
Unmade ==
  \A c \in Clients : c > made =>
    client[c] = NewTunnel /\ creating[c] = "no" /\ closing[c] = "no"

(* Only a device that an engine has is closed, and the engine has it until *)
(* Close is done (client/go_core/client.go:157-160, 331-335).              *)
Closings == \A c \in Clients : closing[c] # "no" => client[c].device = "held"

(* DnsOnlyWithDevice with what it needs: the override needs a device that  *)
(* an engine already has, one still being made (shared/tun_darwin.go:      *)
(* 91-129) does not count, nor does one whose Close is past the restore;   *)
(* an override under way has cached the service, and no restore is under   *)
(* way with it; and before the service is cleared the entry is restored.   *)
DnsHeld ==
  proc # "gone" /\ ~overlapped =>
    /\ dns = "vpn" =>
         service /\ \E c \in Clients : client[c].device # "none" /\ closing[c] \notin {"clear", "routes"}
    /\ \A c \in Clients : creating[c] = "cached" =>
         service /\ \A d \in Clients : closing[d] \notin Restoring
    /\ \A c \in Clients : closing[c] = "clear" => dns # "vpn"

(* The inductive invariant. OneRunning needs Stops, since a connect sets   *)
(* globalClient without looking at the engines, and Unmade, since the      *)
(* engine it takes must be a new one.                                      *)
DaemonInv ==
  /\ DaemonTypeOK
  /\ client \in [Clients -> Engines]
  /\ Stops /\ Unmade /\ OneRunning /\ Closings /\ DnsHeld

(* The engine of a connect was new, and runs.                              *)
LEMMA EngineStart ==
  ASSUME NEW c \in Clients, client[c] \in Engines, NEW t \in L(c)!Started
  PROVE  client[c].phase = "new" /\ t.phase = "running" /\ t \in Engines
  <1>1. client[c].phase = "new"
        /\ t = [phase |-> "running", alive |-> TRUE, device |-> client[c].device]
    BY DEF L!Started, L!To
  <1>2. client[c].device \in {"none", "new", "held"}
    BY DEF Engines
  <1>3. QED
    BY <1>1, <1>2 DEF Engines

(* Stop (client/go_core/client.go) is told to an engine that runs.         *)
LEMMA EngineCancel ==
  ASSUME NEW c \in Clients, client[c] \in Engines, NEW t \in L(c)!Cancelled
  PROVE  client[c].phase = "running" /\ t.phase = "stopping" /\ t \in Engines
  BY DEF L!Cancelled, L!To, Engines

(* Stop ends for the engine it was told to.                                *)
LEMMA EngineRelease ==
  ASSUME NEW c \in Clients, client[c] \in Engines, NEW t \in L(c)!Released
  PROVE  client[c].phase = "stopping" /\ t.phase = "stopped" /\ t \in Engines
  BY DEF L!Released, L!To, Engines

(* The goroutine of an engine never changes whether the engine runs: the   *)
(* phase is Start's and Stop's alone.                                      *)
LEMMA EngineOwn ==
  ASSUME NEW c \in Clients, client[c] \in Engines,
         NEW t \in L(c)!Dropped \cup L(c)!Opened \cup L(c)!Held \cup L(c)!Ended
  PROVE  t.phase = client[c].phase /\ t \in Engines
  <1>1. client[c].phase \in {"new", "running", "stopping", "stopped"} /\ client[c].alive \in BOOLEAN
    BY DEF Engines
  <1>2. CASE \E d \in {"none", "new", "held"} :
               t = [phase |-> client[c].phase, alive |-> client[c].alive, device |-> d]
    BY <1>1, <1>2 DEF Engines
  <1>3. CASE t \in L(c)!Ended
    BY <1>3 DEF L!Ended, L!To, Engines
  <1>4. QED
    BY <1>2, <1>3 DEF L!Dropped, L!Opened, L!Held, L!WithDevice, L!To

(* A step of one engine leaves the others alone.                           *)
LEMMA EngineMoves ==
  ASSUME client \in [Clients -> Engines], NEW c \in Clients, NEW t \in Engines,
         client' = [client EXCEPT ![c] = t]
  PROVE  /\ client' \in [Clients -> Engines]
         /\ client'[c] = t
         /\ \A d \in Clients \ {c} : client'[d] = client[d]
  OBVIOUS

(* What DaemonInv says of each variable.                                   *)
LEMMA DaemonTypes ==
  ASSUME DaemonInv
  PROVE  /\ client \in [Clients -> Engines]
         /\ creating \in [Clients -> {"no", "up", "routed", "cached"}]
         /\ closing \in [Clients -> {"no", "check", "routes"} \cup Restoring] /\ overlapped \in BOOLEAN
         /\ made \in Nat /\ MaxClients \in Nat /\ made <= MaxClients /\ global \in 0 .. made
         /\ mutex \in {"free", "disconnect", "exit"}
         /\ v4 \in 0 .. made /\ v6 \in 0 .. made
         /\ hostRoute \in BOOLEAN /\ service \in BOOLEAN /\ parent \in BOOLEAN
         /\ dns \in {"original", "vpn", "empty"}
         /\ proc \in {"up", "exiting", "gone"}
         /\ (global # None => global \in Clients)
         /\ Stops /\ Unmade /\ OneRunning /\ Closings /\ DnsHeld
  BY DaemonAssumption DEF DaemonInv, DaemonTypeOK, Clients, None

(* DaemonInv from its parts, with OneRunning and Stops for what            *)
(* DaemonTypeOK says of the engine in globalClient.                        *)
LEMMA DaemonFrom ==
  ASSUME client' \in [Clients -> Engines],
         creating' \in [Clients -> {"no", "up", "routed", "cached"}],
         closing' \in [Clients -> {"no", "check", "routes"} \cup Restoring], overlapped' \in BOOLEAN,
         made' \in 0 .. MaxClients, global' \in 0 .. made',
         mutex' \in {"free", "disconnect", "exit"},
         v4' \in 0 .. made', v6' \in 0 .. made',
         hostRoute' \in BOOLEAN, service' \in BOOLEAN, parent' \in BOOLEAN,
         dns' \in {"original", "vpn", "empty"},
         proc' \in {"up", "exiting", "gone"},
         Stops', Unmade', OneRunning', Closings', DnsHeld'
  PROVE  DaemonInv'
  <1>1. \A c \in Clients : client'[c] \in L(c)!Tunnels'
    BY DEF Engines, L!Tunnels
  <1>2. QED
    BY <1>1 DEF DaemonInv, DaemonTypeOK, Stops

(* The end of a Close (shared/tun_darwin.go:246-250) is about routes only. *)
LEMMA CloseEndsTypes ==
  ASSUME DaemonInv, NEW c \in Clients, CloseEnds(c)
  PROVE  /\ v4' \in 0 .. made /\ v6' \in 0 .. made
         /\ UNCHANGED <<hostRoute, dns, service, overlapped, creating>>
         /\ closing[c] = "routes" /\ closing' = [closing EXCEPT ![c] = "no"]
  BY DaemonTypes DEF CloseEnds, CloseAt, None

(* A step of an engine is one of an engine that a connect made: a new one  *)
(* has no goroutine. It touches that engine and the machine, no handler's  *)
(* state.                                                                  *)
LEMMA InnerFacts ==
  ASSUME DaemonInv, NEW c \in Clients, EngineStep(c)
  PROVE  /\ UNCHANGED handlerVars
         /\ c <= made
         /\ client' \in [Clients -> Engines]
         /\ creating' \in [Clients -> {"no", "up", "routed", "cached"}]
         /\ closing' \in [Clients -> {"no", "check", "routes"} \cup Restoring] /\ overlapped' \in BOOLEAN
         /\ \A d \in Clients : client'[d].phase = client[d].phase
         /\ \A d \in Clients \ {c} :
              client'[d] = client[d] /\ creating'[d] = creating[d] /\ closing'[d] = closing[d]
  <1>t. /\ client \in [Clients -> Engines] /\ client[c] \in Engines
        /\ creating \in [Clients -> {"no", "up", "routed", "cached"}]
        /\ closing \in [Clients -> {"no", "check", "routes"} \cup Restoring] /\ overlapped \in BOOLEAN
        /\ service \in BOOLEAN
    BY DaemonTypes
  <1>1. UNCHANGED handlerVars
    BY DEF EngineStep, CreateStarts, CreateGivesUp, AddRoutes, SkipRoutes, NoPrimaryService, CacheService,
           OverrideDNS, Created, CreateAt, StoreDevice, ReplaceDevice, EngineEnds, CloseStep,
           CloseChecksService, CloseWritesScript, RestoreDNS, ClearService, Replaced, CloseEnds,
           CloseAt, deviceVars
  <1>2. creating[c] # "no" \/ closing[c] # "no" \/ client[c].alive
    BY DEF EngineStep, CreateStarts, CreateGivesUp, AddRoutes, SkipRoutes, NoPrimaryService, CacheService,
           OverrideDNS, Created, CreateAt, StoreDevice, ReplaceDevice, EngineEnds, CloseStep,
           CloseChecksService, CloseWritesScript, RestoreDNS, ClearService, Replaced, CloseEnds,
           CloseAt, Step, L!Opened, L!Held, L!Dropped, L!Ended, L!To
  <1>3. c <= made
    BY <1>2, DaemonTypes DEF Unmade, NewTunnel, Clients
  <1>4. creating' \in [Clients -> {"no", "up", "routed", "cached"}]
        /\ \A d \in Clients \ {c} : creating'[d] = creating[d]
    BY <1>t
    DEF EngineStep, CreateStarts, CreateGivesUp, AddRoutes, SkipRoutes, NoPrimaryService, CacheService,
           OverrideDNS, Created, CreateAt, StoreDevice, ReplaceDevice, EngineEnds, CloseStep,
           CloseChecksService, CloseWritesScript, RestoreDNS, ClearService, Replaced, CloseEnds,
           CloseAt, deviceVars
  <1>5. /\ closing' \in [Clients -> {"no", "check", "routes"} \cup Restoring] /\ overlapped' \in BOOLEAN
        /\ \A d \in Clients \ {c} : closing'[d] = closing[d]
    BY <1>t
    DEF EngineStep, CreateStarts, CreateGivesUp, AddRoutes, SkipRoutes, NoPrimaryService, CacheService,
           OverrideDNS, Created, CreateAt, StoreDevice, ReplaceDevice, EngineEnds, CloseStep,
           CloseChecksService, CloseWritesScript, RestoreDNS, ClearService, Replaced, CloseEnds,
           CloseAt, deviceVars, Restoring
  <1>6. /\ client' \in [Clients -> Engines]
        /\ \A d \in Clients : client'[d].phase = client[d].phase
        /\ \A d \in Clients \ {c} : client'[d] = client[d]
    <2>1. CASE UNCHANGED client
      BY <2>1, <1>t
    <2>2. CASE \E t \in L(c)!Dropped \cup L(c)!Opened \cup L(c)!Held \cup L(c)!Ended :
                 client' = [client EXCEPT ![c] = t]
      BY <2>2, <1>t, EngineOwn, EngineMoves
    <2>3. QED
      BY <2>1, <2>2
      DEF EngineStep, CreateStarts, CreateGivesUp, AddRoutes, SkipRoutes, NoPrimaryService, CacheService,
           OverrideDNS, Created, CreateAt, StoreDevice, ReplaceDevice, EngineEnds, CloseStep,
           CloseChecksService, CloseWritesScript, RestoreDNS, ClearService, Replaced, CloseEnds,
           CloseAt, Step
  <1>7. QED
    BY <1>1, <1>3, <1>4, <1>5, <1>6

(* An engine loses its device in Replaced only.                            *)
LEMMA DeviceStays ==
  ASSUME DaemonInv, NEW c \in Clients, EngineStep(c), ~Replaced(c)
  PROVE  /\ client[c].device # "none" => client'[c].device # "none"
         /\ client[c].device = "held" => client'[c].device = "held"
  <1>t. client \in [Clients -> Engines] /\ client[c] \in Engines
    BY DaemonTypes
  <1>1. CASE UNCHANGED client
    BY <1>1
  <1>2. CASE \E t \in L(c)!Opened \cup L(c)!Held \cup L(c)!Ended :
               client' = [client EXCEPT ![c] = t]
    <2>1. PICK t \in L(c)!Opened \cup L(c)!Held \cup L(c)!Ended :
                 client' = [client EXCEPT ![c] = t]
      BY <1>2
    <2>2. /\ t.device = client[c].device \/ t.device # "none"
          /\ client[c].device = "held" => t.device = "held"
      BY <1>t DEF L!Opened, L!Held, L!Ended, L!WithDevice, L!To, Engines
    <2>3. QED
      BY <2>1, <2>2, <1>t
  <1>3. QED
    BY <1>1, <1>2
    DEF EngineStep, CreateStarts, CreateGivesUp, AddRoutes, SkipRoutes, NoPrimaryService,
        CacheService, OverrideDNS, Created, StoreDevice, ReplaceDevice, EngineEnds, CloseStep,
        CloseChecksService, CloseWritesScript, RestoreDNS, ClearService, Step

(* An engine begins to close a device that it has, and is done with Close  *)
(* when it drops it.                                                       *)
LEMMA InnerClosings ==
  ASSUME DaemonInv, NEW c \in Clients, EngineStep(c)
  PROVE  Closings'
  <1>t. /\ client \in [Clients -> Engines] /\ closing \in [Clients -> {"no", "check", "routes"} \cup Restoring]
        /\ Closings
    BY DaemonTypes
  <1>i. \A d \in Clients \ {c} : client'[d] = client[d] /\ closing'[d] = closing[d]
    BY InnerFacts
  <1>1. CASE Replaced(c)
    BY <1>1, <1>t, <1>i DEF Replaced, CloseEnds, CloseAt, Closings
  <1>2. CASE ReplaceDevice(c)
    <2>1. client[c].device = "held"
      BY <1>2 DEF ReplaceDevice, L!Dropped, L!To
    <2>2. UNCHANGED client
      BY <1>2 DEF ReplaceDevice
    <2>3. QED
      BY <2>1, <2>2, <1>t, <1>i DEF Closings
  <1>3. CASE ~Replaced(c) /\ ~ReplaceDevice(c)
    <2>1. closing'[c] # "no" => closing[c] # "no"
      BY <1>3, <1>t
      DEF EngineStep, CreateStarts, CreateGivesUp, AddRoutes, SkipRoutes, NoPrimaryService,
          CacheService, OverrideDNS, Created, CreateAt, StoreDevice, EngineEnds, CloseStep,
          CloseChecksService, CloseWritesScript, RestoreDNS, ClearService, CloseAt, deviceVars
    <2>2. QED
      BY <2>1, <1>3, <1>t, <1>i, DeviceStays DEF Closings
  <1>4. QED
    BY <1>1, <1>2, <1>3

(* The types of the machine's state, whichever engine steps.               *)
LEMMA InnerHost ==
  ASSUME DaemonInv, NEW c \in Clients, EngineStep(c)
  PROVE  /\ v4' \in 0 .. made /\ v6' \in 0 .. made
         /\ hostRoute' \in BOOLEAN /\ service' \in BOOLEAN
         /\ dns' \in {"original", "vpn", "empty"}
  <1>t. /\ made \in Nat /\ v4 \in 0 .. made /\ v6 \in 0 .. made
        /\ hostRoute \in BOOLEAN /\ service \in BOOLEAN /\ dns \in {"original", "vpn", "empty"}
        /\ c \in 0 .. made /\ None \in 0 .. made
    BY DaemonTypes, InnerFacts DEF Clients, None
  <1>1. CASE Replaced(c)
    BY <1>1, <1>t, CloseEndsTypes DEF Replaced
  <1>2. CASE ~Replaced(c)
    <2>1. v4' \in {c, v4, None} /\ v6' \in {c, v6, None}
      BY <1>2
      DEF EngineStep, CreateStarts, CreateGivesUp, AddRoutes, SkipRoutes, NoPrimaryService,
          CacheService, OverrideDNS, Created, StoreDevice, ReplaceDevice, EngineEnds, CloseStep,
          CloseChecksService, CloseWritesScript, RestoreDNS, ClearService, hostVars
    <2>2. /\ hostRoute' \in BOOLEAN /\ service' \in {service, TRUE, FALSE}
          /\ dns' \in {dns, "vpn", "empty"}
      BY <1>2, <1>t
      DEF EngineStep, CreateStarts, CreateGivesUp, AddRoutes, SkipRoutes, NoPrimaryService,
          CacheService, OverrideDNS, Created, StoreDevice, ReplaceDevice, EngineEnds, CloseStep,
          CloseChecksService, CloseWritesScript, RestoreDNS, ClearService, hostVars
    <2>3. QED
      BY <2>1, <2>2, <1>t
  <1>3. QED
    BY <1>1, <1>2

(* The override and its restore, whichever engine steps: as long as they   *)
(* do not overlap, OverrideDNS finds the service cached and has a device   *)
(* that will restore it, and the service is cleared only after the entry   *)
(* was restored.                                                           *)
LEMMA InnerDns ==
  ASSUME DaemonInv, NEW c \in Clients, EngineStep(c)
  PROVE  DnsHeld'
  <1> SUFFICES ASSUME proc # "gone", ~overlapped'
               PROVE  DnsHeld'
    BY InnerFacts DEF DnsHeld, handlerVars
  <1>t. /\ client \in [Clients -> Engines] /\ client[c] \in Engines
        /\ creating \in [Clients -> {"no", "up", "routed", "cached"}]
        /\ closing \in [Clients -> {"no", "check", "routes"} \cup Restoring]
        /\ overlapped \in BOOLEAN /\ service \in BOOLEAN /\ proc' = proc
    BY DaemonTypes, InnerFacts DEF handlerVars
  <1>i. \A d \in Clients \ {c} :
          client'[d] = client[d] /\ creating'[d] = creating[d] /\ closing'[d] = closing[d]
    BY InnerFacts
  <1>o. ~overlapped
    BY DEF EngineStep, CreateStarts, CreateGivesUp, AddRoutes, SkipRoutes, NoPrimaryService, CacheService,
           OverrideDNS, Created, CreateAt, StoreDevice, ReplaceDevice, EngineEnds, CloseStep,
           CloseChecksService, CloseWritesScript, RestoreDNS, ClearService, Replaced, CloseEnds,
           CloseAt, deviceVars
  <1>d. /\ dns = "vpn" => service /\ \E d \in Clients :
             client[d].device # "none" /\ closing[d] \notin {"clear", "routes"}
        /\ \A d \in Clients : creating[d] = "cached" =>
             service /\ \A e \in Clients : closing[e] \notin Restoring
        /\ \A d \in Clients : closing[d] = "clear" => dns # "vpn"
    BY <1>o, DaemonTypes DEF DnsHeld
  <1>h. Closings
    BY DaemonTypes
  <1>1. CASE Replaced(c)
    <2>1. /\ UNCHANGED <<dns, service, creating>> /\ closing[c] = "routes" /\ closing'[c] = "no"
      BY <1>1, <1>t, CloseEndsTypes DEF Replaced
    <2>2. QED
      BY <2>1, <1>t, <1>i, <1>d DEF DnsHeld, Restoring
  <1>2. CASE OverrideDNS(c)
    <2>1. PICK t \in L(c)!Opened : client' = [client EXCEPT ![c] = t]
      BY <1>2 DEF OverrideDNS, Created, Step
    <2>2. t.device = "new" /\ client[c].device = "none"
      BY <2>1 DEF L!Opened, L!WithDevice, L!To
    <2>3. client'[c].device # "none" /\ closing[c] = "no"
      BY <2>1, <2>2, <1>t, <1>h DEF Closings
    <2>4. /\ creating[c] = "cached" /\ creating'[c] = "no" /\ dns' = "vpn"
          /\ UNCHANGED <<closing, service>>
      BY <1>2, <1>t DEF OverrideDNS, Created, CreateAt
    <2>5. QED
      BY <2>3, <2>4, <1>t, <1>i, <1>d DEF DnsHeld, Restoring
  <1>3. CASE CacheService(c)
    <2>1. /\ service' = TRUE /\ \A d \in Clients : closing[d] \notin Restoring
          /\ UNCHANGED <<closing, client, dns>>
      BY <1>3 DEF CacheService, CreateAt
    <2>2. QED
      BY <2>1, <1>i, <1>d DEF DnsHeld
  <1>4. CASE CloseChecksService(c)
    <2>1. /\ closing[c] = "check" /\ closing'[c] = IF service THEN "script" ELSE "routes"
          /\ service => \A d \in Clients : creating[d] # "cached"
          /\ UNCHANGED <<client, creating, dns, service>>
      BY <1>4, <1>t DEF CloseChecksService, CloseAt, hostVars
    <2>2. QED
      BY <2>1, <1>t, <1>i, <1>d DEF DnsHeld, Restoring
  <1>5. CASE CloseWritesScript(c)
    <2>1. /\ closing[c] = "script" /\ closing'[c] = IF service THEN "restore" ELSE "clear"
          /\ UNCHANGED <<client, creating, dns, service>>
      BY <1>5, <1>t DEF CloseWritesScript, CloseAt, hostVars
    <2>2. QED
      BY <2>1, <1>t, <1>i, <1>d DEF DnsHeld, Restoring
  <1>6. CASE RestoreDNS(c)
    <2>1. /\ closing[c] = "restore" /\ dns' = "empty"
          /\ UNCHANGED <<client, creating, service>>
      BY <1>6, <1>t DEF RestoreDNS, CloseAt
    <2>2. \A d \in Clients : creating[d] # "cached"
      BY <2>1, <1>d DEF Restoring
    <2>3. QED
      BY <2>1, <2>2, <1>t DEF DnsHeld
  <1>7. CASE ClearService(c)
    <2>1. /\ closing[c] = "clear" /\ closing'[c] = "routes"
          /\ UNCHANGED <<client, creating, dns>>
      BY <1>7, <1>t DEF ClearService, CloseAt
    <2>2. \A d \in Clients : creating[d] # "cached"
      BY <2>1, <1>d DEF Restoring
    <2>3. QED
      BY <2>1, <2>2, <1>t, <1>d DEF DnsHeld
  <1>8. CASE ~Replaced(c) /\ ~OverrideDNS(c) /\ ~CacheService(c) /\ ~CloseStep(c)
    <2>1. UNCHANGED <<dns, service>>
      BY <1>8 DEF EngineStep, CreateStarts, CreateGivesUp, AddRoutes, SkipRoutes, NoPrimaryService,
                  StoreDevice, ReplaceDevice, EngineEnds, hostVars
    <2>2. (creating'[c] = "cached" => creating[c] = "cached")
          /\ (closing'[c] = closing[c] \/ (closing[c] = "no" /\ closing'[c] = "check"))
      BY <1>8, <1>t
      DEF EngineStep, CreateStarts, CreateGivesUp, AddRoutes, SkipRoutes, NoPrimaryService,
          Created, CreateAt, StoreDevice, ReplaceDevice, EngineEnds, CloseAt, deviceVars
    <2>3. client[c].device # "none" => client'[c].device # "none"
      BY <1>8, DeviceStays
    <2>4. \A d \in Clients : client[d].device # "none" => client'[d].device # "none"
      BY <2>3, <1>i
    <2>5. \A d \in Clients : /\ creating'[d] = "cached" => creating[d] = "cached"
                             /\ closing'[d] \in Restoring => closing[d] \in Restoring
                             /\ closing'[d] \in {"clear", "routes"} => closing'[d] = closing[d]
      BY <2>2, <1>i DEF Restoring
    <2>6. QED
      BY <2>1, <2>4, <2>5, <1>t, <1>d DEF DnsHeld, Restoring
  <1>9. QED
    BY <1>1, <1>2, <1>3, <1>4, <1>5, <1>6, <1>7, <1>8 DEF CloseStep

(* The steps of the engines preserve DaemonInv, whichever engine steps.    *)
LEMMA InnerInv ==
  ASSUME DaemonInv, NEW c \in Clients, EngineStep(c)
  PROVE  DaemonInv'
  <1>1. UNCHANGED <<made, global, mutex, proc, parent>>
    BY InnerFacts DEF handlerVars
  <1>2. Stops' /\ OneRunning'
    BY <1>1, InnerFacts, DaemonTypes DEF Stops, OneRunning
  <1>3. Unmade'
    <2>1. c \in Nat /\ made \in Nat /\ c <= made
      BY InnerFacts, DaemonTypes DEF Clients
    <2>2. \A d \in Clients : d > made => d # c
      BY <2>1
    <2>3. \A d \in Clients \ {c} :
            client'[d] = client[d] /\ creating'[d] = creating[d] /\ closing'[d] = closing[d]
      BY InnerFacts
    <2>4. QED
      BY <1>1, <2>2, <2>3, DaemonTypes DEF Unmade, NewTunnel
  <1>4. Closings' /\ DnsHeld'
    BY InnerClosings, InnerDns
  <1>5. QED
    BY <1>1, <1>2, <1>3, <1>4, InnerFacts, InnerHost, DaemonTypes, DaemonFrom

(* handleConnect (client/cmd/main.go:88-124): the new engine is the only   *)
(* one that runs, because no other one is in globalClient.                 *)
LEMMA ConnectInv ==
  ASSUME DaemonInv, HandleConnect
  PROVE  DaemonInv'
  <1> DEFINE c == made + 1
  <1>1. /\ UNCHANGED <<creating, closing, overlapped, mutex, proc, parent>>
        /\ UNCHANGED <<v4, v6, hostRoute, dns, service>>
        /\ made' = c /\ global' = c /\ mutex = "free" /\ global = None /\ made < MaxClients
    BY DEF HandleConnect, hostVars, deviceVars
  <1>2. c \in Clients /\ c # None /\ made \in Nat /\ MaxClients \in Nat /\ c \in 0 .. MaxClients
    BY <1>1, DaemonTypes DEF Clients, None
  <1>3. PICK t \in L(c)!Started : client' = [client EXCEPT ![c] = t]
    BY DEF HandleConnect, Step
  <1>4. client[c] \in Engines /\ client[c] = NewTunnel
    BY <1>2, DaemonTypes DEF Unmade
  <1>5. t \in Engines /\ t.phase = "running"
    BY <1>2, <1>4, EngineStart
  <1>6. /\ client' \in [Clients -> Engines] /\ client'[c].phase = "running"
        /\ \A d \in Clients \ {c} : client'[d] = client[d]
    BY <1>2, <1>3, <1>5, EngineMoves, DaemonTypes
  <1>7. Stops' /\ OneRunning'
    BY <1>1, <1>2, <1>6, DaemonTypes DEF Stops, OneRunning, None, Clients
  <1>8. Unmade'
    <2>1. \A d \in Clients : d > c => d > made /\ d # c
      BY <1>2 DEF Clients
    <2>2. QED
      BY <1>1, <1>6, <2>1, DaemonTypes DEF Unmade, NewTunnel
  <1>9. DnsHeld' /\ Closings'
    <2>1. client[c].device = "none"
      BY <1>4 DEF NewTunnel
    <2>2. QED
      BY <1>1, <1>6, <2>1, DaemonTypes DEF DnsHeld, Closings
  <1>10. QED
    BY <1>1, <1>2, <1>6, <1>7, <1>8, <1>9, DaemonTypes, DaemonFrom

(* handleDisconnect and the signal handler take clientMutex for stopVPN    *)
(* (client/cmd/main.go:62-70, 126-136, 169-171).                           *)
LEMMA StopStartsInv ==
  ASSUME DaemonInv, HandleDisconnect \/ Signal
  PROVE  DaemonInv'
  <1>1. PICK for \in {"disconnect", "exit"} : StopVPN(for)
    BY DEF HandleDisconnect, Signal
  <1>2. proc # "gone"
    BY DEF HandleDisconnect, Signal
  <1>3. /\ UNCHANGED <<client, creating, closing, overlapped, made, global, proc, parent>>
        /\ UNCHANGED <<v4, v6, hostRoute, dns, service>>
        /\ mutex' = for /\ mutex = "free" /\ global # None
    BY <1>1 DEF StopVPN, hostVars, deviceVars
  <1>4. Stops'
    BY <1>2, <1>3, DaemonTypes DEF Stops
  <1>5. Unmade' /\ OneRunning' /\ Closings' /\ DnsHeld'
    BY <1>3, DaemonTypes DEF Unmade, OneRunning, Closings, DnsHeld, NewTunnel
  <1>6. QED
    BY <1>3, <1>4, <1>5, DaemonTypes, DaemonFrom

(* Stop has c.mu and cancels (client/go_core/client.go:137-144): the       *)
(* engine that is told to stop stays the one in globalClient.              *)
LEMMA StopCancelsInv ==
  ASSUME DaemonInv, StopCancels
  PROVE  DaemonInv'
  <1>1. /\ UNCHANGED <<creating, closing, overlapped, made, global, mutex, proc, parent>>
        /\ UNCHANGED <<v4, v6, hostRoute, dns, service>>
        /\ mutex # "free"
    BY DEF StopCancels, hostVars, deviceVars, handlerVars
  <1>2. global # None /\ global \in Clients /\ client[global] \in Engines /\ proc # "gone"
    BY <1>1, DaemonTypes DEF Stops
  <1>3. PICK t \in L(global)!Cancelled : client' = [client EXCEPT ![global] = t]
    BY DEF StopCancels, Step
  <1>4. t \in Engines /\ t.phase = "stopping" /\ t.device = client[global].device
    BY <1>2, EngineCancel DEF L!Cancelled, L!To, Engines
  <1>5. /\ client' \in [Clients -> Engines] /\ client'[global].phase = "stopping"
        /\ client'[global].device = client[global].device
        /\ \A d \in Clients \ {global} : client'[d] = client[d]
    BY <1>2, <1>3, <1>4, EngineMoves, DaemonTypes
  <1>6. Stops' /\ OneRunning'
    BY <1>1, <1>2, <1>5, DaemonTypes DEF Stops, OneRunning
  <1>7. Unmade'
    <2>1. \A d \in Clients : d > made => d # global
      BY DaemonTypes DEF Clients
    <2>2. QED
      BY <1>1, <1>5, <2>1, DaemonTypes DEF Unmade, NewTunnel
  <1>8. \A d \in Clients : client'[d].device = client[d].device
    BY <1>5
  <1>9. Closings' /\ DnsHeld'
    BY <1>1, <1>8, DaemonTypes DEF Closings, DnsHeld
  <1>10. QED
    BY <1>1, <1>5, <1>6, <1>7, <1>9, DaemonTypes, DaemonFrom

(* Stop begins to close the device it finds (client/go_core/client.go:     *)
(* 157-158).                                                               *)
LEMMA StopClosesInv ==
  ASSUME DaemonInv, StopClosesDevice
  PROVE  DaemonInv'
  <1>1. /\ UNCHANGED <<client, creating, overlapped, made, global, mutex, proc, parent>>
        /\ UNCHANGED <<v4, v6, hostRoute, dns, service>>
        /\ mutex # "free" /\ client[global].device = "held"
        /\ closing[global] = "no" /\ closing' = [closing EXCEPT ![global] = "check"]
    BY DEF StopClosesDevice, CloseAt, hostVars, handlerVars
  <1>2. global # None /\ global \in Clients
    BY <1>1, DaemonTypes DEF Stops
  <1>3. /\ closing' \in [Clients -> {"no", "check", "routes"} \cup Restoring]
        /\ closing'[global] = "check"
        /\ \A d \in Clients \ {global} : closing'[d] = closing[d]
    BY <1>1, <1>2, DaemonTypes
  <1>4. Unmade'
    <2>1. \A d \in Clients : d > made => d # global
      BY DaemonTypes DEF Clients
    <2>2. QED
      BY <1>1, <1>3, <2>1, DaemonTypes DEF Unmade, NewTunnel
  <1>5. Stops' /\ OneRunning' /\ Closings'
    BY <1>1, <1>3, DaemonTypes DEF Stops, OneRunning, Closings
  <1>6. DnsHeld'
    BY <1>1, <1>3, DaemonTypes DEF DnsHeld, Restoring
  <1>7. QED
    BY <1>1, <1>3, <1>4, <1>5, <1>6, DaemonTypes, DaemonFrom

(* The rest of stopVPN (client/cmd/main.go:169-176): globalClient is       *)
(* cleared when its engine has stopped, and the device it held is closed.  *)
LEMMA StopFinishesInv ==
  ASSUME DaemonInv, StopFinishes
  PROVE  DaemonInv'
  <1>1. /\ UNCHANGED <<made, parent>> /\ mutex # "free"
        /\ global' = None /\ mutex' = "free" /\ proc' \in {"exiting", proc}
    BY DEF StopFinishes, ClientAfterStop
  <1>2. global \in Clients /\ client[global] \in Engines /\ proc # "gone" /\ global <= made
    BY <1>1, DaemonTypes DEF Stops, Clients
  <1>3. PICK t \in L(global)!Released : client' = [client EXCEPT ![global] = t]
    BY DEF StopFinishes, Step
  <1>4. /\ t \in Engines /\ t.phase = "stopped"
        /\ client[global].device # "held" => t.device = client[global].device
    BY <1>2, EngineRelease DEF L!Released, L!To, Engines
  <1>5. /\ client' \in [Clients -> Engines] /\ client'[global] = t
        /\ \A d \in Clients \ {global} : client'[d] = client[d]
    BY <1>2, <1>3, <1>4, EngineMoves, DaemonTypes
  <1>6. Stops'
    BY <1>1 DEF Stops
  <1>7. OneRunning'
    BY <1>1, <1>4, <1>5, DaemonTypes DEF OneRunning
  <1>h. /\ v4' \in 0 .. made /\ v6' \in 0 .. made
        /\ UNCHANGED <<hostRoute, dns, service, overlapped, creating>>
        /\ \/ client[global].device = "held" /\ closing[global] = "routes"
              /\ closing' = [closing EXCEPT ![global] = "no"]
           \/ client[global].device # "held" /\ UNCHANGED closing
    <2>1. CASE client[global].device = "held"
      <3>1. CloseEnds(global)
        BY <2>1 DEF StopFinishes
      <3>2. QED
        BY <2>1, <3>1, <1>2, CloseEndsTypes
    <2>2. CASE client[global].device # "held"
      BY <2>2, DaemonTypes DEF StopFinishes, hostVars, deviceVars
    <2>3. QED
      BY <2>1, <2>2
  <1>c. /\ closing' \in [Clients -> {"no", "check", "routes"} \cup Restoring]
        /\ closing'[global] = "no"
        /\ \A d \in Clients \ {global} : closing'[d] = closing[d]
    BY <1>h, <1>2, DaemonTypes DEF Closings
  <1>8. Unmade'
    <2>1. \A d \in Clients : d > made => d # global
      BY <1>2, DaemonTypes DEF Clients
    <2>2. QED
      BY <1>1, <1>h, <1>c, <1>5, <2>1, DaemonTypes DEF Unmade, NewTunnel
  <1>9. Closings'
    BY <1>c, <1>5, DaemonTypes DEF Closings
  <1>10. DnsHeld'
    <2>1. \A d \in Clients : closing[d] \notin {"clear", "routes"} /\ client[d].device # "none"
            => client'[d].device # "none"
      BY <1>h, <1>4, <1>5
    <2>2. \A d \in Clients : closing'[d] \in {"no", closing[d]}
      BY <1>c
    <2>3. QED
      BY <1>1, <1>2, <1>h, <2>1, <2>2, DaemonTypes DEF DnsHeld, Restoring
  <1>11. QED
    BY <1>1, <1>h, <1>c, <1>5, <1>6, <1>7, <1>8, <1>9, <1>10, DaemonTypes, DaemonFrom DEF None

(* The end of the process takes the engines with it                        *)
(* (client/cmd/main.go:66-86).                                             *)
LEMMA ExitInv ==
  ASSUME DaemonInv, Exit
  PROVE  DaemonInv'
  <1>1. NewTunnel \in Engines /\ NewTunnel.phase = "new"
    BY DEF NewTunnel, Engines
  <1>2. client' = [c \in Clients |-> NewTunnel] /\ creating' = [c \in Clients |-> "no"]
        /\ closing' = [c \in Clients |-> "no"]
    BY DEF Exit
  <1>3. /\ UNCHANGED <<overlapped, made, parent, hostRoute, dns>>
        /\ proc' = "gone" /\ global' = None /\ mutex' = "free" /\ service' = FALSE
        /\ v4' = None /\ v6' = None
    BY DEF Exit
  <1>4. /\ client' \in [Clients -> Engines]
        /\ creating' \in [Clients -> {"no", "up", "routed", "cached"}]
        /\ closing' \in [Clients -> {"no", "check", "routes"} \cup Restoring]
    BY <1>1, <1>2
  <1>5. Stops' /\ Unmade' /\ OneRunning' /\ Closings' /\ DnsHeld'
    BY <1>1, <1>2, <1>3 DEF Stops, Unmade, OneRunning, Closings, DnsHeld, NewTunnel
  <1>6. /\ made' \in 0 .. MaxClients /\ global' \in 0 .. made'
        /\ v4' \in 0 .. made' /\ v6' \in 0 .. made'
    BY <1>3, DaemonTypes DEF None
  <1>7. /\ hostRoute' \in BOOLEAN /\ service' \in BOOLEAN /\ parent' \in BOOLEAN
        /\ dns' \in {"original", "vpn", "empty"} /\ overlapped' \in BOOLEAN
    BY <1>3, DaemonTypes
  <1>8. QED
    BY <1>3, <1>4, <1>5, <1>6, <1>7, DaemonFrom

(* The steps that touch neither an engine nor the machine: the signal      *)
(* handler with no tunnel, and the end of the app.                         *)
LEMMA QuietInv ==
  ASSUME DaemonInv, UNCHANGED <<client, deviceVars, made, global, mutex, hostVars>>,
         parent' \in BOOLEAN, proc' \in {"up", "exiting", "gone"},
         proc = "gone" => proc' = "gone", proc' = "gone" => mutex = "free"
  PROVE  DaemonInv'
  <1>1. UNCHANGED <<creating, closing, overlapped, v4, v6, hostRoute, dns, service>>
    BY DEF hostVars, deviceVars
  <1>2. Stops' /\ Unmade' /\ OneRunning' /\ Closings' /\ DnsHeld'
    BY <1>1, DaemonTypes DEF Stops, Unmade, OneRunning, Closings, DnsHeld, NewTunnel
  <1>3. QED
    BY <1>1, <1>2, DaemonTypes, DaemonFrom

(* DaemonInv holds in every state the daemon can reach.                    *)
LEMMA DaemonInvAlways == DaemonSpec => []DaemonInv
  <1>1. DaemonInit => DaemonInv
    <2>1. SUFFICES ASSUME DaemonInit PROVE DaemonInv
      OBVIOUS
    <2>2. NewTunnel \in Engines /\ NewTunnel.phase = "new"
      BY DEF NewTunnel, Engines
    <2>3. client \in [Clients -> Engines] /\ \A c \in Clients : client[c] \in L(c)!Tunnels
      BY <2>1, <2>2 DEF DaemonInit, Engines, L!Tunnels
    <2>4. DaemonTypeOK
      <3>1. /\ creating \in [Clients -> {"no", "up", "routed", "cached"}]
            /\ closing \in [Clients -> {"no", "check", "routes"} \cup Restoring]
            /\ overlapped \in BOOLEAN
        BY <2>1 DEF DaemonInit
      <3>2. made = 0 /\ global = None /\ v4 = None /\ v6 = None /\ MaxClients \in Nat
        BY <2>1, DaemonAssumption DEF DaemonInit
      <3>3. /\ mutex = "free" /\ dns = "original" /\ proc = "up"
            /\ hostRoute \in BOOLEAN /\ service \in BOOLEAN /\ parent \in BOOLEAN
        BY <2>1 DEF DaemonInit
      <3>4. QED
        BY <2>3, <3>1, <3>2, <3>3 DEF DaemonTypeOK, None
    <2>5. Stops /\ Unmade /\ OneRunning /\ Closings /\ DnsHeld
      BY <2>1, <2>2 DEF DaemonInit, Stops, Unmade, OneRunning, Closings, DnsHeld
    <2>6. QED
      BY <2>3, <2>4, <2>5 DEF DaemonInv
  <1>2. DaemonInv /\ [DaemonNext]_daemonVars => DaemonInv'
    <2>1. SUFFICES ASSUME DaemonInv, [DaemonNext]_daemonVars PROVE DaemonInv'
      OBVIOUS
    <2>2. CASE SignalIdle \/ ParentDies
      BY <2>1, <2>2, QuietInv, DaemonTypes DEF SignalIdle, ParentDies, Stops
    <2>3. CASE UNCHANGED daemonVars
      BY <2>1, <2>3, QuietInv, DaemonTypes DEF daemonVars, handlerVars, Stops
    <2>4. QED
      BY <2>1, <2>2, <2>3, ConnectInv, StopStartsInv, StopCancelsInv, StopClosesInv,
         StopFinishesInv, ExitInv, InnerInv
      DEF DaemonNext, SignalExits, WatchdogExits, APICrash, Gone
  <1>3. QED
    BY <1>1, <1>2, PTL DEF DaemonSpec

(* The types, for any number of connects; with them, that the globalClient *)
(* handlers find under clientMutex is running                              *)
(* (client/cmd/main.go:106-116).                                           *)
THEOREM DaemonTypeCorrect == DaemonSpec => []DaemonTypeOK
  <1>1. DaemonInv => DaemonTypeOK
    BY DEF DaemonInv
  <1>2. QED
    BY <1>1, DaemonInvAlways, PTL

(* OneRunning: no order of connects, disconnects and signals leaves an     *)
(* engine running that the next disconnect would not reach                 *)
(* (client/cmd/main.go:106-116, 169-176).                                  *)
THEOREM OneEngineRuns == DaemonSpec => []OneRunning
  <1>1. DaemonInv => OneRunning
    BY DEF DaemonInv
  <1>2. QED
    BY <1>1, DaemonInvAlways, PTL

(* DnsOnlyWithDevice: while the daemon lives, an overridden DNS entry has  *)
(* a device whose Close will restore it, although every device shares one  *)
(* globalPrimaryService and the goroutines of stopped engines still create *)
(* and close devices (shared/tun_darwin.go:34, 176-196, 238-245). Only an  *)
(* override that runs while another device's Close restores can break it.  *)
THEOREM OverrideHasRestorer == DaemonSpec => []DnsOnlyWithDevice
  <1>1. DaemonInv => DnsOnlyWithDevice
    BY DEF DaemonInv, DnsHeld, DnsOnlyWithDevice, HasDevice
  <1>2. QED
    BY <1>1, DaemonInvAlways, PTL

(* The daemon calls an engine only when the engine takes the call: a       *)
(* connect starts one that is new, a disconnect or a signal stops one that *)
(* runs, and the Stop that holds clientMutex can go on once it has c.mu    *)
(* (client/cmd/main.go:106-124, 126-136, 169-176), for any number of       *)
(* engines.                                                                *)
THEOREM DaemonCallsInTurn ==
  DaemonSpec =>
    [](/\ mutex # "free" => global # None /\ L(global)!Cancelled \cup L(global)!Released # {}
       /\ mutex = "free" /\ global # None => L(global)!Cancelled # {}
       /\ made < MaxClients => L(made + 1)!Started # {})
  <1>1. ASSUME DaemonInv
        PROVE  /\ mutex # "free" =>
                    global # None /\ L(global)!Cancelled \cup L(global)!Released # {}
               /\ mutex = "free" /\ global # None => L(global)!Cancelled # {}
               /\ made < MaxClients => L(made + 1)!Started # {}
    <2>1. mutex # "free" => global # None /\ L(global)!Cancelled \cup L(global)!Released # {}
      BY <1>1, DaemonTypes DEF Stops, L!Cancelled, L!Released, L!To
    <2>2. mutex = "free" /\ global # None => L(global)!Cancelled # {}
      BY <1>1, DaemonTypes DEF Stops, L!Cancelled, L!To
    <2>3. ASSUME made < MaxClients PROVE L(made + 1)!Started # {}
      <3>1. made + 1 \in Clients /\ made + 1 > made
        BY <1>1, <2>3, DaemonTypes DEF Clients
      <3>2. client[made + 1].phase = "new"
        BY <1>1, <3>1, DaemonTypes DEF Unmade, NewTunnel
      <3>3. QED
        BY <3>2 DEF L!Started, L!To
    <2>4. QED
      BY <2>1, <2>2, <2>3
  <1>2. QED
    BY <1>1, DaemonInvAlways, PTL

(* Override routes lead to a device that exists, so that a Close can take  *)
(* them away with it: CreateTUN gives up on a device only before it adds   *)
(* routes, and an engine gives up one that it has only by closing it       *)
(* (shared/tun_darwin.go:131-163, 236-253).                                *)
Routed ==
  \A c \in Clients : c \in {v4, v6} =>
    creating[c] \in {"routed", "cached"} \/ client[c].device # "none"

(* The end of a Close (shared/tun_darwin.go:246-250) takes the device's    *)
(* own routes, and adds none.                                              *)
LEMMA CloseUnroutes ==
  ASSUME NEW c \in Clients, CloseEnds(c)
  PROVE  \A d \in Clients : d \in {v4', v6'} => d \in {v4, v6} /\ d # c
  <1>1. \A d \in Clients : d # None
    BY DEF Clients, None
  <1>2. v4' \in {v4, None} /\ v4' # c
    BY <1>1 DEF CloseEnds
  <1>3. v6' \in {v6, None} /\ v6' # c
    BY <1>1 DEF CloseEnds
  <1>4. QED
    BY <1>1, <1>2, <1>3

(* The steps of the engines keep Routed.                                   *)
LEMMA InnerRouted ==
  ASSUME DaemonInv, Routed, NEW c \in Clients, EngineStep(c)
  PROVE  Routed'
  <1>t. /\ client \in [Clients -> Engines] /\ client[c] \in Engines
        /\ creating \in [Clients -> {"no", "up", "routed", "cached"}]
    BY DaemonTypes
  <1>i. \A d \in Clients \ {c} : client'[d] = client[d] /\ creating'[d] = creating[d]
    BY InnerFacts
  <1>1. CASE Replaced(c)
    <2>1. CloseEnds(c)
      BY <1>1 DEF Replaced
    <2>2. QED
      BY <2>1, <1>i, CloseUnroutes DEF Routed
  <1>2. CASE AddRoutes(c)
    <2>1. creating'[c] = "routed" /\ v4' \in {c, v4, None} /\ v6' \in {c, v6, None}
      BY <1>2, <1>t DEF AddRoutes, CreateAt
    <2>2. \A d \in Clients : d # None
      BY DEF Clients, None
    <2>3. QED
      BY <2>1, <2>2, <1>i DEF Routed
  <1>3. CASE SkipRoutes(c) \/ NoPrimaryService(c) \/ OverrideDNS(c)
    <2>1. PICK t \in L(c)!Opened : client' = [client EXCEPT ![c] = t]
      BY <1>3 DEF SkipRoutes, NoPrimaryService, OverrideDNS, Created, Step
    <2>2. t.device = "new"
      BY <2>1 DEF L!Opened, L!WithDevice, L!To
    <2>3. client'[c].device # "none" /\ UNCHANGED <<v4, v6>>
      BY <2>1, <2>2, <1>t, <1>3 DEF SkipRoutes, NoPrimaryService, OverrideDNS, hostVars
    <2>4. QED
      BY <2>3, <1>i DEF Routed
  <1>4. CASE CreateStarts(c) \/ CreateGivesUp(c) \/ CacheService(c)
    <2>1. UNCHANGED <<client, v4, v6>>
          /\ (creating[c] \in {"routed", "cached"} => creating'[c] \in {"routed", "cached"})
      BY <1>4, <1>t DEF CreateStarts, CreateGivesUp, CacheService, CreateAt, hostVars
    <2>2. QED
      BY <2>1, <1>i DEF Routed
  <1>5. CASE \/ StoreDevice(c) \/ ReplaceDevice(c) \/ EngineEnds(c)
             \/ CloseChecksService(c) \/ CloseWritesScript(c) \/ RestoreDNS(c) \/ ClearService(c)
    <2>1. ~Replaced(c) => (client[c].device # "none" => client'[c].device # "none")
      BY DeviceStays
    <2>2. UNCHANGED <<creating, v4, v6>>
      BY <1>5 DEF StoreDevice, ReplaceDevice, EngineEnds, CloseChecksService, CloseWritesScript,
                  RestoreDNS, ClearService, hostVars, deviceVars
    <2>3. QED
      BY <2>1, <2>2, <1>1, <1>i DEF Routed
  <1>6. QED
    BY <1>1, <1>2, <1>3, <1>4, <1>5 DEF EngineStep, CloseStep

(* Routed, for any number of engines whose goroutines set up, replace and  *)
(* close their devices at once.                                            *)
THEOREM RoutesHaveDevice == DaemonSpec => []Routed
  <1>1. DaemonInit => Routed
    BY DEF DaemonInit, Clients, None, Routed
  <1>2. DaemonInv /\ Routed /\ [DaemonNext]_daemonVars => Routed'
    <2>1. SUFFICES ASSUME DaemonInv, Routed, [DaemonNext]_daemonVars PROVE Routed'
      OBVIOUS
    <2>2. CASE \E c \in Clients : EngineStep(c)
      BY <2>1, <2>2, InnerRouted
    <2>3. CASE HandleConnect \/ StopCancels
      <3>1. /\ UNCHANGED <<creating, v4, v6>>
            /\ \E c \in Clients : \E t \in Engines :
                 client' = [client EXCEPT ![c] = t] /\ t.device = client[c].device
        <4>1. CASE HandleConnect
          <5>1. made + 1 \in Clients /\ client[made + 1] \in Engines
            BY <2>1, <4>1, DaemonTypes DEF HandleConnect, Clients
          <5>2. PICK t \in L(made + 1)!Started : client' = [client EXCEPT ![made + 1] = t]
            BY <4>1 DEF HandleConnect, Step
          <5>3. t \in Engines /\ t.device = client[made + 1].device
            BY <5>1, <5>2, EngineStart DEF L!Started, L!To
          <5>4. QED
            BY <4>1, <5>1, <5>2, <5>3 DEF HandleConnect, hostVars, deviceVars
        <4>2. CASE StopCancels
          <5>1. global \in Clients /\ client[global] \in Engines
            BY <2>1, <4>2, DaemonTypes DEF StopCancels, Stops
          <5>2. PICK t \in L(global)!Cancelled : client' = [client EXCEPT ![global] = t]
            BY <4>2 DEF StopCancels, Step
          <5>3. t \in Engines /\ t.device = client[global].device
            BY <5>1, <5>2, EngineCancel DEF L!Cancelled, L!To, Engines
          <5>4. QED
            BY <4>2, <5>1, <5>2, <5>3 DEF StopCancels, hostVars, deviceVars
        <4>3. QED
          BY <2>3, <4>1, <4>2
      <3>2. \A d \in Clients : client'[d].device = client[d].device
        BY <2>1, <3>1, DaemonTypes
      <3>3. QED
        BY <2>1, <3>1, <3>2 DEF Routed
    <2>4. CASE StopFinishes
      <3>1. global \in Clients /\ client[global] \in Engines
        BY <2>1, <2>4, DaemonTypes DEF Stops, StopFinishes
      <3>2. PICK t \in L(global)!Released : client' = [client EXCEPT ![global] = t]
        BY <2>4 DEF StopFinishes, Step
      <3>3. client[global].device # "held" => t.device = client[global].device
        BY <3>1, <3>2 DEF L!Released, L!To, Engines
      <3>4. \A d \in Clients : client[d].device # "held" \/ d # global
              => client'[d].device = client[d].device
        BY <2>1, <3>1, <3>2, <3>3, DaemonTypes
      <3>5. CASE client[global].device = "held"
        <4>1. CloseEnds(global) /\ UNCHANGED creating
          BY <2>4, <3>5 DEF StopFinishes, CloseEnds
        <4>2. QED
          BY <2>1, <3>1, <3>4, <4>1, CloseUnroutes DEF Routed
      <3>6. CASE client[global].device # "held"
        <4>1. UNCHANGED <<creating, v4, v6>>
          BY <2>4, <3>6 DEF StopFinishes, hostVars, deviceVars
        <4>2. QED
          BY <2>1, <3>1, <3>4, <3>6, <4>1 DEF Routed
      <3>7. QED
        BY <3>5, <3>6
    <2>5. CASE Exit
      BY <2>5 DEF Exit, Routed, Clients, None
    <2>6. CASE UNCHANGED <<client, creating, v4, v6>>
      BY <2>1, <2>6 DEF Routed
    <2>7. QED
      BY <2>1, <2>2, <2>3, <2>4, <2>5, <2>6
      DEF DaemonNext, SignalExits, WatchdogExits, APICrash, Gone, SignalIdle, HandleDisconnect, Signal,
          StopVPN, StopClosesDevice, ParentDies, daemonVars, deviceVars, hostVars
  <1>3. QED
    BY <1>1, <1>2, DaemonInvAlways, PTL DEF DaemonSpec
=============================================================================
