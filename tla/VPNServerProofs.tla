--------------------------- MODULE VPNServerProofs --------------------------
(***************************************************************************)
(* Proofs about the address pool and about the control plane that stands   *)
(* on it, for every address width, subnet, client limit and host, every    *)
(* number of connections and every number of calls of Close.               *)
(*                                                                         *)
(* The pool's inductive invariant is its type invariant with what          *)
(* NewIPPool establishes about the capacity: the client range ends below   *)
(* the broadcast address.                                                  *)
(*                                                                         *)
(* The control plane's safety properties are inductive only together:      *)
(* exclusive leases keep the handlers from deleting each other's table     *)
(* entries, the table tells Close which address it takes back, and the     *)
(* pool's own invariant makes a release free exactly one address.          *)
(***************************************************************************)
EXTENDS VPNServer, FiniteSetTheorems, TLAPS

-----------------------------------------------------------------------------
(* The address pool *)

(* The client offsets 2 .. maxClient+1 leave out the broadcast address. *)
CapacityOK == LastOffset <= conf.size - 2

PoolInv == PoolTypeOK /\ CapacityOK

-----------------------------------------------------------------------------
(* The automatic limit is positive on every host: a failed detection never *)
(* yields a pool without clients (ippool.go:191-211).                      *)
LEMMA DetectPositive ==
  ASSUME NEW c \in Confs
  PROVE  detectMaxClients(c.cpus, c.memKB) \in Nat \ {0}
<1>1. c.cpus \in Nat \ {0} /\ c.memKB \in Nat \cup {Unreadable}
  BY ConfsAssumption
<1>2. detectRAMGB(c.memKB) \in Int
  BY <1>1, SMT DEF detectRAMGB, Unreadable
<1>3. QED
  BY <1>1, <1>2, SMT DEF detectMaxClients

(* NewIPPool settles on a capacity between one client and what the subnet  *)
(* has room for beside the server (ippool.go:54-69).                       *)
LEMMA CapacityRange ==
  ASSUME NEW c \in Confs, TotalUsable(c) >= 1
  PROVE  PoolCapacity(c) \in Nat \ {0} /\ PoolCapacity(c) <= c.size - 3
<1>1. c.size \in Nat /\ c.maxClients \in Int
  BY ConfsAssumption
<1>2. c.size >= 4
  <2>1. c.size >= 3
    BY <1>1 DEF TotalUsable
  <2>2. PICK k \in 1 .. c.size : c.size = 2 * k
    BY <2>1, <1>1, ConfsAssumption
  <2>3. QED
    BY <2>1, <2>2, <1>1
<1>3. QED
  BY <1>1, <1>2, DetectPositive DEF PoolCapacity, MaxAvail, TotalUsable

(* The fields of the pool's configuration that the other proofs use. *)
LEMMA ConfFields ==
  ASSUME PoolInv
  PROVE  /\ conf.base \in Nat /\ conf.size \in Nat /\ Word \in Nat
         /\ conf.base + conf.size <= Word
         /\ maxClient \in Nat \ {0} /\ nextHint \in 2 .. maxClient + 1
         /\ maxClient + 1 <= conf.size - 2
BY ConfsAssumption DEF PoolInv, PoolTypeOK, CapacityOK, LastOffset

(* Every candidate of the scan is a client address, and the hint that      *)
(* follows it is a client offset (ippool.go:98-109).                       *)
LEMMA CandidateRange ==
  ASSUME PoolInv, NEW i \in ScanSteps
  PROVE  /\ Wrap(nextHint + i) \in 2 .. LastOffset
         /\ Candidate(i) = conf.base + Wrap(nextHint + i)
         /\ Candidate(i) \in ClientAddrs
         /\ HintAfter(Wrap(nextHint + i)) \in 2 .. LastOffset
<1>1. Wrap(nextHint + i) \in 2 .. LastOffset
  BY ConfFields DEF Wrap, ScanSteps, LastOffset
<1>2. Candidate(i) = conf.base + Wrap(nextHint + i)
  BY <1>1, ConfFields DEF Candidate, Add32, LastOffset
<1>3. HintAfter(Wrap(nextHint + i)) \in 2 .. LastOffset
  BY <1>1, ConfFields DEF HintAfter, LastOffset
<1>4. QED
  BY <1>1, <1>2, <1>3 DEF ClientAddrs

(* A client address lies inside the subnet, beyond the server's address    *)
(* and below the broadcast address.                                        *)
LEMMA ClientAddrRange ==
  ASSUME PoolInv
  PROVE  ClientAddrs = conf.base + 2 .. conf.base + maxClient + 1
<1>1. ClientAddrs \subseteq conf.base + 2 .. conf.base + maxClient + 1
  BY ConfFields DEF ClientAddrs, LastOffset
<1>2. ASSUME NEW a \in conf.base + 2 .. conf.base + maxClient + 1
      PROVE  a \in ClientAddrs
  <2>1. a - conf.base \in 2 .. LastOffset /\ a = conf.base + (a - conf.base)
    BY ConfFields DEF LastOffset
  <2>2. QED
    BY <2>1 DEF ClientAddrs
<1>3. QED
  BY <1>1, <1>2

-----------------------------------------------------------------------------
(* A new pool satisfies the invariant, whatever the subnet and the limit. *)
LEMMA PoolInitInv ==
  ASSUME PoolInit
  PROVE  PoolInv
<1>1. PICK c \in Confs : NewIPPool(c)
  BY DEF PoolInit
<1>2. maxClient \in Nat \ {0} /\ maxClient <= c.size - 3 /\ c.size \in Nat
  BY <1>1, CapacityRange, ConfsAssumption DEF NewIPPool
<1>3. QED
  BY <1>1, <1>2 DEF NewIPPool, PoolInv, PoolTypeOK, CapacityOK, LastOffset, ClientAddrs

(* Allocate hands out a client address and keeps the pool well formed. *)
LEMMA AllocateInv ==
  ASSUME PoolInv, NEW a, Allocate(a)
  PROVE  PoolInv' /\ a \in ClientAddrs /\ a \notin allocated /\ allocated' = allocated \cup {a}
<1>1. PICK i \in ScanSteps :
         /\ a = Candidate(i)
         /\ a \notin allocated
         /\ allocated' = allocated \cup {a}
         /\ nextHint' = HintAfter(Wrap(nextHint + i))
  BY DEF Allocate
<1>2. a \in ClientAddrs /\ nextHint' \in 2 .. LastOffset
  BY <1>1, CandidateRange
<1>3. UNCHANGED <<conf, maxClient>>
  BY DEF Allocate
<1>4. QED
  BY <1>1, <1>2, <1>3 DEF PoolInv, PoolTypeOK, CapacityOK, LastOffset, ClientAddrs

(* Release takes exactly the given address out of the pool, or nothing. *)
LEMMA ReleaseInv ==
  ASSUME PoolInv, NEW num \in Int, Release(num)
  PROVE  PoolInv' /\ allocated' \subseteq allocated /\ allocated \ {num} \subseteq allocated'
<1>1. CASE CanRelease(num)
  <2>1. /\ allocated' = allocated \ {num}
        /\ nextHint' = Sub32(num, conf.base)
        /\ UNCHANGED <<conf, maxClient>>
    BY <1>1 DEF Release
  <2>2. num \in ClientAddrs
    BY <1>1 DEF CanRelease, PoolInv, PoolTypeOK
  <2>3. nextHint' \in 2 .. LastOffset
    BY <2>1, <2>2, ClientAddrRange, ConfFields, SMTT(30) DEF Sub32, LastOffset
  <2>4. QED
    BY <2>1, <2>3 DEF PoolInv, PoolTypeOK, CapacityOK, LastOffset, ClientAddrs
<1>2. CASE ~CanRelease(num)
  BY <1>2 DEF Release, poolVars, PoolInv, PoolTypeOK, CapacityOK, LastOffset, ClientAddrs
<1>3. QED
  BY <1>1, <1>2

(* A client address is released when it is taken. *)
LEMMA ReleaseFrees ==
  ASSUME PoolInv, NEW num \in ClientAddrs, Release(num)
  PROVE  allocated' = allocated \ {num}
<1>1. num \in Int /\ num # NotIPv4 /\ InClientRange(num)
  BY ClientAddrRange, ConfFields, SMTT(30) DEF NotIPv4, InClientRange, Sub32, LastOffset
<1>2. QED
  BY <1>1 DEF Release, CanRelease, poolVars

(* Allocate and Release preserve the invariant. *)
LEMMA PoolStepInv ==
  ASSUME PoolInv, [PoolNext]_poolVars
  PROVE  PoolInv'
<1>1. CASE \E a \in Addr : Allocate(a)
  BY <1>1, AllocateInv
<1>2. CASE \E num \in Addr \cup {NotIPv4} : Release(num)
  <2>1. Addr \cup {NotIPv4} \subseteq Int
    BY ConfsAssumption DEF Addr, NotIPv4
  <2>2. QED
    BY <1>2, <2>1, ReleaseInv
<1>3. CASE UNCHANGED poolVars
  BY <1>3 DEF poolVars, PoolInv, PoolTypeOK, CapacityOK, LastOffset, ClientAddrs
<1>4. QED
  BY <1>1, <1>2, <1>3 DEF PoolNext, AllocateExhausted

(* The invariant holds in every state of the pool. *)
LEMMA PoolInvAlways == PoolSpec => []PoolInv
<1>1. PoolInit => PoolInv
  BY PoolInitInv
<1>2. PoolInv /\ [PoolNext]_poolVars => PoolInv'
  BY PoolStepInv
<1>3. QED
  BY <1>1, <1>2, PTL DEF PoolSpec

-----------------------------------------------------------------------------
(* The pool's type invariant, for every configuration NewIPPool accepts    *)
(* (ippool.go:24-33).                                                      *)
THEOREM PoolTypeCorrect == PoolSpec => []PoolTypeOK
<1>1. PoolInv => PoolTypeOK
  BY DEF PoolInv
<1>2. QED
  BY <1>1, PoolInvAlways, PTL

(* No subnet, client limit or host makes the pool hand out the network,    *)
(* server or broadcast address (ippool.go:54-69, 95-110).                  *)
THEOREM ReservedSafe == PoolSpec => []ReservedNeverLeased
<1>1. PoolInv => ReservedNeverLeased
  <2>1. SUFFICES ASSUME PoolInv, NEW a \in allocated
                 PROVE  /\ IsManaged(a)
                        /\ a \notin {conf.base, serverIP, conf.base + conf.size - 1}
    BY DEF ReservedNeverLeased
  <2>2. a \in conf.base + 2 .. conf.base + maxClient + 1
    BY <2>1, ClientAddrRange DEF PoolInv, PoolTypeOK
  <2>3. serverIP = conf.base + 1
    BY <2>1, ConfFields DEF serverIP, Add32
  <2>4. QED
    BY <2>1, <2>2, <2>3, ConfFields DEF IsManaged
<1>2. QED
  BY <1>1, PoolInvAlways, PTL

(* There are as many client addresses as the limit says. *)
LEMMA ClientAddrCount ==
  ASSUME PoolInv
  PROVE  IsFiniteSet(ClientAddrs) /\ Cardinality(ClientAddrs) = maxClient
<1>1. conf.base + 2 \in Int /\ conf.base + maxClient + 1 \in Int
  BY ConfFields
<1>2. /\ IsFiniteSet(conf.base + 2 .. conf.base + maxClient + 1)
      /\ Cardinality(conf.base + 2 .. conf.base + maxClient + 1) =
           IF conf.base + 2 > conf.base + maxClient + 1 THEN 0
           ELSE (conf.base + maxClient + 1) - (conf.base + 2) + 1
  BY <1>1, FS_Interval
<1>3. Cardinality(conf.base + 2 .. conf.base + maxClient + 1) = maxClient
  BY <1>2, ConfFields, SMTT(30)
<1>4. QED
  BY <1>2, <1>3, ClientAddrRange

(* The taken addresses can be counted. *)
LEMMA AllocatedCountable ==
  ASSUME PoolInv
  PROVE  /\ IsFiniteSet(allocated) /\ Cardinality(allocated) \in Nat
         /\ Cardinality(allocated) <= maxClient
         /\ Cardinality(allocated) = maxClient => allocated = ClientAddrs
<1>1. allocated \in SUBSET ClientAddrs
  BY DEF PoolInv, PoolTypeOK
<1>2. IsFiniteSet(allocated) /\ Cardinality(allocated) <= maxClient
      /\ (Cardinality(ClientAddrs) = Cardinality(allocated) => ClientAddrs = allocated)
  BY <1>1, ClientAddrCount, FS_Subset
<1>3. Cardinality(allocated) \in Nat
  BY <1>2, FS_CardinalityType
<1>4. QED
  BY <1>2, <1>3, ClientAddrCount

(* A full count leaves no address free, a full scan that finds nothing at  *)
(* most the first one (ippool.go:91-114).                                  *)
LEMMA ScanMissesFirst ==
  ASSUME PoolInv, Exhausted
  PROVE  FreeAddrs \subseteq {conf.base + 2}
<1>1. SUFFICES ASSUME NEW a \in FreeAddrs
               PROVE  a = conf.base + 2
  OBVIOUS
<1>2. a \in conf.base + 2 .. conf.base + maxClient + 1 /\ a \notin allocated
  BY ClientAddrRange DEF FreeAddrs
<1>3. CASE Cardinality(allocated) >= maxClient
  <2>1. Cardinality(allocated) = maxClient
    BY <1>3, AllocatedCountable, ConfFields
  <2>2. QED
    BY <2>1, AllocatedCountable DEF FreeAddrs
<1>4. CASE \A i \in ScanSteps : Candidate(i) \in allocated
  <2>1. SUFFICES ASSUME a # conf.base + 2
                 PROVE  \E i \in ScanSteps : a = Candidate(i)
    BY <1>2, <1>4
  <2> DEFINE o == a - conf.base
             i == IF o >= nextHint THEN o - nextHint ELSE o + maxClient - 1 - nextHint
  <2>2. o \in 3 .. maxClient + 1
    BY <2>1, <1>2, ConfFields
  <2>3. i \in ScanSteps
    BY <2>2, ConfFields DEF ScanSteps
  <2>4. Wrap(nextHint + i) = o
    BY <2>2, ConfFields DEF Wrap, LastOffset
  <2>5. Candidate(i) = conf.base + o
    BY <2>3, <2>4, CandidateRange
  <2>6. a = Candidate(i)
    BY <2>5, <1>2, ConfFields
  <2>7. QED
    BY <2>3, <2>6
<1>5. QED
  BY <1>3, <1>4 DEF Exhausted

(* The scan covers every client offset but the first: a full scan that     *)
(* finds nothing, or a full count, leaves at most that address free        *)
(* (ippool.go:91-114).                                                     *)
THEOREM OnlyFirstSlotMissed == PoolSpec => []MissesOnlyFirstSlot
<1>1. PoolInv => MissesOnlyFirstSlot
  BY ScanMissesFirst DEF MissesOnlyFirstSlot
<1>2. QED
  BY <1>1, PoolInvAlways, PTL

(* A pool that turns a client away has at most one address left.           *)
LEMMA FullButOne ==
  ASSUME PoolInv, Exhausted
  PROVE  maxClient <= Cardinality(allocated) + 1
<1>1. ClientAddrs \in SUBSET (allocated \cup {conf.base + 2})
  BY ScanMissesFirst DEF FreeAddrs
<1>2. /\ IsFiniteSet(allocated \cup {conf.base + 2})
      /\ Cardinality(allocated \cup {conf.base + 2}) <= Cardinality(allocated) + 1
  BY AllocatedCountable, FS_AddElement
<1>3. Cardinality(ClientAddrs) <= Cardinality(allocated \cup {conf.base + 2})
  BY <1>1, <1>2, FS_Subset
<1>4. Cardinality(ClientAddrs) = maxClient
  BY ClientAddrCount
<1>5. Cardinality(allocated \cup {conf.base + 2}) \in Int
  BY <1>2, FS_CardinalityType
<1>6. QED
  BY <1>2, <1>3, <1>4, <1>5, ConfFields, AllocatedCountable

-----------------------------------------------------------------------------
(* The control plane *)

(* Close runs only after it has cancelled the server's context. *)
CloseCancelled == closePc # "idle" => ctxDone

ServerInv ==
  /\ ServerTypeOK
  /\ CapacityOK
  /\ CloseCancelled
  /\ LeaseExclusive
  /\ NoLeak
  /\ TableExact

-----------------------------------------------------------------------------
(* Client addresses are uint32 values and are not the missing address. *)
LEMMA ClientAddrType ==
  ASSUME PoolInv
  PROVE  ClientAddrs \subseteq Addr /\ NoIP \notin ClientAddrs /\ NoIP \notin Addr
<1>1. ClientAddrs = conf.base + 2 .. conf.base + maxClient + 1
  BY ClientAddrRange
<1>2. conf.base + maxClient + 1 < Word /\ conf.base \in Nat /\ Word \in Nat /\ maxClient \in Nat
  BY ConfFields
<1>3. QED
  BY <1>1, <1>2 DEF Addr, NoIP

(* What the server invariant says of the pool. *)
LEMMA PoolPart ==
  ASSUME ServerInv
  PROVE  PoolInv
BY DEF ServerInv, ServerTypeOK, PoolInv

(* The client range never changes. *)
LEMMA RangeFixed ==
  ASSUME UNCHANGED <<conf, maxClient>>
  PROVE  ClientAddrs' = ClientAddrs
BY DEF ClientAddrs, LastOffset

(* Steps of the QUIC layer, the accept loop and Close that leave the pool, *)
(* the handlers and the table alone.                                       *)
LEMMA FrameInv ==
  ASSUME ServerInv, UNCHANGED <<poolVars, pc, ip, sessions>>,
         accepting' \in BOOLEAN, live' \subseteq Conn, cancelled' \subseteq Conn,
         ctxDone' \in BOOLEAN, ctxDone => ctxDone',
         closePc' \in ClosePcs, closePc' # "idle" => ctxDone',
         closes' \in 0 .. MaxCloses, open' \subseteq Resources
  PROVE  ServerInv'
<1>1. UNCHANGED <<conf, maxClient, allocated, nextHint>> /\ ClientAddrs' = ClientAddrs
  BY RangeFixed DEF poolVars
<1>2. ServerTypeOK' /\ CapacityOK' /\ CloseCancelled'
  BY <1>1 DEF ServerInv, ServerTypeOK, PoolTypeOK, CapacityOK, LastOffset, CloseCancelled, Holder
<1>3. LeaseExclusive' /\ NoLeak' /\ TableExact'
  BY <1>1 DEF ServerInv, ServerTypeOK, LeaseExclusive, NoLeak, TableExact, Holder
<1>4. QED
  BY <1>2, <1>3 DEF ServerInv

(* A handler moves without taking or giving back an address and without    *)
(* entering or leaving the places where its session is in the table.       *)
LEMMA MoveInv ==
  ASSUME ServerInv, NEW h \in Conn, NEW to \in HandlerPcs,
         pc' = [pc EXCEPT ![h] = to],
         pc[h] \in Holding <=> to \in Holding,
         pc[h] \in {"wait", "unregister"} <=> to \in {"wait", "unregister"},
         live' \subseteq Conn,
         UNCHANGED <<poolVars, accepting, ip, cancelled, sessions, closeVars>>
  PROVE  ServerInv'
<1>1. UNCHANGED <<conf, maxClient, allocated, nextHint>> /\ ClientAddrs' = ClientAddrs
  BY RangeFixed DEF poolVars
<1>2. UNCHANGED <<ctxDone, closePc, closes, open>>
  BY DEF closeVars
<1>3. pc \in [Conn -> HandlerPcs]
  BY DEF ServerInv, ServerTypeOK
<1>4. \A g \in Conn : Holder(g)' <=> Holder(g)
  BY <1>3 DEF Holder
<1>5. \A g \in Conn : pc'[g] \in {"wait", "unregister"} <=> pc[g] \in {"wait", "unregister"}
  BY <1>3
<1>6. ServerTypeOK' /\ CapacityOK' /\ CloseCancelled'
  BY <1>1, <1>2, <1>3, <1>4
  DEF ServerInv, ServerTypeOK, PoolTypeOK, CapacityOK, LastOffset, CloseCancelled
<1>7. LeaseExclusive' /\ NoLeak'
  BY <1>1, <1>2, <1>4 DEF ServerInv, LeaseExclusive, NoLeak
<1>8. TableExact'
  BY <1>2, <1>5 DEF ServerInv, ServerTypeOK, TableExact
<1>9. QED
  BY <1>6, <1>7, <1>8 DEF ServerInv

(* A handler gives its address back, after a failed response or at its     *)
(* end.                                                                    *)
LEMMA GiveBackInv ==
  ASSUME ServerInv, NEW h \in Conn, pc[h] \in {"respond", "release"},
         Release(ip[h]),
         pc' = [pc EXCEPT ![h] = "exit"],
         ip' \in [Conn -> Addr \cup {NoIP}], \A g \in Conn \ {h} : ip'[g] = ip[g],
         UNCHANGED <<accepting, live, cancelled, sessions, closeVars>>
  PROVE  ServerInv'
<1>1. PoolInv /\ Holder(h) /\ ip[h] \in ClientAddrs
  BY PoolPart DEF ServerInv, ServerTypeOK, Holder, Holding
<1>2. PoolInv' /\ allocated' = allocated \ {ip[h]}
  BY <1>1, ReleaseFrees, ReleaseInv, ClientAddrRange, ConfFields, SMTT(30)
<1>3. UNCHANGED <<conf, maxClient, ctxDone, closePc, closes, open>>
  BY DEF Release, poolVars, closeVars
<1>4. ClientAddrs' = ClientAddrs
  BY <1>3, RangeFixed
<1>5. pc \in [Conn -> HandlerPcs] /\ sessions \in [Addr -> Conn \cup {NoConn}]
  BY DEF ServerInv, ServerTypeOK
<1>6. ~Holder(h)' /\ \A g \in Conn \ {h} : (Holder(g)' <=> Holder(g)) /\ pc'[g] = pc[g]
  BY <1>5 DEF Holder, Holding
<1>7. ServerTypeOK' /\ CapacityOK' /\ CloseCancelled'
  BY <1>2, <1>3, <1>4, <1>5, <1>6
  DEF ServerInv, ServerTypeOK, PoolInv, CloseCancelled, HandlerPcs
<1>8. LeaseExclusive'
  BY <1>1, <1>2, <1>3, <1>6 DEF ServerInv, LeaseExclusive
<1>9. NoLeak'
  BY <1>2, <1>6 DEF ServerInv, NoLeak
<1>10. \A g \in Conn : pc[g] \in {"wait", "unregister"} => g # h
  OBVIOUS
<1>11. \A g \in Conn : pc'[g] \in {"wait", "unregister"} => g # h
  BY <1>5
<1>12. TableExact'
  <2>1. ASSUME NEW a \in Addr, sessions'[a] # NoConn
        PROVE  pc'[sessions'[a]] \in {"wait", "unregister"} /\ ip'[sessions'[a]] = a
    BY <2>1, <1>5, <1>6, <1>10 DEF ServerInv, TableExact
  <2>2. ASSUME ~ctxDone', NEW g \in Conn, pc'[g] \in {"wait", "unregister"}
        PROVE  sessions'[ip'[g]] = g
    BY <2>2, <1>3, <1>6, <1>11 DEF ServerInv, TableExact
  <2>3. QED
    BY <2>1, <2>2 DEF TableExact
<1>13. QED
  BY <1>7, <1>8, <1>9, <1>12 DEF ServerInv

-----------------------------------------------------------------------------
(* The steps that move an address or a session, one lemma each. *)

(* Handing out an address preserves the invariant: it was free. *)
LEMMA AllocateIPInv ==
  ASSUME ServerInv, NEW h \in Conn, AllocateIP(h)
  PROVE  ServerInv'
<1>1. PICK a \in Addr : Allocate(a) /\ ip' = [ip EXCEPT ![h] = a]
  BY DEF AllocateIP
<1>2. PoolInv' /\ a \in ClientAddrs /\ a \notin allocated /\ allocated' = allocated \cup {a}
  BY <1>1, AllocateInv, PoolPart
<1>3. UNCHANGED <<conf, maxClient, accepting, live, cancelled, sessions,
                  ctxDone, closePc, closes, open>>
  BY <1>1 DEF Allocate, AllocateIP, closeVars
<1>4. ClientAddrs' = ClientAddrs
  BY <1>3, RangeFixed
<1>5. /\ pc \in [Conn -> HandlerPcs] /\ ip \in [Conn -> Addr \cup {NoIP}]
      /\ sessions \in [Addr -> Conn \cup {NoConn}]
      /\ pc[h] = "alloc" /\ pc' = [pc EXCEPT ![h] = "respond"]
  BY DEF ServerInv, ServerTypeOK, AllocateIP
<1>6. /\ ~Holder(h) /\ Holder(h)' /\ ip'[h] = a
      /\ \A g \in Conn \ {h} : (Holder(g)' <=> Holder(g)) /\ pc'[g] = pc[g] /\ ip'[g] = ip[g]
  BY <1>1, <1>5 DEF Holder, Holding
<1>7. ServerTypeOK' /\ CapacityOK' /\ CloseCancelled'
  <2>1. pc' \in [Conn -> HandlerPcs] /\ ip' \in [Conn -> Addr \cup {NoIP}]
    BY <1>1, <1>5 DEF HandlerPcs
  <2>2. \A g \in Conn : Holder(g)' => ip'[g] \in ClientAddrs'
    BY <1>2, <1>4, <1>6 DEF ServerInv, ServerTypeOK
  <2>3. QED
    BY <1>2, <1>3, <2>1, <2>2 DEF ServerInv, ServerTypeOK, PoolInv, CloseCancelled
<1>8. LeaseExclusive'
  <2>1. SUFFICES ASSUME ~ctxDone, NEW g \in Conn, Holder(g)'
                 PROVE  /\ ip'[g] \in allocated'
                        /\ \A k \in Conn : Holder(k)' /\ ip'[k] = ip'[g] => k = g
    BY <1>3 DEF LeaseExclusive
  <2>2. \A k \in Conn \ {h} : Holder(k)' => ip'[k] \in allocated /\ ip'[k] # a
    BY <2>1, <1>2, <1>6 DEF ServerInv, LeaseExclusive
  <2>3. CASE g = h
    BY <2>3, <2>2, <1>2, <1>6
  <2>4. CASE g # h
    BY <2>1, <2>4, <2>2, <1>2, <1>6 DEF ServerInv, LeaseExclusive
  <2>5. QED
    BY <2>3, <2>4
<1>9. NoLeak'
  BY <1>2, <1>6 DEF ServerInv, NoLeak
<1>10. TableExact'
  <2>1. ASSUME NEW b \in Addr, sessions'[b] # NoConn
        PROVE  pc'[sessions'[b]] \in {"wait", "unregister"} /\ ip'[sessions'[b]] = b
    BY <2>1, <1>3, <1>5, <1>6 DEF ServerInv, TableExact
  <2>2. ASSUME ~ctxDone', NEW g \in Conn, pc'[g] \in {"wait", "unregister"}
        PROVE  sessions'[ip'[g]] = g
    <3>1. g # h
      BY <2>2, <1>5
    <3>2. QED
      BY <2>2, <3>1, <1>3, <1>6 DEF ServerInv, TableExact
  <2>3. QED
    BY <2>1, <2>2 DEF TableExact
<1>11. QED
  BY <1>7, <1>8, <1>9, <1>10 DEF ServerInv

(* Storing a session preserves the invariant: nobody else has its key. *)
LEMMA RegisterInv ==
  ASSUME ServerInv, NEW h \in Conn, Register(h)
  PROVE  ServerInv'
<1>1. UNCHANGED <<conf, maxClient, allocated, nextHint, accepting, ip, live, cancelled,
                  ctxDone, closePc, closes, open>> /\ ClientAddrs' = ClientAddrs
  BY RangeFixed DEF Register, poolVars, closeVars
<1>2. /\ pc \in [Conn -> HandlerPcs] /\ sessions \in [Addr -> Conn \cup {NoConn}]
      /\ pc[h] = "register" /\ pc' = [pc EXCEPT ![h] = "wait"]
      /\ sessions' = [sessions EXCEPT ![ip[h]] = h]
  BY DEF ServerInv, ServerTypeOK, Register
<1>3. Holder(h) /\ ip[h] \in ClientAddrs /\ ip[h] \in Addr
  BY <1>2, PoolPart, ClientAddrType DEF ServerInv, ServerTypeOK, Holder, Holding
<1>4. \A g \in Conn : Holder(g)' <=> Holder(g)
  BY <1>2 DEF Holder, Holding
<1>5. ServerTypeOK' /\ CapacityOK' /\ CloseCancelled'
  <2>1. pc' \in [Conn -> HandlerPcs] /\ sessions' \in [Addr -> Conn \cup {NoConn}]
    BY <1>2 DEF HandlerPcs
  <2>2. QED
    BY <1>1, <1>4, <2>1
    DEF ServerInv, ServerTypeOK, PoolTypeOK, CapacityOK, LastOffset, CloseCancelled
<1>6. LeaseExclusive' /\ NoLeak'
  BY <1>1, <1>4 DEF ServerInv, LeaseExclusive, NoLeak
<1>7. TableExact'
  <2>1. ASSUME NEW a \in Addr, sessions'[a] # NoConn
        PROVE  pc'[sessions'[a]] \in {"wait", "unregister"} /\ ip'[sessions'[a]] = a
    <3>1. CASE a = ip[h]
      BY <3>1, <1>1, <1>2, <1>3
    <3>2. CASE a # ip[h]
      <4>1. sessions'[a] = sessions[a] /\ sessions[a] \in Conn
        BY <2>1, <3>2, <1>2
      <4>2. pc[sessions[a]] \in {"wait", "unregister"} /\ ip[sessions[a]] = a
        BY <2>1, <4>1 DEF ServerInv, TableExact
      <4>3. QED
        BY <4>1, <4>2, <1>1, <1>2
    <3>3. QED
      BY <3>1, <3>2
  <2>2. ASSUME ~ctxDone', NEW g \in Conn, pc'[g] \in {"wait", "unregister"}
        PROVE  sessions'[ip'[g]] = g
    <3>1. CASE g = h
      BY <3>1, <1>1, <1>2, <1>3
    <3>2. CASE g # h
      <4>1. pc[g] \in {"wait", "unregister"} /\ Holder(g)
        BY <2>2, <3>2, <1>2 DEF Holder, Holding
      <4>2. ip[g] # ip[h]
        BY <2>2, <3>2, <4>1, <1>1, <1>3 DEF ServerInv, LeaseExclusive
      <4>3. sessions[ip[g]] = g
        BY <2>2, <4>1, <1>1 DEF ServerInv, TableExact
      <4>4. QED
        BY <4>2, <4>3, <1>1, <1>2
    <3>3. QED
      BY <3>1, <3>2
  <2>3. QED
    BY <2>1, <2>2 DEF TableExact
<1>8. QED
  BY <1>5, <1>6, <1>7 DEF ServerInv

(* Deleting a session preserves the invariant: it is the handler's own. *)
LEMMA UnregisterInv ==
  ASSUME ServerInv, NEW h \in Conn, Unregister(h)
  PROVE  ServerInv'
<1>1. UNCHANGED <<conf, maxClient, allocated, nextHint, accepting, ip, live, cancelled,
                  ctxDone, closePc, closes, open>> /\ ClientAddrs' = ClientAddrs
  BY RangeFixed DEF Unregister, poolVars, closeVars
<1>2. /\ pc \in [Conn -> HandlerPcs] /\ sessions \in [Addr -> Conn \cup {NoConn}]
      /\ pc[h] = "unregister" /\ pc' = [pc EXCEPT ![h] = "release"]
      /\ sessions' = [sessions EXCEPT ![ip[h]] = NoConn]
  BY DEF ServerInv, ServerTypeOK, Unregister
<1>3. Holder(h) /\ ip[h] \in Addr
  BY <1>2, PoolPart, ClientAddrType DEF ServerInv, ServerTypeOK, Holder, Holding
<1>4. \A g \in Conn : Holder(g)' <=> Holder(g)
  BY <1>2 DEF Holder, Holding
<1>5. ServerTypeOK' /\ CapacityOK' /\ CloseCancelled'
  <2>1. pc' \in [Conn -> HandlerPcs] /\ sessions' \in [Addr -> Conn \cup {NoConn}]
    BY <1>2 DEF HandlerPcs
  <2>2. QED
    BY <1>1, <1>4, <2>1
    DEF ServerInv, ServerTypeOK, PoolTypeOK, CapacityOK, LastOffset, CloseCancelled
<1>6. LeaseExclusive' /\ NoLeak'
  BY <1>1, <1>4 DEF ServerInv, LeaseExclusive, NoLeak
<1>7. TableExact'
  <2>1. ASSUME NEW a \in Addr, sessions'[a] # NoConn
        PROVE  pc'[sessions'[a]] \in {"wait", "unregister"} /\ ip'[sessions'[a]] = a
    <3>1. a # ip[h] /\ sessions'[a] = sessions[a] /\ sessions[a] \in Conn
      BY <2>1, <1>2
    <3>2. pc[sessions[a]] \in {"wait", "unregister"} /\ ip[sessions[a]] = a
      BY <2>1, <3>1 DEF ServerInv, TableExact
    <3>3. sessions[a] # h
      BY <3>1, <3>2
    <3>4. QED
      BY <3>1, <3>2, <3>3, <1>1, <1>2
  <2>2. ASSUME ~ctxDone', NEW g \in Conn, pc'[g] \in {"wait", "unregister"}
        PROVE  sessions'[ip'[g]] = g
    <3>1. g # h /\ pc[g] \in {"wait", "unregister"} /\ Holder(g)
      BY <2>2, <1>2 DEF Holder, Holding
    <3>2. ip[g] # ip[h]
      BY <2>2, <3>1, <1>1, <1>3 DEF ServerInv, LeaseExclusive
    <3>3. sessions[ip[g]] = g
      BY <2>2, <3>1, <1>1 DEF ServerInv, TableExact
    <3>4. QED
      BY <3>2, <3>3, <1>1, <1>2
  <2>3. QED
    BY <2>1, <2>2 DEF TableExact
<1>8. QED
  BY <1>5, <1>6, <1>7 DEF ServerInv

(* Close ends a session whose handler may already be on its way out, or    *)
(* about to: the handler keeps the address it is about to release again.   *)
LEMMA CloseSessionInv ==
  ASSUME ServerInv, NEW a \in Addr, CloseSession(a)
  PROVE  ServerInv'
<1> DEFINE h == sessions[a]
<1>1. /\ pc \in [Conn -> HandlerPcs] /\ sessions \in [Addr -> Conn \cup {NoConn}]
      /\ h \in Conn /\ ip[h] = a /\ pc[h] \in {"wait", "unregister"} /\ ctxDone
  BY DEF ServerInv, ServerTypeOK, CloseSession, TableExact, CloseCancelled
<1>2. UNCHANGED <<conf, maxClient, accepting, pc, ip, ctxDone, closePc, closes, open>>
  BY DEF CloseSession, Release, poolVars, closeVars
<1>3. PoolInv' /\ allocated' \subseteq allocated
  <2>1. PoolInv /\ ip[h] \in Int /\ Release(ip[h])
    BY <1>1, PoolPart, ConfsAssumption DEF Addr, CloseSession
  <2>2. QED
    BY <2>1, ReleaseInv
<1>4. ClientAddrs' = ClientAddrs
  BY <1>2, RangeFixed
<1>5. sessions' = [sessions EXCEPT ![a] = NoConn]
      /\ live' \subseteq Conn /\ cancelled' \subseteq Conn
  BY <1>1 DEF CloseSession, ServerInv, ServerTypeOK
<1>6. ServerTypeOK' /\ CapacityOK' /\ CloseCancelled'
  <2>1. sessions' \in [Addr -> Conn \cup {NoConn}]
    BY <1>1, <1>5
  <2>2. QED
    BY <1>2, <1>3, <1>4, <1>5, <2>1 DEF ServerInv, ServerTypeOK, PoolInv, CloseCancelled, Holder
<1>7. LeaseExclusive' /\ NoLeak'
  BY <1>1, <1>2, <1>3 DEF ServerInv, LeaseExclusive, NoLeak, Holder
<1>8. TableExact'
  BY <1>1, <1>2, <1>5 DEF ServerInv, TableExact
<1>9. QED
  BY <1>6, <1>7, <1>8 DEF ServerInv

-----------------------------------------------------------------------------
(* The server starts with the invariant. *)
LEMMA ServerInitInv ==
  ASSUME ServerInit
  PROVE  ServerInv
<1>1. PoolInv /\ allocated = {}
  BY PoolInitInv DEF ServerInit, PoolInit, NewIPPool
<1>2. \A h \in Conn : ~Holder(h)
  BY DEF ServerInit, Holder, Holding
<1>3. ServerTypeOK
  <2>1. accepting \in BOOLEAN /\ ctxDone \in BOOLEAN
    BY DEF ServerInit
  <2>2. /\ pc \in [Conn -> HandlerPcs] /\ ip \in [Conn -> Addr \cup {NoIP}]
        /\ sessions \in [Addr -> Conn \cup {NoConn}]
    BY DEF ServerInit, HandlerPcs
  <2>3. /\ live \subseteq Conn /\ cancelled \subseteq Conn /\ open \subseteq Resources
        /\ closePc \in ClosePcs /\ closes \in 0 .. MaxCloses
    BY ServerAssumption DEF ServerInit, ClosePcs
  <2>4. QED
    BY <1>1, <1>2, <2>1, <2>2, <2>3 DEF ServerTypeOK, PoolInv
<1>4. CapacityOK /\ CloseCancelled /\ LeaseExclusive /\ NoLeak /\ TableExact
  BY <1>1, <1>2
  DEF ServerInit, PoolInv, CloseCancelled, LeaseExclusive, NoLeak, TableExact
<1>5. QED
  BY <1>3, <1>4 DEF ServerInv

(* One step of a handler, by its place. *)
LEMMA HandlerStepInv ==
  ASSUME ServerInv, NEW h \in Conn, Accept(h) \/ HandlerStep(h) \/ PeerStep(h)
  PROVE  ServerInv'
<1>t. pc \in [Conn -> HandlerPcs] /\ ip \in [Conn -> Addr \cup {NoIP}] /\ live \subseteq Conn
  BY DEF ServerInv, ServerTypeOK
<1>m. ASSUME NEW from, NEW to \in HandlerPcs, Move(h, from, to),
             from \in Holding <=> to \in Holding,
             from \in {"wait", "unregister"} <=> to \in {"wait", "unregister"}
      PROVE  ServerInv'
  BY <1>m, <1>t, MoveInv DEF Move
<1>1. CASE Accept(h)
  BY <1>1, <1>t, MoveInv DEF Accept, HandlerPcs, Holding
<1>2. CASE StreamOpened(h) \/ StreamFailed(h) \/ RequestRead(h) \/ RequestInvalid(h)
           \/ RequestLost(h) \/ AuthOk(h) \/ AuthFailed(h) \/ NoIPsAvailable(h)
           \/ ResponseSent(h) \/ Wake(h)
  BY <1>2, <1>m DEF StreamOpened, StreamFailed, RequestRead, RequestInvalid, RequestLost,
                    AuthOk, AuthFailed, NoIPsAvailable, ResponseSent, Wake,
                    HandlerPcs, Holding
<1>3. CASE AllocateIP(h)
  BY <1>3, AllocateIPInv
<1>4. CASE ResponseFailed(h)
  BY <1>4, <1>t, GiveBackInv DEF ResponseFailed
<1>5. CASE ReleaseIP(h)
  BY <1>5, <1>t, GiveBackInv DEF ReleaseIP
<1>6. CASE Register(h)
  BY <1>6, RegisterInv
<1>7. CASE Unregister(h)
  BY <1>7, UnregisterInv
<1>8. CASE Exit(h)
  BY <1>8, <1>t, MoveInv DEF Exit, HandlerPcs, Holding
<1>9. CASE PeerGone(h)
  BY <1>9, FrameInv DEF PeerGone, closeVars, ServerInv, ServerTypeOK, CloseCancelled
<1>10. QED
  BY <1>1, <1>2, <1>3, <1>4, <1>5, <1>6, <1>7, <1>8, <1>9 DEF HandlerStep, PeerStep

(* Every step of the server preserves the invariant. *)
LEMMA ServerStepInv ==
  ASSUME ServerInv, [ServerNext]_serverVars
  PROVE  ServerInv'
<1>t. /\ accepting \in BOOLEAN /\ live \subseteq Conn /\ cancelled \subseteq Conn
      /\ ctxDone \in BOOLEAN /\ closePc \in ClosePcs /\ closes \in 0 .. MaxCloses
      /\ open \subseteq Resources /\ (closePc # "idle" => ctxDone) /\ MaxCloses \in Nat
  BY ServerAssumption DEF ServerInv, ServerTypeOK, CloseCancelled
<1>1. CASE \E h \in Conn : Accept(h) \/ HandlerStep(h) \/ PeerStep(h)
  BY <1>1, HandlerStepInv
<1>2. CASE AcceptExit
  BY <1>2, <1>t, FrameInv DEF AcceptExit, closeVars
<1>3. CASE CloseCall
  <2>1. closes' \in 0 .. MaxCloses
    BY <1>3, <1>t DEF CloseCall
  <2>2. QED
    BY <1>3, <2>1, <1>t, FrameInv DEF CloseCall, ctlVars, ClosePcs
<1>4. CASE CloseLock
  BY <1>4, <1>t, FrameInv DEF CloseLock, ctlVars, ClosePcs
<1>5. CASE \E a \in Addr : CloseSession(a)
  BY <1>5, CloseSessionInv
<1>6. CASE CloseUnlock
  BY <1>6, <1>t, FrameInv DEF CloseUnlock, ctlVars, ClosePcs
<1>7. ASSUME NEW r, NEW next \in ClosePcs, r # "idle", CloseResource(r, next)
      PROVE  ServerInv'
  BY <1>7, <1>t, FrameInv DEF CloseResource, ctlVars
<1>8. CASE CloseRaw
  BY <1>8, <1>t, FrameInv DEF CloseRaw, ClosePcs
<1>9. CASE UNCHANGED serverVars
  BY <1>9, <1>t, FrameInv DEF serverVars, ctlVars, closeVars
<1>10. QED
  BY <1>1, <1>2, <1>3, <1>4, <1>5, <1>6, <1>7, <1>8, <1>9
  DEF ServerNext, CloseStep, Terminated, ClosePcs

(* The invariant holds in every state of the server. *)
LEMMA ServerInvAlways == ServerSpec => []ServerInv
<1>1. ServerInit => ServerInv
  BY ServerInitInv
<1>2. ServerInv /\ [ServerNext]_serverVars => ServerInv'
  BY ServerStepInv
<1>3. QED
  BY <1>1, <1>2, PTL DEF ServerSpec

-----------------------------------------------------------------------------
(* The type invariant of the server. *)
THEOREM ServerTypeCorrect == ServerSpec => []ServerTypeOK
<1>1. ServerInv => ServerTypeOK
  BY DEF ServerInv
<1>2. QED
  BY <1>1, ServerInvAlways, PTL

(* Until Close is called no two connections ever hold the same address,    *)
(* whatever the interleaving of any number of handlers (daemon.go:396-448).*)
THEOREM ExclusiveLeases == ServerSpec => []LeaseExclusive
<1>1. ServerInv => LeaseExclusive
  BY DEF ServerInv
<1>2. QED
  BY <1>1, ServerInvAlways, PTL

(* The pool never keeps an address that no handler holds, through every    *)
(* error path and through Close (daemon.go:414, 443-448, 321-323).         *)
THEOREM NothingLeaks == ServerSpec => []NoLeak
<1>1. ServerInv => NoLeak
  BY DEF ServerInv
<1>2. QED
  BY <1>1, ServerInvAlways, PTL

(* The session table is exact: never a stale entry, and until Close is     *)
(* called never a missing one (daemon.go:430-448).                         *)
THEOREM ExactTable == ServerSpec => []TableExact
<1>1. ServerInv => TableExact
  BY DEF ServerInv
<1>2. QED
  BY <1>1, ServerInvAlways, PTL

-----------------------------------------------------------------------------
(* What the pool's state says of the handlers *)

(* Each taken address has a handler of its own, so there are no more taken *)
(* addresses than handlers that hold one.                                  *)
LEMMA TakenByHolders ==
  ASSUME ServerInv
  PROVE  \E S \in SUBSET {h \in Conn : Holder(h)} :
           IsFiniteSet(S) /\ Cardinality(S) = Cardinality(allocated)
<1> DEFINE f == [a \in allocated |-> CHOOSE h \in Conn : Holder(h) /\ ip[h] = a]
           S == {f[a] : a \in allocated}
<1>1. ASSUME NEW a \in allocated
      PROVE  f[a] \in Conn /\ Holder(f[a]) /\ ip[f[a]] = a
  <2>1. \E h \in Conn : Holder(h) /\ ip[h] = a
    BY DEF ServerInv, NoLeak
  <2>2. QED
    BY <2>1
<1>2. f \in Bijection(allocated, S)
  <2>1. f \in [allocated -> S]
    OBVIOUS
  <2>2. \A a, b \in allocated : f[a] = f[b] => a = b
    BY <1>1
  <2>3. \A t \in S : \E a \in allocated : f[a] = t
    OBVIOUS
  <2>4. QED
    BY <2>1, <2>2, <2>3, Zenon DEF Bijection, Injection, Surjection, IsInjective
<1>3. IsFiniteSet(allocated)
  BY PoolPart, AllocatedCountable
<1>4. IsFiniteSet(S) /\ Cardinality(S) = Cardinality(allocated)
  BY <1>2, <1>3, FS_Bijection DEF ExistsBijection
<1>5. S \in SUBSET {h \in Conn : Holder(h)}
  BY <1>1
<1>6. QED
  BY <1>4, <1>5

(* A client is turned away for want of an address only while the server    *)
(* serves: at that moment at least maxClient - 1 other connections hold an *)
(* address, whatever failed, was lost or was closed before                 *)
(* (ippool.go:87-117, daemon.go:402-413).                                  *)
THEOREM RefusedWhenServing ==
  ServerSpec => [](Exhausted => \E S \in SUBSET {h \in Conn : Holder(h)} :
                                  IsFiniteSet(S) /\ maxClient <= Cardinality(S) + 1)
<1>1. ASSUME ServerInv, Exhausted
      PROVE  \E S \in SUBSET {h \in Conn : Holder(h)} :
               IsFiniteSet(S) /\ maxClient <= Cardinality(S) + 1
  BY <1>1, TakenByHolders, PoolPart, FullButOne
<1>2. QED
  BY <1>1, ServerInvAlways, PTL

(* When the last handler has ended the server is as new: the pool has      *)
(* every address back and the session table is empty, although Close and   *)
(* the handlers both gave addresses back (daemon.go:321-323, 443-448).     *)
THEOREM QuietServerIsClean ==
  ServerSpec => []((\A h \in Conn : ~Holder(h))
                      => allocated = {} /\ \A a \in Addr : sessions[a] = NoConn)
<1>1. ASSUME ServerInv, \A h \in Conn : ~Holder(h)
      PROVE  allocated = {} /\ \A a \in Addr : sessions[a] = NoConn
  <2>1. allocated = {}
    BY <1>1 DEF ServerInv, NoLeak
  <2>2. ASSUME NEW a \in Addr, sessions[a] # NoConn PROVE FALSE
    <3>1. sessions[a] \in Conn /\ pc[sessions[a]] \in {"wait", "unregister"}
      BY <1>1, <2>2 DEF ServerInv, ServerTypeOK, TableExact
    <3>2. QED
      BY <1>1, <3>1 DEF Holder, Holding
  <2>3. QED
    BY <2>1, <2>2
<1>2. QED
  BY <1>1, ServerInvAlways, PTL

-----------------------------------------------------------------------------
(* Shutdown *)

(* Close works through its resources in order, and without its socket no   *)
(* connection is left open.                                                *)
CloseOrder ==
  /\ closePc \in {"listener", "data", "raw", "done"} => "tun" \notin open
  /\ closePc \in {"data", "raw", "done"} => "listener" \notin open
  /\ closePc \in {"raw", "done"} => "data" \notin open
  /\ closePc = "done" => "raw" \notin open
  /\ "raw" \notin open => live = {}

(* A connection that is closed stays closed, so only Close matters to the  *)
(* order.                                                                  *)
LEMMA CloseOrderStep ==
  ASSUME ServerInv, CloseOrder, [ServerNext]_serverVars
  PROVE  CloseOrder'
<1>1. ASSUME UNCHANGED closePc, UNCHANGED open, live' \subseteq live
      PROVE  CloseOrder'
  BY <1>1 DEF CloseOrder
<1>2. CASE \E h \in Conn : Accept(h) \/ HandlerStep(h) \/ PeerStep(h)
  <2>1. UNCHANGED <<closePc, open>> /\ live' \subseteq live
    BY <1>2, Zenon
    DEF Accept, HandlerStep, PeerStep, StreamOpened, StreamFailed, RequestRead,
        RequestInvalid, RequestLost, AuthOk, AuthFailed, NoIPsAvailable, ResponseSent, Wake,
        Move, AllocateIP, ResponseFailed, Register, Unregister, ReleaseIP, Exit, PeerGone,
        closeVars
  <2>2. QED
    BY <1>1, <2>1
<1>3. CASE AcceptExit \/ (\E a \in Addr : CloseSession(a)) \/ UNCHANGED serverVars
  BY <1>1, <1>3 DEF AcceptExit, CloseSession, closeVars, serverVars, ctlVars
<1>4. CASE CloseCall \/ CloseLock \/ CloseUnlock
  BY <1>4 DEF CloseCall, CloseLock, CloseUnlock, CloseOrder, ctlVars
<1>5. CASE CloseResource("tun", "listener") \/ CloseResource("listener", "data")
           \/ CloseResource("data", "raw")
  BY <1>5 DEF CloseResource, CloseOrder, ctlVars
<1>6. CASE CloseRaw
  BY <1>6 DEF CloseRaw, CloseOrder
<1>7. QED
  BY <1>2, <1>3, <1>4, <1>5, <1>6 DEF ServerNext, CloseStep, Terminated

(* What makes a shutdown complete: when a call of Close has returned, the  *)
(* context is cancelled, all four resources are closed and no connection   *)
(* is left, so nothing a handler can be blocked in (the accept of a        *)
(* stream, the decoding of a request, which has no deadline, the final     *)
(* select, the table's mutex) can hold it any longer                       *)
(* (daemon.go:310-350, 371-456).                                           *)
THEOREM ClosedHoldsNobody ==
  ServerSpec => [](closePc = "done" => ctxDone /\ open = {} /\ live = {} /\ MuFree)
<1>1. ServerInit => CloseOrder
  BY DEF ServerInit, CloseOrder, Resources
<1>2. ServerInv /\ CloseOrder /\ [ServerNext]_serverVars => CloseOrder'
  BY CloseOrderStep
<1>3. ServerInv /\ CloseOrder => (closePc = "done" => ctxDone /\ open = {} /\ live = {} /\ MuFree)
  BY DEF ServerInv, ServerTypeOK, CloseOrder, CloseCancelled, Resources, MuFree
<1>4. QED
  BY <1>1, <1>2, <1>3, ServerInvAlways, PTL DEF ServerSpec

(* The places of a handler in the order of its code. *)
Path == <<"idle", "stream", "decode", "auth", "alloc", "respond",
          "register", "wait", "unregister", "release", "exit", "done">>

(* And what makes it end: a handler only moves forward, past its error     *)
(* exits too, so it takes at most eleven steps whatever the others do      *)
(* (daemon.go:371-456).                                                    *)
THEOREM HandlersMoveForward ==
  ServerSpec => [][\A h \in Conn :
                     \/ pc'[h] = pc[h]
                     \/ \E i, j \in 1 .. 12 : i < j /\ Path[i] = pc[h] /\ Path[j] = pc'[h]
                  ]_serverVars
<1> DEFINE Ahead(p, q) == \E i, j \in 1 .. 12 : i < j /\ Path[i] = p /\ Path[j] = q
<1>p. /\ Path[1] = "idle" /\ Path[2] = "stream" /\ Path[3] = "decode" /\ Path[4] = "auth"
      /\ Path[5] = "alloc" /\ Path[6] = "respond" /\ Path[7] = "register" /\ Path[8] = "wait"
      /\ Path[9] = "unregister" /\ Path[10] = "release" /\ Path[11] = "exit" /\ Path[12] = "done"
  BY DEF Path
<1>a. /\ Ahead("idle", "stream") /\ Ahead("stream", "decode") /\ Ahead("stream", "exit")
      /\ Ahead("decode", "auth") /\ Ahead("decode", "exit")
      /\ Ahead("auth", "alloc") /\ Ahead("auth", "exit")
      /\ Ahead("alloc", "respond") /\ Ahead("alloc", "exit")
      /\ Ahead("respond", "register") /\ Ahead("respond", "exit")
      /\ Ahead("register", "wait") /\ Ahead("wait", "unregister")
      /\ Ahead("unregister", "release") /\ Ahead("release", "exit") /\ Ahead("exit", "done")
  BY <1>p
<1> HIDE DEF Ahead
<1>1. ASSUME ServerInv, [ServerNext]_serverVars, NEW h \in Conn
      PROVE  pc'[h] = pc[h] \/ Ahead(pc[h], pc'[h])
  <2>t. pc \in [Conn -> HandlerPcs]
    BY <1>1 DEF ServerInv, ServerTypeOK
  <2>m. ASSUME NEW g \in Conn, NEW from, NEW to, pc[g] = from, Ahead(from, to),
               pc' = [pc EXCEPT ![g] = to]
        PROVE  pc'[h] = pc[h] \/ Ahead(pc[h], pc'[h])
    BY <2>m, <2>t
  <2>1. ASSUME NEW g \in Conn, Accept(g) \/ HandlerStep(g) \/ PeerStep(g)
        PROVE  pc'[h] = pc[h] \/ Ahead(pc[h], pc'[h])
    <3>1. CASE Accept(g) \/ StreamOpened(g) \/ StreamFailed(g)
      BY <3>1, <1>a, <2>m DEF Accept, StreamOpened, StreamFailed, Move
    <3>2. CASE RequestRead(g) \/ RequestInvalid(g) \/ RequestLost(g)
      BY <3>2, <1>a, <2>m DEF RequestRead, RequestInvalid, RequestLost, Move
    <3>3. CASE AuthOk(g) \/ AuthFailed(g) \/ AllocateIP(g) \/ NoIPsAvailable(g)
      BY <3>3, <1>a, <2>m DEF AuthOk, AuthFailed, AllocateIP, NoIPsAvailable, Move
    <3>4. CASE ResponseSent(g) \/ ResponseFailed(g) \/ Register(g) \/ Wake(g)
      BY <3>4, <1>a, <2>m DEF ResponseSent, ResponseFailed, Register, Wake, Move
    <3>5. CASE Unregister(g) \/ ReleaseIP(g) \/ Exit(g)
      BY <3>5, <1>a, <2>m DEF Unregister, ReleaseIP, Exit
    <3>6. CASE PeerGone(g)
      BY <3>6 DEF PeerGone
    <3>7. QED
      BY <2>1, <3>1, <3>2, <3>3, <3>4, <3>5, <3>6 DEF HandlerStep, PeerStep
  <2>2. CASE AcceptExit \/ CloseCall \/ CloseStep \/ UNCHANGED serverVars
    BY <2>2
    DEF AcceptExit, CloseCall, CloseStep, CloseLock, CloseSession, CloseUnlock,
        CloseResource, CloseRaw, ctlVars, serverVars
  <2>3. QED
    BY <1>1, <2>1, <2>2 DEF ServerNext, Terminated
<1>2. ServerInv /\ [ServerNext]_serverVars =>
        \A h \in Conn :
          \/ pc'[h] = pc[h]
          \/ \E i, j \in 1 .. 12 : i < j /\ Path[i] = pc[h] /\ Path[j] = pc'[h]
  BY <1>1 DEF Ahead
<1>3. QED
  BY <1>2, ServerInvAlways, PTL DEF ServerSpec

-----------------------------------------------------------------------------
(* Refinement *)

(* A step that leaves every holder with its address changes no lease. *)
LEMMA HeldSame ==
  ASSUME \A g \in Conn : (Holder(g)' <=> Holder(g)) /\ (Holder(g) => ip'[g] = ip[g])
  PROVE  heldIP' = heldIP
BY DEF heldIP

(* Giving the address back drops the lease. *)
LEMMA GiveBackDrops ==
  ASSUME ServerInv, NEW h \in Conn, pc[h] \in {"respond", "release"},
         pc' = [pc EXCEPT ![h] = "exit"], \A g \in Conn \ {h} : ip'[g] = ip[g],
         UNCHANGED <<conf, maxClient, ctxDone>>
  PROVE  Lease!Drop(h)
<1>1. pc \in [Conn -> HandlerPcs]
  BY DEF ServerInv, ServerTypeOK
<1>2. Holder(h) /\ ip[h] \in ClientAddrs /\ NoIP \notin ClientAddrs
  BY PoolPart, ClientAddrType DEF ServerInv, ServerTypeOK, Holder, Holding
<1>3. ~Holder(h)' /\ \A g \in Conn \ {h} : Holder(g)' <=> Holder(g)
  BY <1>1 DEF Holder, Holding
<1>4. heldIP[h] # NoIP
  BY <1>2 DEF heldIP
<1>5. heldIP' = [heldIP EXCEPT ![h] = NoIP]
  BY <1>3 DEF heldIP
<1>6. QED
  BY <1>4, <1>5, RangeFixed DEF Lease!Drop

(* Allocation grants a lease nobody else holds while the server serves. *)
LEMMA AllocateGrants ==
  ASSUME ServerInv, NEW h \in Conn, AllocateIP(h)
  PROVE  \E a \in ClientAddrs : Lease!Grant(h, a)
<1>1. PICK a \in Addr : Allocate(a) /\ ip' = [ip EXCEPT ![h] = a]
  BY DEF AllocateIP
<1>2. a \in ClientAddrs /\ a \notin allocated /\ NoIP \notin ClientAddrs
  BY <1>1, AllocateInv, PoolPart, ClientAddrType
<1>3. UNCHANGED <<conf, maxClient, ctxDone>>
  BY <1>1 DEF Allocate, AllocateIP, closeVars
<1>4. /\ pc \in [Conn -> HandlerPcs] /\ ip \in [Conn -> Addr \cup {NoIP}]
      /\ pc[h] = "alloc" /\ pc' = [pc EXCEPT ![h] = "respond"]
  BY DEF ServerInv, ServerTypeOK, AllocateIP
<1>5. /\ ~Holder(h) /\ Holder(h)' /\ ip'[h] = a
      /\ \A g \in Conn \ {h} : (Holder(g)' <=> Holder(g)) /\ ip'[g] = ip[g]
  BY <1>1, <1>4 DEF Holder, Holding
<1>6. heldIP[h] = NoIP /\ heldIP' = [heldIP EXCEPT ![h] = a]
  BY <1>5 DEF heldIP
<1>7. ctxDone \/ \A d \in Conn : heldIP[d] # a
  BY <1>2 DEF ServerInv, LeaseExclusive, heldIP
<1>8. QED
  BY <1>2, <1>3, <1>6, <1>7, RangeFixed DEF Lease!Grant

(* Every other step of a handler leaves the leases alone. *)
LEMMA MoveKeepsLeases ==
  ASSUME ServerInv, NEW h \in Conn, NEW to,
         pc' = [pc EXCEPT ![h] = to], pc[h] \in Holding <=> to \in Holding,
         UNCHANGED <<conf, maxClient, ctxDone, ip>>
  PROVE  UNCHANGED Lease!leaseVars
<1>1. \A g \in Conn : Holder(g)' <=> Holder(g)
  BY DEF Holder, ServerInv, ServerTypeOK
<1>2. QED
  BY <1>1, HeldSame, RangeFixed DEF Lease!leaseVars

(* A step of a handler is a step of the address lease, or stutters. *)
LEMMA HandlerRefines ==
  ASSUME ServerInv, NEW h \in Conn, Accept(h) \/ HandlerStep(h) \/ PeerStep(h)
  PROVE  [Lease!LeaseNext]_(Lease!leaseVars)
<1>m. ASSUME NEW from, NEW to, Move(h, from, to), from \in Holding <=> to \in Holding
      PROVE  UNCHANGED Lease!leaseVars
  BY <1>m, MoveKeepsLeases DEF Move, poolVars, closeVars
<1>1. CASE Accept(h)
  BY <1>1, MoveKeepsLeases DEF Accept, Holding, poolVars, closeVars
<1>2. CASE StreamOpened(h) \/ StreamFailed(h) \/ RequestRead(h) \/ RequestInvalid(h)
           \/ RequestLost(h) \/ AuthOk(h) \/ AuthFailed(h) \/ NoIPsAvailable(h)
           \/ ResponseSent(h) \/ Wake(h)
  BY <1>2, <1>m DEF StreamOpened, StreamFailed, RequestRead, RequestInvalid, RequestLost,
                    AuthOk, AuthFailed, NoIPsAvailable, ResponseSent, Wake, Holding
<1>3. CASE AllocateIP(h)
  BY <1>3, AllocateGrants DEF Lease!LeaseNext
<1>4. CASE ResponseFailed(h)
  <2>1. Lease!Drop(h)
    BY <1>4, GiveBackDrops
    DEF ResponseFailed, Release, poolVars, closeVars, ServerInv, ServerTypeOK
  <2>2. QED
    BY <2>1 DEF Lease!LeaseNext
<1>5. CASE ReleaseIP(h)
  <2>1. Lease!Drop(h)
    BY <1>5, GiveBackDrops DEF ReleaseIP, Release, poolVars, closeVars
  <2>2. QED
    BY <2>1 DEF Lease!LeaseNext
<1>6. CASE Register(h) \/ Unregister(h) \/ Exit(h)
  BY <1>6, MoveKeepsLeases DEF Register, Unregister, Exit, Holding, poolVars, closeVars
<1>7. CASE PeerGone(h)
  BY <1>7, HeldSame, RangeFixed DEF PeerGone, Holder, poolVars, closeVars, Lease!leaseVars
<1>8. QED
  BY <1>1, <1>2, <1>3, <1>4, <1>5, <1>6, <1>7 DEF HandlerStep, PeerStep

(* Every step of the server is a step of the address lease, or stutters. *)
LEMMA StepRefines ==
  ASSUME ServerInv, [ServerNext]_serverVars
  PROVE  [Lease!LeaseNext]_(Lease!leaseVars)
<1>1. CASE \E h \in Conn : Accept(h) \/ HandlerStep(h) \/ PeerStep(h)
  BY <1>1, HandlerRefines
<1>f. ASSUME UNCHANGED <<conf, maxClient, pc, ip>>
      PROVE  heldIP' = heldIP /\ ClientAddrs' = ClientAddrs
  BY <1>f, HeldSame, RangeFixed DEF Holder
<1>2. CASE CloseCall
  <2>1. Lease!Stop
    BY <1>2, <1>f DEF CloseCall, ctlVars, poolVars, Lease!Stop
  <2>2. QED
    BY <2>1 DEF Lease!LeaseNext
<1>3. CASE AcceptExit \/ CloseStep \/ UNCHANGED serverVars
  <2>1. UNCHANGED <<conf, maxClient, pc, ip, ctxDone>>
    BY <1>3 DEF AcceptExit, CloseStep, CloseLock, CloseSession, CloseUnlock, CloseResource,
                CloseRaw, Release, serverVars, poolVars, ctlVars, closeVars
  <2>2. QED
    BY <2>1, <1>f DEF Lease!leaseVars
<1>4. QED
  BY <1>1, <1>2, <1>3 DEF ServerNext, Terminated

(* The server implements the address lease, for any number of connections, *)
(* any pool and any number of calls of Close (daemon.go:310-350, 371-456). *)
THEOREM LeaseRefinement == ServerSpec => ImplementsLease
<1>1. ServerInit => Lease!LeaseInit
  <2>1. SUFFICES ASSUME ServerInit PROVE Lease!LeaseInit
    OBVIOUS
  <2>2. NoIP \notin ClientAddrs
    BY <2>1, ServerInitInv, PoolPart, ClientAddrType
  <2>3. heldIP = [c \in Conn |-> NoIP]
    BY <2>1 DEF ServerInit, heldIP, Holder, Holding
  <2>4. QED
    BY <2>1, <2>2, <2>3 DEF ServerInit, Lease!LeaseInit
<1>2. ServerInv /\ [ServerNext]_serverVars => [Lease!LeaseNext]_(Lease!leaseVars)
  BY StepRefines
<1>3. QED
  BY <1>1, <1>2, ServerInvAlways, PTL DEF ServerSpec, ImplementsLease, Lease!LeaseSpec
=============================================================================
