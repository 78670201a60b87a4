------------------------------- MODULE IPPool -------------------------------
(***************************************************************************)
(* The server's address pool, server/daemon/ippool.go.                     *)
(*                                                                         *)
(* Addresses are uint32 values 0 .. Word-1.  A pool is built once by       *)
(* NewIPPool from one element of Confs; every other method runs under the  *)
(* pool's mutex, so each is one atomic action here.                        *)
(***************************************************************************)
EXTENDS Integers, FiniteSets

CONSTANTS
  Word,  \* number of uint32 values (2^32 in the program)
  Confs  \* the NewIPPool calls considered: [base, size, maxClients, cpus, memKB]

Unreadable == -1  \* /proc/meminfo is missing or does not parse
NotIPv4    == -1  \* a net.IP whose To4() is nil

(***************************************************************************)
(* A parsed CIDR is a block of 2^(32-ones) addresses that starts at its    *)
(* network address; a block of more than one address has an even size.     *)
(***************************************************************************)
ASSUME ConfsAssumption ==
  /\ Word \in Nat \ {0}
  /\ \A c \in Confs :
       /\ c.base \in Nat
       /\ c.size \in Nat
       /\ c.base + c.size <= Word
       /\ c.size = 1 \/ \E k \in 1..c.size : c.size = 2 * k
       /\ c.maxClients \in Int
       /\ c.cpus \in Nat \ {0}
       /\ c.memKB \in Nat \cup {Unreadable}

VARIABLES
  conf,       \* the arguments and the host the pool was built with
  maxClient,  \* maximum number of client addresses
  allocated,  \* set of addresses handed out
  nextHint    \* offset at which the next scan starts

poolVars == <<conf, maxClient, allocated, nextHint>>

Addr == 0 .. Word - 1
Add32(a, b) == IF a + b < Word THEN a + b ELSE a + b - Word
Sub32(a, b) == IF a >= b THEN a - b ELSE a - b + Word

-----------------------------------------------------------------------------
(* Construction *)

detectRAMGB(memKB) ==
  LET gb == memKB \div 1048576
  IN  IF memKB = Unreadable THEN 0 ELSE IF gb < 1 THEN 1 ELSE gb

detectMaxClients(cpus, memKB) ==
  LET cpuBased == cpus * 256
      ramBased == detectRAMGB(memKB) * 128
      best     == IF ramBased > 0 /\ ramBased < cpuBased THEN ramBased ELSE cpuBased
      capped   == IF best > 65533 THEN 65533 ELSE best
  IN  IF capped <= 0 THEN 1024 ELSE capped

TotalUsable(c) == c.size - 2

(* Faulty variant: forgets that the server itself takes one host address. *)
MaxAvailNoServer(c) == TotalUsable(c)

MaxAvail(c) == TotalUsable(c) - 1

(* The capacity NewIPPool settles on: the request or the detected value,   *)
(* clamped to the client slots of the subnet.                              *)
PoolCapacity(c) ==
  LET wanted == IF c.maxClients <= 0
                THEN detectMaxClients(c.cpus, c.memKB) ELSE c.maxClients
  IN  IF wanted > MaxAvail(c) THEN MaxAvail(c) ELSE wanted

NewIPPool(c) ==
  /\ TotalUsable(c) >= 1
  /\ conf = c
  /\ maxClient = PoolCapacity(c)
  /\ allocated = {}
  /\ nextHint = 2

serverIP == Add32(conf.base, 1)

-----------------------------------------------------------------------------
(* Allocate and Release *)

LastOffset == maxClient + 1

(* Faulty variant: a scan that does not wrap runs off the client range. *)
NoWrap(offset) == offset

(* Faulty variant: the scan resumes one more offset further on. *)
WrapSkipsTwo(offset) == IF offset > LastOffset THEN offset - maxClient + 2 ELSE offset

(* The wrap-around of the scan, as the code computes it. *)
Wrap(offset) == IF offset > LastOffset THEN offset - maxClient + 1 ELSE offset

ScanSteps == 0 .. maxClient - 1

(* start + uint32(i) is taken without its wrap to 32 bits (ippool.go:98),  *)
(* which only a /0 block with a limit of more than 2^31 can reach.         *)
Candidate(i) == Add32(conf.base, Wrap(nextHint + i))

HintAfter(offset) == IF offset + 1 > LastOffset THEN 2 ELSE offset + 1

(* Allocate returns a: the first free candidate of the scan. *)
Allocate(a) ==
  /\ Cardinality(allocated) < maxClient
  /\ \E i \in ScanSteps :
       /\ a = Candidate(i)
       /\ a \notin allocated
       /\ \A j \in 0 .. i - 1 : Candidate(j) \in allocated
       /\ allocated' = allocated \cup {a}
       /\ nextHint' = HintAfter(Wrap(nextHint + i))
  /\ UNCHANGED <<conf, maxClient>>

(* Allocate returns ErrPoolExhausted. *)
Exhausted ==
  \/ Cardinality(allocated) >= maxClient
  \/ \A i \in ScanSteps : Candidate(i) \in allocated

AllocateExhausted == Exhausted /\ UNCHANGED poolVars

(* The address lies in the client range; below the base the subtraction    *)
(* wraps to a huge offset.                                                 *)
InClientRange(num) == LET offset == Sub32(num, conf.base)
                      IN  offset >= 2 /\ offset <= LastOffset

CanRelease(num) == num # NotIPv4 /\ InClientRange(num) /\ num \in allocated

Release(num) ==
  \/ /\ CanRelease(num)
     /\ allocated' = allocated \ {num}
     /\ nextHint' = Sub32(num, conf.base)
     /\ UNCHANGED <<conf, maxClient>>
  \/ /\ ~CanRelease(num)       \* ErrIPNotManaged
     /\ UNCHANGED poolVars

IsManaged(num) == num \in conf.base .. conf.base + conf.size - 1
PoolSize       == maxClient
AllocatedCount == Cardinality(allocated)

-----------------------------------------------------------------------------
(* The pool used by arbitrary callers *)

PoolInit == \E c \in Confs : NewIPPool(c)

PoolNext ==
  \/ \E a \in Addr : Allocate(a)
  \/ AllocateExhausted
  \/ \E num \in Addr \cup {NotIPv4} : Release(num)

PoolSpec == PoolInit /\ [][PoolNext]_poolVars

-----------------------------------------------------------------------------
(* Properties *)

ClientAddrs == {conf.base + offset : offset \in 2 .. LastOffset}
FreeAddrs   == ClientAddrs \ allocated

(* Type invariant: the pool holds client addresses only, and the scan hint *)
(* stays inside the client range [2, maxClient+1] (ippool.go:32).          *)
PoolTypeOK ==
  /\ conf \in Confs
  /\ maxClient \in Nat \ {0}
  /\ allocated \subseteq ClientAddrs
  /\ nextHint \in 2 .. LastOffset

(* Whatever the subnet and however the client limit was chosen, Allocate   *)
(* never hands out the network address, the server's address, the          *)
(* broadcast address or an address outside the subnet (ippool.go:54-69).   *)
ReservedNeverLeased ==
  \A a \in allocated :
    /\ IsManaged(a)
    /\ a \notin {conf.base, serverIP, conf.base + conf.size - 1}

(* ErrPoolExhausted with an address still free happens for one address     *)
(* only: the first client offset, which the wrapped scan steps over        *)
(* (ippool.go:100-102).  Every other free address is found.                *)
MissesOnlyFirstSlot == Exhausted => FreeAddrs \subseteq {conf.base + 2}

(* "Returns ErrPoolExhausted if no addresses are available"                *)
(* (ippool.go:86): a refusal means that every client address is taken.     *)
(* The code does not keep this: README, "Disagreements".                   *)
ExhaustedOnlyWhenFull == Exhausted => FreeAddrs = {}

(* "Falls back to 1024 on detection failure" (ippool.go:190): when the RAM *)
(* cannot be read the automatic limit is 1024, clamped to the subnet.      *)
(* The code does not keep this: README, "Disagreements".                   *)
FallbackOnDetectionFailure ==
  (conf.maxClients <= 0 /\ conf.memKB = Unreadable)
     => maxClient = IF 1024 > MaxAvail(conf) THEN MaxAvail(conf) ELSE 1024
=============================================================================
