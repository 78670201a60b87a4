---------------------------- MODULE MCServerParts ----------------------------
(***************************************************************************)
(* The instance for TLC of four parts of the server that share no state:   *)
(* the address pool, the rate limiter, the framing and the process with    *)
(* its NAT rules.  Their interleavings show nothing, so each part moves    *)
(* only while the other three rest in one initial state: the instance has  *)
(* the sum of their states and not the product.                            *)
(***************************************************************************)
EXTENDS IPPool, TokenBucket, Framing, ServerProcess

CONSTANTS eth0, wlan0

(* Two interfaces, of which setupNAT detects one. *)
TwoIfaces == {eth0, wlan0}

(* Every block size from /32 to /29, at the bottom and at the top of a     *)
(* 5-bit address space, with an explicit limit below, at and above the     *)
(* subnet's size, and with automatic detection.                            *)
SmallConfs ==
  {[base |-> b, size |-> s, maxClients |-> m, cpus |-> 1, memKB |-> Unreadable] :
     b \in {0, 16, 24}, s \in {1, 2, 4, 8}, m \in {-1, 0, 1, 3, 4, 9}}

(* No limit, twice, and three limits. *)
SmallRates == -1 .. 3

(* Lengths at every boundary of the code. *)
TunnelLengths == {0, 1, 19, 20, 1200, 1300, OutBuf - 46 - 63, OutBuf - 45}

TwoAddresses == {10 * 2^24 + 8 * 2^16 + 254, 127 * 2^24 + 255}

-----------------------------------------------------------------------------
PoolRests ==
  /\ conf = [base |-> 0, size |-> 4, maxClients |-> 1, cpus |-> 1, memKB |-> Unreadable]
  /\ NewIPPool(conf)
BucketRests  == rate = 0 /\ BucketInit
ProcessRests == route = eth0 /\ forward = FALSE /\ ProcessInit

PartsInit ==
  /\ PoolInit /\ BucketInit /\ FramingInit /\ ProcessInit
  /\ \/ BucketRests /\ ProcessRests
     \/ PoolRests /\ ProcessRests
     \/ PoolRests /\ BucketRests

PartsNext ==
  \/ BucketRests /\ FramingInit /\ ProcessRests
       /\ PoolNext /\ UNCHANGED <<bucketVars, framingVars, processVars>>
  \/ PoolRests /\ FramingInit /\ ProcessRests
       /\ BucketNext /\ UNCHANGED <<poolVars, framingVars, processVars>>
  \/ PoolRests /\ BucketRests /\ ProcessRests
       /\ FramingNext /\ UNCHANGED <<poolVars, bucketVars, processVars>>
  \/ PoolRests /\ BucketRests /\ FramingInit
       /\ ProcessNext /\ UNCHANGED <<poolVars, bucketVars, framingVars>>

PartsSpec == PartsInit /\ [][PartsNext]_<<poolVars, bucketVars, framingVars, processVars>>
=============================================================================
