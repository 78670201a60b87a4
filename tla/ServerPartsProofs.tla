-------------------------- MODULE ServerPartsProofs -------------------------
(***************************************************************************)
(* Proofs about three parts of the server that share no state: the rate    *)
(* limiter, for every rate, clock resolution and packet size; the process  *)
(* with its NAT rules, for every set of interfaces, every setting and      *)
(* every number of crashes; and the framing, for every packet.             *)
(*                                                                         *)
(* RateBound alone is not inductive: a full bucket and an exhausted        *)
(* allowance satisfy it, and the next packet breaks it.  WindowBudget      *)
(* counts what could be spent now as spent.                                *)
(*                                                                         *)
(* The copies of a NAT rule are never looked at by the code, so the        *)
(* argument is an account: at every moment the copies of a rule are those  *)
(* that the process found, plus its own if it has appended it, minus one   *)
(* for every -D that has succeeded, and not below zero.                    *)
(*                                                                         *)
(* RoundTrip says nothing of a frame that is on the wire; FrameExact says  *)
(* what makes its reader find the packet again.                            *)
(***************************************************************************)
EXTENDS TokenBucket, ServerProcess, Framing, TLAPS

-----------------------------------------------------------------------------
(* The rate limiter *)

BucketInv == BucketTypeOK /\ WindowBudget

(* The arithmetic that the clock's steps need. *)
LEMMA Product ==
  ASSUME NEW r \in Nat, NEW x \in Nat
  PROVE  /\ r * x \in Nat
         /\ x * r = r * x
         /\ r * (x + 1) = r * x + r
         /\ r * 0 = 0
BY SMT

(* The types of the quantities of a limited bucket. *)
LEMMA BucketTypes ==
  ASSUME BucketTypeOK, rate > 0
  PROVE  /\ rate \in Nat /\ now \in Nat /\ lastUpdate \in Nat /\ start \in Nat
         /\ now - lastUpdate \in Nat /\ now - start \in Nat
         /\ admitted \in Nat /\ tokens \in Nat /\ Capacity \in Nat /\ tokens <= Capacity
<1>1. rate \in Nat
  BY BucketAssumption DEF BucketTypeOK
<1>2. Capacity \in Nat
  BY <1>1, BucketAssumption, Product DEF Capacity
<1>3. QED
  BY <1>1, <1>2 DEF BucketTypeOK

(* A refill lies between nothing and the capacity (daemon.go:86-90). *)
LEMMA RefillRange ==
  ASSUME BucketTypeOK, rate > 0
  PROVE  Refill(now) \in 0 .. Capacity
<1>1. (now - lastUpdate) * rate \in Nat
  BY BucketTypes, Product
<1>2. QED
  BY <1>1, BucketTypes DEF Refill

(* A call of Allow, the clock and the observer preserve the invariant. *)
LEMMA BucketStepInv ==
  ASSUME BucketInv, [BucketNext]_bucketVars
  PROVE  BucketInv'
<1> USE DEF BucketInv
<1>t. /\ rate \in Int /\ now \in Nat /\ lastUpdate \in 0 .. now /\ start \in 0 .. now
      /\ admitted \in Nat /\ tokens \in Int /\ Sizes \subseteq Nat
  BY BucketAssumption DEF BucketTypeOK
(* A call of Allow that goes through the bucket leaves R' = Refill - n.    *)
<1>a. ASSUME NEW left \in 0 .. Refill(now), rate > 0,
             tokens' = left, lastUpdate' = now, rate' = rate, now' = now, start' = start,
             admitted' = admitted + (Refill(now) - left)
      PROVE  BucketInv'
  <2>1. Capacity' = Capacity
    BY <1>a DEF Capacity
  <2>2. Refill(now) \in 0 .. Capacity /\ Capacity \in Nat
    BY <1>a, RefillRange, BucketTypes
  <2>3. (now - now) * rate = 0
    BY <1>t
  <2>4. Refill(now)' = left
    BY <1>a, <1>t, <2>1, <2>2, <2>3 DEF Refill
  <2>5. admitted' + left = admitted + Refill(now)
    BY <1>a, <1>t, <2>2
  <2>6. WindowBudget'
    BY <1>a, <2>1, <2>4, <2>5 DEF WindowBudget
  <2>7. BucketTypeOK'
    BY <1>a, <1>t, <2>1, <2>2 DEF BucketTypeOK
  <2>8. QED
    BY <2>6, <2>7
<1>1. ASSUME NEW n \in Sizes, Deny(n)
      PROVE  BucketInv'
  <2>1. rate > 0
    BY <1>1 DEF Deny
  <2>2. Refill(now) \in 0 .. Capacity /\ Capacity \in Nat
    BY <2>1, RefillRange, BucketTypes
  <2>3. Refill(now) \in 0 .. Refill(now) /\ admitted = admitted + (Refill(now) - Refill(now))
    BY <2>2, <1>t
  <2>4. QED
    BY <1>1, <1>a, <2>1, <2>3 DEF Deny
<1>2. ASSUME NEW n \in Sizes, Admit(n)
      PROVE  BucketInv'
  <2>1. rate > 0 /\ n \in Nat /\ Refill(now) >= n
    BY <1>2, <1>t DEF Admit
  <2>2. Refill(now) \in 0 .. Capacity /\ Capacity \in Nat
    BY <2>1, RefillRange, BucketTypes
  <2>3. Refill(now) - n \in 0 .. Refill(now) /\ n = Refill(now) - (Refill(now) - n)
    BY <2>1, <2>2
  <2>4. QED
    BY <1>2, <1>a, <2>1, <2>3 DEF Admit
<1>3. CASE Tick
  <2>1. /\ now' = now + 1 /\ rate' = rate /\ tokens' = tokens /\ lastUpdate' = lastUpdate
        /\ start' = start /\ admitted' = admitted
    BY <1>3 DEF Tick
  <2>2. Capacity' = Capacity
    BY <2>1 DEF Capacity
  <2>3. BucketTypeOK'
    BY <1>t, <2>1, <2>2 DEF BucketTypeOK
  <2>4. ASSUME rate > 0
        PROVE  admitted + Refill(now)' <= Capacity + rate * (now' - start)
    <3>1. /\ rate \in Nat /\ now - lastUpdate \in Nat /\ now - start \in Nat
          /\ Capacity \in Nat /\ tokens \in Nat
      BY <2>4, BucketTypes
    <3>2. now' - lastUpdate = (now - lastUpdate) + 1 /\ now' - start = (now - start) + 1
      BY <2>1, <1>t
    <3> DEFINE d == now - lastUpdate
               w == now - start
    <3> HIDE DEF d, w
    <3>3. /\ (d + 1) * rate = d * rate + rate /\ d * rate \in Nat
          /\ rate * (w + 1) = rate * w + rate /\ rate * w \in Nat
      <4>1. d \in Nat /\ w \in Nat
        BY <3>1 DEF d, w
      <4>2. d + 1 \in Nat
        BY <4>1
      <4>3. QED
        BY <3>1, <4>1, <4>2, Product
    <3>4. Refill(now)' = IF tokens + (d * rate + rate) > Capacity
                         THEN Capacity ELSE tokens + (d * rate + rate)
      BY <2>1, <2>2, <3>2, <3>3 DEF Refill, d
    <3>5. Refill(now) = IF tokens + d * rate > Capacity THEN Capacity ELSE tokens + d * rate
      BY DEF Refill, d
    <3>6. admitted + Refill(now) <= Capacity + rate * w
      BY <2>4 DEF WindowBudget, w
    <3>7. rate * (now' - start) = rate * w + rate
      BY <3>2, <3>3 DEF w
    <3>8. QED
      BY <3>1, <3>3, <3>4, <3>5, <3>6, <3>7, <1>t
  <2>5. WindowBudget'
    BY <2>1, <2>2, <2>4 DEF WindowBudget
  <2>6. QED
    BY <2>3, <2>5
<1>4. CASE StartWindow
  <2>1. /\ start' = now /\ admitted' = 0
        /\ now' = now /\ rate' = rate /\ tokens' = tokens /\ lastUpdate' = lastUpdate
    BY <1>4 DEF StartWindow
  <2>2. Capacity' = Capacity /\ Refill(now)' = Refill(now)
    BY <2>1 DEF Capacity, Refill
  <2>3. ASSUME rate > 0
        PROVE  0 + Refill(now) <= Capacity + rate * (now - now)
    <3>1. Refill(now) \in 0 .. Capacity /\ Capacity \in Nat
      BY <2>3, RefillRange, BucketTypes
    <3>2. rate * (now - now) = 0
      BY <1>t
    <3>3. QED
      BY <3>1, <3>2
  <2>4. WindowBudget'
    BY <2>1, <2>2, <2>3 DEF WindowBudget
  <2>5. BucketTypeOK'
    BY <1>t, <2>1, <2>2 DEF BucketTypeOK
  <2>6. QED
    BY <2>4, <2>5
<1>5. CASE UNCHANGED bucketVars
  BY <1>5 DEF bucketVars, BucketTypeOK, WindowBudget, Refill, Capacity
<1>6. QED
  BY <1>1, <1>2, <1>3, <1>4, <1>5 DEF BucketNext, AdmitUnlimited

(* The invariant holds in every state of the bucket. *)
LEMMA BucketInvAlways == BucketSpec => []BucketInv
<1>1. BucketInit => BucketInv
  <2>1. SUFFICES ASSUME BucketInit PROVE BucketInv
    OBVIOUS
  <2>2. /\ rate \in Int /\ TicksPerSecond \in Nat
        /\ now = 0 /\ lastUpdate = 0 /\ start = 0 /\ admitted = 0 /\ tokens = Capacity
        /\ rate \in Rates
    BY <2>1, BucketAssumption DEF BucketInit, NewTokenBucket
  <2>3. Capacity \in Int /\ (rate > 0 => Capacity \in Nat)
    BY <2>2, Product DEF Capacity
  <2>4. (0 - 0) * rate = 0 /\ rate * (0 - 0) = 0
    BY <2>2
  <2>5. Refill(now) = Capacity
    BY <2>2, <2>3, <2>4 DEF Refill
  <2>6. QED
    BY <2>2, <2>3, <2>4, <2>5 DEF BucketInv, BucketTypeOK, WindowBudget
<1>2. BucketInv /\ [BucketNext]_bucketVars => BucketInv'
  BY BucketStepInv
<1>3. QED
  BY <1>1, <1>2, PTL DEF BucketSpec

-----------------------------------------------------------------------------
(* Over any window a limited session gets at most its rate times the       *)
(* window plus one second's burst, for every rate, clock resolution and    *)
(* sequence of packet sizes (daemon.go:75-97).                             *)
THEOREM RateLimited == BucketSpec => []RateBound
<1>1. BucketInv => RateBound
  <2>1. SUFFICES ASSUME BucketInv, rate > 0
                 PROVE  admitted <= Capacity + rate * (now - start)
    BY DEF RateBound
  <2>2. Refill(now) \in 0 .. Capacity /\ Capacity \in Nat /\ admitted \in Nat
    BY <2>1, RefillRange, BucketTypes DEF BucketInv
  <2>3. rate * (now - start) \in Nat
    BY <2>1, BucketTypes, Product DEF BucketInv
  <2>4. QED
    BY <2>1, <2>2, <2>3 DEF BucketInv, WindowBudget
<1>2. QED
  BY <1>1, BucketInvAlways, PTL

(* The bucket never holds more than its capacity nor less than nothing,    *)
(* and never lives ahead of the clock (daemon.go:53-97).                   *)
THEOREM BucketTypeCorrect == BucketSpec => []BucketTypeOK
<1>1. BucketInv => BucketTypeOK
  BY DEF BucketInv
<1>2. QED
  BY <1>1, BucketInvAlways, PTL

-----------------------------------------------------------------------------
(* The process *)

(* The process has appended rule k. *)
Appended(k) ==
  EnableNAT /\ \/ at \in {"start", "serve", "close", "close2"}
               \/ at = "nat" /\ next > k + 1

(* The -D commands for rule k so far. *)
Tries(k) == (IF at = "close2" THEN 1 ELSE 0)
          + (IF at \in {"close", "close2"} /\ next > k THEN 1 ELSE 0)

Floor(n) == IF n < 0 THEN 0 ELSE n

(* The copies of rule k that the account predicts for the interface used. *)
Predicted(k) ==
  Floor(before[iface][k] + (IF Appended(k) THEN 1 ELSE 0) - (Tries(k) - missed[k]))

Account ==
  at # "down" =>
    \A i \in Iface, k \in Rules :
      /\ rules[i][k] = IF i = iface THEN Predicted(k) ELSE before[i][k]
      /\ missed[k] <= Tries(k)

(* Nobody leaves more than one copy, and a process starts below the bound. *)
Ledger ==
  /\ at = "down" => \A i \in Iface, k \in Rules : rules[i][k] <= lapses
  /\ at # "down" => \A i \in Iface, k \in Rules : before[i][k] <= lapses
  /\ at # "down" => lapses < MaxLapses

Forwards ==
  EnableNAT /\ (at \in {"start", "serve"} \/ (at = "nat" /\ next > 1)) => forward

(* Where the interface is known. *)
Places ==
  /\ at = "nat" => EnableNAT
  /\ at \in {"down", "new"} => next = 0 /\ iface = NoIface
  /\ at \notin {"nat", "close", "close2"} => next = 0
  /\ ~EnableNAT => iface = NoIface
  /\ at \notin {"close", "close2"} => \A k \in Rules : missed[k] = 0

ProcessInv == ProcessTypeOK /\ Places /\ Account /\ Ledger /\ Forwards

USE ProcessAssumption DEF Rules

(* The initial states. *)
LEMMA ProcessInitInv == ProcessInit => ProcessInv
BY SMT DEF ProcessInit, ProcessInv, ProcessTypeOK, Places, Account, Ledger, Forwards, NoMisses, NoRules

(* Every step keeps the invariant: one step of the proof for each action. *)
LEMMA ProcessStepInv == ProcessInv /\ [ProcessNext]_processVars => ProcessInv'
<1> SUFFICES ASSUME ProcessInv, [ProcessNext]_processVars PROVE ProcessInv'
  OBVIOUS
<1> USE DEF ProcessInv
<1>1. CASE Boot
  <2>1. ProcessTypeOK'
    BY <1>1, SMT DEF ProcessTypeOK, Places, Ledger, Boot, hostVars, process
  <2>2. Places'
    BY <1>1, SMT DEF ProcessTypeOK, Places, Boot, hostVars, process
  <2>3. Account'
    BY <1>1, SMT DEF ProcessTypeOK, Places, Account, Predicted, Appended, Tries, Floor, Boot, hostVars, process
  <2>4. Ledger'
    BY <1>1, SMT DEF ProcessTypeOK, Places, Account, Ledger, Predicted, Appended, Tries, Floor, Boot, hostVars, process
  <2>5. Forwards'
    BY <1>1, SMT DEF ProcessTypeOK, Places, Forwards, Boot, hostVars, process
  <2>6. QED
    BY <2>1, <2>2, <2>3, <2>4, <2>5
<1>2. CASE NewVPNServer
  <2>1. ProcessTypeOK'
    BY <1>2, SMT DEF ProcessTypeOK, Places, Ledger, NewVPNServer, Goes, hostVars, process
  <2>2. Places'
    BY <1>2, SMT DEF ProcessTypeOK, Places, NewVPNServer, Goes, hostVars, process
  <2>3. Account'
    BY <1>2, SMT DEF ProcessTypeOK, Places, Account, Predicted, Appended, Tries, Floor, NewVPNServer, Goes, hostVars, process
  <2>4. Ledger'
    BY <1>2, SMT DEF ProcessTypeOK, Places, Account, Ledger, Predicted, Appended, Tries, Floor, NewVPNServer, Goes, hostVars, process
  <2>5. Forwards'
    BY <1>2, SMT DEF ProcessTypeOK, Places, Forwards, NewVPNServer, Goes, hostVars, process
  <2>6. QED
    BY <2>1, <2>2, <2>3, <2>4, <2>5
<1>3. CASE Detect
  <2>1. ProcessTypeOK'
    BY <1>3, SMT DEF ProcessTypeOK, Places, Ledger, Detect, Outbound, hostVars, process
  <2>2. Places'
    BY <1>3, SMT DEF ProcessTypeOK, Places, Detect, Outbound, hostVars, process
  <2>3. Account'
    BY <1>3, SMT DEF ProcessTypeOK, Places, Account, Predicted, Appended, Tries, Floor, Detect, Outbound, hostVars, process
  <2>4. Ledger'
    BY <1>3, SMT DEF ProcessTypeOK, Places, Account, Ledger, Predicted, Appended, Tries, Floor, Detect, Outbound, hostVars, process
  <2>5. Forwards'
    BY <1>3, SMT DEF ProcessTypeOK, Places, Forwards, Detect, Outbound, hostVars, process
  <2>6. QED
    BY <2>1, <2>2, <2>3, <2>4, <2>5
<1>4. CASE EnableForwarding
  <2>1. ProcessTypeOK'
    BY <1>4, SMT DEF ProcessTypeOK, Places, Ledger, EnableForwarding, Follows, LastCommand, Goes, hostVars, process
  <2>2. Places'
    BY <1>4, SMT DEF ProcessTypeOK, Places, EnableForwarding, Follows, LastCommand, Goes, hostVars, process
  <2>3. Account'
    BY <1>4, SMT DEF ProcessTypeOK, Places, Account, Predicted, Appended, Tries, Floor, EnableForwarding, Follows, LastCommand, Goes, hostVars, process
  <2>4. Ledger'
    BY <1>4, SMT DEF ProcessTypeOK, Places, Account, Ledger, Predicted, Appended, Tries, Floor, EnableForwarding, Follows, LastCommand, Goes, hostVars, process
  <2>5. Forwards'
    BY <1>4, SMT DEF ProcessTypeOK, Places, Forwards, EnableForwarding, Follows, LastCommand, Goes, hostVars, process
  <2>6. QED
    BY <2>1, <2>2, <2>3, <2>4, <2>5
<1>5. CASE AppendRule
  <2>1. ProcessTypeOK'
    BY <1>5, SMT DEF ProcessTypeOK, Places, Ledger, AppendRule, Follows, LastCommand, Goes, hostVars, process
  <2>2. Places'
    BY <1>5, SMT DEF ProcessTypeOK, Places, AppendRule, Follows, LastCommand, Goes, hostVars, process
  <2>3. Account'
    BY <1>5, SMTT(30) DEF ProcessTypeOK, Places, Account, Predicted, Appended, Tries, Floor, AppendRule, Follows, LastCommand, Goes, hostVars, process
  <2>4. Ledger'
    BY <1>5, SMT DEF ProcessTypeOK, Places, Account, Ledger, Predicted, Appended, Tries, Floor, AppendRule, Follows, LastCommand, Goes, hostVars, process
  <2>5. Forwards'
    BY <1>5, SMT DEF ProcessTypeOK, Places, Forwards, AppendRule, Follows, LastCommand, Goes, hostVars, process
  <2>6. QED
    BY <2>1, <2>2, <2>3, <2>4, <2>5
<1>6. CASE StartupFails
  <2>1. ProcessTypeOK'
    BY <1>6, SMT DEF ProcessTypeOK, Places, Ledger, StartupFails, Ends, NoProcess, NoRules, NoMisses, hostVars, process
  <2>2. Places'
    BY <1>6, SMT DEF ProcessTypeOK, Places, StartupFails, Ends, NoProcess, NoRules, NoMisses, hostVars, process
  <2>3. Account'
    BY <1>6, SMT DEF ProcessTypeOK, Places, Account, Predicted, Appended, Tries, Floor, StartupFails, Ends, NoProcess, NoRules, NoMisses, hostVars, process
  <2>4. Ledger'
    BY <1>6, SMTT(30) DEF ProcessTypeOK, Places, Account, Ledger, Predicted, Appended, Tries, Floor, StartupFails, Ends, NoProcess, NoRules, NoMisses, hostVars, process
  <2>5. Forwards'
    BY <1>6, SMT DEF ProcessTypeOK, Places, Forwards, StartupFails, Ends, NoProcess, NoRules, NoMisses, hostVars, process
  <2>6. QED
    BY <2>1, <2>2, <2>3, <2>4, <2>5
<1>7. CASE Start
  <2>1. ProcessTypeOK'
    BY <1>7, SMT DEF ProcessTypeOK, Places, Ledger, Start, Goes, hostVars, process
  <2>2. Places'
    BY <1>7, SMT DEF ProcessTypeOK, Places, Start, Goes, hostVars, process
  <2>3. Account'
    BY <1>7, SMT DEF ProcessTypeOK, Places, Account, Predicted, Appended, Tries, Floor, Start, Goes, hostVars, process
  <2>4. Ledger'
    BY <1>7, SMT DEF ProcessTypeOK, Places, Account, Ledger, Predicted, Appended, Tries, Floor, Start, Goes, hostVars, process
  <2>5. Forwards'
    BY <1>7, SMT DEF ProcessTypeOK, Places, Forwards, Start, Goes, hostVars, process
  <2>6. QED
    BY <2>1, <2>2, <2>3, <2>4, <2>5
<1>8. CASE APICrash
  <2>1. ProcessTypeOK'
    BY <1>8, SMT DEF ProcessTypeOK, Places, Ledger, APICrash, Ends, NoProcess, NoRules, NoMisses, hostVars, process
  <2>2. Places'
    BY <1>8, SMT DEF ProcessTypeOK, Places, APICrash, Ends, NoProcess, NoRules, NoMisses, hostVars, process
  <2>3. Account'
    BY <1>8, SMT DEF ProcessTypeOK, Places, Account, Predicted, Appended, Tries, Floor, APICrash, Ends, NoProcess, NoRules, NoMisses, hostVars, process
  <2>4. Ledger'
    BY <1>8, SMT DEF ProcessTypeOK, Places, Account, Ledger, Predicted, Appended, Tries, Floor, APICrash, Ends, NoProcess, NoRules, NoMisses, hostVars, process
  <2>5. Forwards'
    BY <1>8, SMT DEF ProcessTypeOK, Places, Forwards, APICrash, Ends, NoProcess, NoRules, NoMisses, hostVars, process
  <2>6. QED
    BY <2>1, <2>2, <2>3, <2>4, <2>5
<1>9. CASE Signal
  <2>1. ProcessTypeOK'
    BY <1>9, SMT DEF ProcessTypeOK, Places, Ledger, Signal, Ends, NoProcess, NoRules, NoMisses, hostVars, process
  <2>2. Places'
    BY <1>9, SMT DEF ProcessTypeOK, Places, Signal, Ends, NoProcess, NoRules, NoMisses, hostVars, process
  <2>3. Account'
    BY <1>9, SMT DEF ProcessTypeOK, Places, Account, Predicted, Appended, Tries, Floor, Signal, Ends, NoProcess, NoRules, NoMisses, hostVars, process
  <2>4. Ledger'
    BY <1>9, SMT DEF ProcessTypeOK, Places, Account, Ledger, Predicted, Appended, Tries, Floor, Signal, Ends, NoProcess, NoRules, NoMisses, hostVars, process
  <2>5. Forwards'
    BY <1>9, SMT DEF ProcessTypeOK, Places, Forwards, Signal, Ends, NoProcess, NoRules, NoMisses, hostVars, process
  <2>6. QED
    BY <2>1, <2>2, <2>3, <2>4, <2>5
<1>10. CASE DeleteRule
  <2>1. ProcessTypeOK'
    BY <1>10, SMTT(30) DEF ProcessTypeOK, Places, Ledger, DeleteRule, CleanupIface, Cleaned, Ends, NoProcess, NoRules, NoMisses, hostVars, process
  <2>2. Places'
    BY <1>10, SMT DEF ProcessTypeOK, Places, DeleteRule, CleanupIface, Cleaned, Ends, NoProcess, NoRules, NoMisses, hostVars, process
  <2>3. Account'
    BY <1>10, SMT DEF ProcessTypeOK, Places, Account, Predicted, Appended, Tries, Floor, DeleteRule, CleanupIface, Cleaned, Ends, NoProcess, NoRules, NoMisses, hostVars, process
  <2>4. Ledger'
    BY <1>10, SMT DEF ProcessTypeOK, Places, Account, Ledger, Predicted, Appended, Tries, Floor, DeleteRule, CleanupIface, Cleaned, Ends, NoProcess, NoRules, NoMisses, hostVars, process
  <2>5. Forwards'
    BY <1>10, SMT DEF ProcessTypeOK, Places, Forwards, DeleteRule, CleanupIface, Cleaned, Ends, NoProcess, NoRules, NoMisses, hostVars, process
  <2>6. QED
    BY <2>1, <2>2, <2>3, <2>4, <2>5
<1>11. CASE DeleteFails
  <2>1. ProcessTypeOK'
    BY <1>11, SMT DEF ProcessTypeOK, Places, Account, Tries, Ledger, DeleteFails, Cleaned, Ends, NoProcess, NoRules, NoMisses, hostVars, process
  <2>2. Places'
    BY <1>11, SMT DEF ProcessTypeOK, Places, DeleteFails, Cleaned, Ends, NoProcess, NoRules, NoMisses, hostVars, process
  <2>3. Account'
    BY <1>11, SMT DEF ProcessTypeOK, Places, Account, Predicted, Appended, Tries, Floor, DeleteFails, Cleaned, Ends, NoProcess, NoRules, NoMisses, hostVars, process
  <2>4. Ledger'
    BY <1>11, SMTT(30) DEF ProcessTypeOK, Places, Account, Ledger, Predicted, Appended, Tries, Floor, DeleteFails, Cleaned, Ends, NoProcess, NoRules, NoMisses, hostVars, process
  <2>5. Forwards'
    BY <1>11, SMT DEF ProcessTypeOK, Places, Forwards, DeleteFails, Cleaned, Ends, NoProcess, NoRules, NoMisses, hostVars, process
  <2>6. QED
    BY <2>1, <2>2, <2>3, <2>4, <2>5
<1>12. CASE Killed
  <2>1. ProcessTypeOK'
    BY <1>12, SMT DEF ProcessTypeOK, Places, Ledger, Killed, Ends, NoProcess, NoRules, NoMisses, hostVars, process
  <2>2. Places'
    BY <1>12, SMT DEF ProcessTypeOK, Places, Killed, Ends, NoProcess, NoRules, NoMisses, hostVars, process
  <2>3. Account'
    BY <1>12, SMT DEF ProcessTypeOK, Places, Account, Predicted, Appended, Tries, Floor, Killed, Ends, NoProcess, NoRules, NoMisses, hostVars, process
  <2>4. Ledger'
    BY <1>12, SMT DEF ProcessTypeOK, Places, Account, Ledger, Predicted, Appended, Tries, Floor, Killed, Ends, NoProcess, NoRules, NoMisses, hostVars, process
  <2>5. Forwards'
    BY <1>12, SMT DEF ProcessTypeOK, Places, Forwards, Killed, Ends, NoProcess, NoRules, NoMisses, hostVars, process
  <2>6. QED
    BY <2>1, <2>2, <2>3, <2>4, <2>5
<1>13. CASE RouteChanges
  <2>1. ProcessTypeOK'
    BY <1>13, SMT DEF ProcessTypeOK, Places, Ledger, RouteChanges, hostVars, process
  <2>2. Places'
    BY <1>13, SMT DEF ProcessTypeOK, Places, RouteChanges, hostVars, process
  <2>3. Account'
    BY <1>13, SMT DEF ProcessTypeOK, Places, Account, Predicted, Appended, Tries, Floor, RouteChanges, hostVars, process
  <2>4. Ledger'
    BY <1>13, SMT DEF ProcessTypeOK, Places, Account, Ledger, Predicted, Appended, Tries, Floor, RouteChanges, hostVars, process
  <2>5. Forwards'
    BY <1>13, SMT DEF ProcessTypeOK, Places, Forwards, RouteChanges, hostVars, process
  <2>6. QED
    BY <2>1, <2>2, <2>3, <2>4, <2>5
<1>14. CASE HostReboots
  <2>1. ProcessTypeOK'
    BY <1>14, SMT DEF ProcessTypeOK, Places, Ledger, HostReboots, NoProcess, NoRules, NoMisses, hostVars, process
  <2>2. Places'
    BY <1>14, SMT DEF ProcessTypeOK, Places, HostReboots, NoProcess, NoRules, NoMisses, hostVars, process
  <2>3. Account'
    BY <1>14, SMT DEF ProcessTypeOK, Places, Account, Predicted, Appended, Tries, Floor, HostReboots, NoProcess, NoRules, NoMisses, hostVars, process
  <2>4. Ledger'
    BY <1>14, SMT DEF ProcessTypeOK, Places, Account, Ledger, Predicted, Appended, Tries, Floor, HostReboots, NoProcess, NoRules, NoMisses, hostVars, process
  <2>5. Forwards'
    BY <1>14, SMT DEF ProcessTypeOK, Places, Forwards, HostReboots, NoProcess, NoRules, NoMisses, hostVars, process
  <2>6. QED
    BY <2>1, <2>2, <2>3, <2>4, <2>5
<1>15. CASE UNCHANGED processVars
  <2>1. ProcessTypeOK'
    BY <1>15, SMT DEF ProcessTypeOK, Places, Ledger, processVars, hostVars, process
  <2>2. Places'
    BY <1>15, SMT DEF ProcessTypeOK, Places, processVars, hostVars, process
  <2>3. Account'
    BY <1>15, SMT DEF ProcessTypeOK, Places, Account, Predicted, Appended, Tries, Floor, processVars, hostVars, process
  <2>4. Ledger'
    BY <1>15, SMT DEF ProcessTypeOK, Places, Account, Ledger, Predicted, Appended, Tries, Floor, processVars, hostVars, process
  <2>5. Forwards'
    BY <1>15, SMT DEF ProcessTypeOK, Places, Forwards, processVars, hostVars, process
  <2>6. QED
    BY <2>1, <2>2, <2>3, <2>4, <2>5
<1>16. QED
  BY <1>1, <1>2, <1>3, <1>4, <1>5, <1>6, <1>7, <1>8, <1>9, <1>10, <1>11, <1>12, <1>13, <1>14,
     <1>15 DEF ProcessNext

LEMMA ProcessInvAlways == ProcessSpec => []ProcessInv
BY ProcessInitInv, ProcessStepInv, PTL DEF ProcessSpec

-----------------------------------------------------------------------------
(* The type invariant (main.go:22-125, daemon.go:134-205, 579-648).        *)
THEOREM ProcessTypeCorrect == ProcessSpec => []ProcessTypeOK
<1>1. ProcessInv => ProcessTypeOK
  BY DEF ProcessInv
<1>2. QED
  BY <1>1, ProcessInvAlways, PTL

(* A server that is told to NAT serves with forwarding on and with all     *)
(* three rules for the interface it found (daemon.go:579-611).             *)
THEOREM NatServing == ProcessSpec => []NatServes
<1>1. ProcessInv => NatServes
  <2> SUFFICES ASSUME ProcessInv, EnableNAT, at = "serve", NEW k \in Rules
               PROVE  forward /\ rules[iface][k] >= 1
    BY DEF NatServes
  <2>1. forward
    BY DEF ProcessInv, Forwards
  <2>2. iface \in Iface
    BY DEF ProcessInv, ProcessTypeOK
  <2>3. rules[iface][k] = Predicted(k) /\ missed[k] = 0
    BY <2>2, SMT DEF ProcessInv, Account, Places
  <2>4. Predicted(k) = before[iface][k] + 1
    BY <2>2, <2>3, SMT DEF Predicted, Appended, Tries, Floor, ProcessInv, ProcessTypeOK
  <2>5. QED
    BY <2>1, <2>2, <2>3, <2>4, SMT DEF ProcessInv, ProcessTypeOK
<1>2. QED
  BY <1>1, ProcessInvAlways, PTL

(* When no server runs, a rule has no more copies than processes since the *)
(* boot have ended without a Close that worked (daemon.go:596-631).        *)
THEOREM LeftoversBounded == ProcessSpec => []OneCopyPerLapse
<1>1. ProcessInv => OneCopyPerLapse
  BY DEF ProcessInv, Ledger, OneCopyPerLapse
<1>2. QED
  BY <1>1, ProcessInvAlways, PTL

(* The last -D of the second Close leaves of no rule more copies than the  *)
(* process found: the account at that step (daemon.go:613-631).            *)
LEMMA LastDelete ==
  ASSUME ProcessInv, at = "close2", at' = "down", lapses' = lapses,
         DeleteRule \/ DeleteFails,
         NEW i \in Iface, NEW k \in Rules
  PROVE  rules'[i][k] <= before[i][k]
<1> USE DEF ProcessInv, ProcessTypeOK
<1>1. i # iface => rules[i][k] = before[i][k]
  BY SMT DEF Account
<1>2. iface \in Iface /\ missed[k] \in 0 .. 2 /\ before[i][k] \in Nat
  BY SMT
<1>3. /\ missed[k] <= Tries(k)
      /\ i = iface => rules[i][k] = Floor(before[i][k] + 1 - (Tries(k) - missed[k]))
  BY <1>2, SMT DEF Account, Predicted, Appended
<1>4. CASE DeleteRule
  <2>1. next = 3
    BY <1>4, SMT DEF DeleteRule, Cleaned, Ends, NoProcess
  <2>2. missed[k] # 2
    BY <1>4, <2>1, SMT DEF DeleteRule, Cleaned, Ends
  <2>3. rules' = [rules EXCEPT ![iface][3] = IF @ = 0 THEN 0 ELSE @ - 1]
    BY <1>4, <2>1, SMT DEF DeleteRule, CleanupIface
  <2>4. rules'[i][k] = IF i = iface /\ k = 3 /\ rules[i][k] # 0 THEN rules[i][k] - 1 ELSE rules[i][k]
    BY <2>3, SMT
  <2>5. QED
    BY <1>1, <1>2, <1>3, <2>1, <2>2, <2>4, SMT DEF Tries, Floor
<1>5. CASE DeleteFails
  <2>1. next = 3
    BY <1>5, SMT DEF DeleteFails, Cleaned, Ends, NoProcess
  <2>2. [missed EXCEPT ![3] = @ + 1][k] # 2
    BY <1>5, <2>1, SMT DEF DeleteFails, Cleaned, Ends
  <2>3. rules' = rules
    BY <1>5 DEF DeleteFails, hostVars
  <2>4. QED
    BY <1>1, <1>2, <1>3, <2>1, <2>2, <2>3, SMT DEF Tries, Floor
<1>6. QED
  BY <1>4, <1>5

(* A shutdown in which no rule's -D failed twice leaves of no rule more    *)
(* copies than the process found, whatever the default route has done      *)
(* since (daemon.go:613-631, main.go:93, 116-124).                         *)
THEOREM ShutdownClean == ProcessSpec => ShutdownRemoves
<1>1. ASSUME ProcessInv, ProcessNext, at = "close2", at' = "down", lapses' = lapses,
             NEW i \in Iface, NEW k \in Rules
      PROVE  rules'[i][k] <= before[i][k]
  <2>1. CASE DeleteRule \/ DeleteFails
    BY <1>1, <2>1, LastDelete
  <2>2. CASE HostReboots
    BY <1>1, <2>2, SMT DEF HostReboots, NoRules, ProcessInv, ProcessTypeOK
  <2>3. ~ Killed
    BY <1>1, SMT DEF Killed, Ends, ProcessInv, ProcessTypeOK
  <2>4. QED
    BY <1>1, <2>1, <2>2, <2>3, SMT
       DEF ProcessNext, Boot, NewVPNServer, Detect, EnableForwarding, AppendRule, StartupFails,
           Start, APICrash, Signal, RouteChanges, process
<1>2. ProcessInv /\ [ProcessNext]_processVars =>
        [at = "close2" /\ at' = "down" /\ lapses' = lapses =>
           \A i \in Iface, k \in Rules : rules'[i][k] <= before[i][k]]_processVars
  BY <1>1
<1>3. QED
  BY <1>2, ProcessInvAlways, PTL DEF ProcessSpec, ShutdownRemoves

-----------------------------------------------------------------------------
(* The framing *)

(* The powers that the conversions of packet.go and the size of a frame's  *)
(* length prefix are written with.                                         *)
LEMMA Powers == 256^0 = 1 /\ 256^1 = 256 /\ 256^2 = 65536 /\ 256^3 = 16777216 /\ 2^24 = 16777216 /\ 2^16 = 65536 /\ 2^8 = 256
BY SMT
(* uint32ToIP writes the four bytes of an address and BigEndian.Uint32 of  *)
(* them gives the address back (ippool.go:178-187, packet.go:107, 119).    *)
LEMMA Recombined ==
  ASSUME NEW a \in Nat, a \div 2^24 < 2^8
  PROVE  Octet(a, 0) * 2^24 + Octet(a, 1) * 2^16 + Octet(a, 2) * 2^8 + Octet(a, 3) = a
<1>1. a \div 16777216 < 256
  BY Powers, SMT
<1>2. ((a \div 16777216) % 256) * 16777216 + ((a \div 65536) % 256) * 65536
        + ((a \div 256) % 256) * 256 + (a % 256) = a
  BY <1>1, SMTT(60)
<1>3. /\ Octet(a, 0) = (a \div 16777216) % 256
      /\ Octet(a, 1) = (a \div 65536) % 256
      /\ Octet(a, 2) = (a \div 256) % 256
      /\ Octet(a, 3) = a % 256
  <2>1. 3 - 0 = 3 /\ 3 - 1 = 2 /\ 3 - 2 = 1 /\ 3 - 3 = 0 /\ a \div 1 = a
    BY SMT
  <2>2. QED
    BY <2>1, Powers, SMT DEF Octet
<1>4. 2^24 = 16777216 /\ 2^16 = 65536 /\ 2^8 = 256
  BY Powers, SMT
<1>5. QED
  BY <1>2, <1>3, <1>4, SMT

-----------------------------------------------------------------------------
(* What becomes of a packet of a given length: how long its frame can be,  *)
(* that a genuine frame's prefix is that length, and that what was read is *)
(* the packet that was written.                                            *)
FrameExact ==
  /\ pkt.len + MaxExtra <= OutBuf => stage # "overrun"
  /\ stage = "wire" => pkt \in Packets /\ frame.len <= pkt.len + MaxExtra
  /\ stage = "wire" /\ frame.genuine => frame.prefix = pkt.len /\ frame.inner >= pkt.len + 2
  /\ stage = "read" => pkt \in Packets /\ frame.genuine /\ got = Cut(pkt, Copied(pkt.len))

FramingInv == FramingTypeOK /\ FrameExact

(* The sizes of conn.go:10, client.go:375 and crypto.go:51-55.             *)
LEMMA FramingConstants ==
  /\ OutBuf \in Nat /\ InBuf \in Nat /\ PathMTU \in Nat /\ Lengths \subseteq Nat
  /\ OutBuf < 2^16 /\ InBuf + MaxExtra <= OutBuf /\ InBuf + MaxExtra + IPUDP <= PathMTU
  /\ MaxExtra = 109 /\ IPUDP = 28
BY FramingAssumption, Powers, SMT DEF MaxExtra, HeaderSize, Overhead, IPUDP

(* A packet's length is a number (crypto.go:51).                           *)
LEMMA PacketFields ==
  ASSUME NEW p \in Packets \cup {NoPacket}
  PROVE  p.len \in Nat
<1>1. Lengths \subseteq Nat
  BY FramingAssumption
<1>2. CASE p \in Packets
  <2>1. p.len \in Lengths
    BY <1>2, Zenon DEF Packets
  <2>2. QED
    BY <1>1, <2>1, Zenon
<1>3. CASE p = NoPacket
  BY <1>3 DEF NoPacket
<1>4. QED
  BY <1>2, <1>3

(* What the prefix and a reader's buffer can hold are numbers.             *)
LEMMA Ranges == 0 .. 2^16 - 1 \subseteq Nat /\ 0 .. InBuf \subseteq Nat /\ 0 \in 0 .. InBuf
<1>1. InBuf \in Nat
  BY FramingConstants
<1>2. QED
  BY <1>1, Powers, SMT

(* The frame of a packet of n bytes is 46 bytes and the padding longer; if *)
(* it fits the buffer, n fits the 16 bits of the prefix; and it fits the   *)
(* buffer unless n is one of the last lengths (crypto.go:51-89).           *)
LEMMA SealedFits ==
  ASSUME NEW n \in Nat, NEW pad \in 0 .. 63
  PROVE  /\ HeaderSize + 2 + n + pad + Overhead \in Nat /\ 2 + n + pad \in Nat
         /\ n % 2^16 \in 0 .. 2^16 - 1
         /\ HeaderSize + 2 + n + pad + Overhead <= n + MaxExtra /\ 2 + n + pad >= n + 2
         /\ n + MaxExtra <= OutBuf => HeaderSize + 2 + n + pad + Overhead <= OutBuf
         /\ HeaderSize + 2 + n + pad + Overhead <= OutBuf => n % 2^16 = n
BY FramingConstants, Powers, SMT DEF HeaderSize, Overhead, MaxExtra

(* The lengths of damaged frames, and what a reader copies of m bytes      *)
(* (conn.go:32-53).                                                        *)
LEMMA CutLengths ==
  ASSUME NEW m \in Nat
  PROVE  /\ 0 \in Nat /\ 0 <= m + MaxExtra
         /\ HeaderSize + Overhead + 1 \in Nat /\ HeaderSize + Overhead + 1 <= m + MaxExtra
         /\ Copied(m) \in 0 .. InBuf
BY FramingConstants, SMT DEF HeaderSize, Overhead, Copied

(* The types of the fields of a packet and of its frame (crypto.go:67-89). *)
LEMMA FramingFields ==
  ASSUME FramingTypeOK
  PROVE  /\ pkt.len \in Nat /\ frame.len \in Nat /\ frame.inner \in Nat
         /\ frame.prefix \in Nat /\ frame.genuine \in BOOLEAN /\ got.len \in Nat
<1>1. pkt.len \in Nat
  BY PacketFields, Zenon DEF FramingTypeOK
<1>2. frame.len \in Nat /\ frame.inner \in Nat /\ frame.genuine \in BOOLEAN
  BY Zenon DEF FramingTypeOK
<1>3. frame.prefix \in 0 .. 2^16 - 1 /\ got.len \in 0 .. InBuf
  BY Zenon DEF FramingTypeOK
<1>4. frame.prefix \in Nat /\ got.len \in Nat
  BY <1>3, Ranges, Zenon
<1>5. QED
  BY <1>1, <1>2, <1>4, Zenon

(* Before a packet is written there is a frame of no bytes.                *)
LEMMA EmptyFrame ==
  /\ NoFrame \in [len : Nat, inner : Nat, prefix : 0 .. 2^16 - 1, genuine : BOOLEAN]
  /\ NoPacket.len \in 0 .. InBuf
<1>1. 0 \in Nat /\ 0 \in 0 .. 2^16 - 1
  BY Powers, SMT
<1>2. QED
  BY <1>1, Ranges, Zenon DEF NoFrame, NoPacket

(* Nothing has been written.                                               *)
LEMMA FramingInitInv ==
  ASSUME FramingInit
  PROVE  FramingInv
<1>1. /\ stage = "idle" /\ pkt = NoPacket /\ got = NoPacket
      /\ frame = NoFrame
  BY DEF FramingInit
<1>2. frame \in [len : Nat, inner : Nat, prefix : 0 .. 2^16 - 1, genuine : BOOLEAN]
  BY <1>1, EmptyFrame, Zenon
<1>3. got.len \in 0 .. InBuf
  BY <1>1, EmptyFrame, Zenon
<1>4. QED
  BY <1>1, <1>2, <1>3, Zenon DEF FramingInv, FramingTypeOK, FrameExact

(* A frame is 46 bytes and the padding longer than its packet; when it is  *)
(* in the buffer, the length fits the 16 bits of the prefix                *)
(* (crypto.go:51-89, conn.go:57-70).                                       *)
LEMMA ObfuscateInv ==
  ASSUME FramingInv, NEW p \in Packets, NEW pad \in Pads, ObfuscateTo(p, pad)
  PROVE  FramingInv'
<1>1. /\ stage' = IF Sealed(p.len, pad).len <= OutBuf THEN "wire" ELSE "overrun"
      /\ pkt' = p /\ frame' = Sealed(p.len, pad) /\ got' = got
  BY DEF ObfuscateTo
<1>2. p.len \in Nat /\ pad \in 0 .. 63
  BY PacketFields DEF Pads
<1>3. /\ Sealed(p.len, pad).len = HeaderSize + 2 + p.len + pad + Overhead
      /\ Sealed(p.len, pad).inner = 2 + p.len + pad
      /\ Sealed(p.len, pad).prefix = p.len % 2^16
      /\ Sealed(p.len, pad).genuine = TRUE
  BY Zenon DEF Sealed
<1>4. Sealed(p.len, pad) \in [len : Nat, inner : Nat, prefix : 0 .. 2^16 - 1, genuine : BOOLEAN]
  BY <1>2, SealedFits, Zenon DEF Sealed
<1>5. FramingTypeOK'
  BY <1>1, <1>4, Zenon DEF FramingInv, FramingTypeOK
<1>6. LET l == HeaderSize + 2 + p.len + pad + Overhead IN
          /\ l <= p.len + MaxExtra /\ 2 + p.len + pad >= p.len + 2
          /\ p.len + MaxExtra <= OutBuf => l <= OutBuf
          /\ l <= OutBuf => p.len % 2^16 = p.len
  BY <1>2, SealedFits, Zenon
<1>7. frame'.len = HeaderSize + 2 + p.len + pad + Overhead
  BY <1>1, <1>3, Zenon
<1>8. stage' = "wire" => frame'.prefix = p.len
  <2>1. stage' = "wire" => frame'.len <= OutBuf
    BY <1>1, Zenon
  <2>2. frame'.prefix = p.len % 2^16
    BY <1>1, <1>3, Zenon
  <2>3. QED
    BY <1>6, <1>7, <2>1, <2>2, Zenon
<1>9. p.len + MaxExtra <= OutBuf => stage' # "overrun"
  <2>1. frame'.len <= OutBuf => stage' # "overrun"
    BY <1>1, Zenon
  <2>2. QED
    BY <1>6, <1>7, <2>1, Zenon
<1>10. frame'.len <= p.len + MaxExtra /\ frame'.inner >= p.len + 2
  <2>1. frame'.inner = 2 + p.len + pad
    BY <1>1, <1>3, Zenon
  <2>2. QED
    BY <1>6, <1>7, <2>1, Zenon
<1>11. stage' # "read"
  BY <1>1, Zenon
<1>12. FrameExact'
  BY <1>1, <1>8, <1>9, <1>10, <1>11, Zenon DEF FrameExact
<1>13. QED
  BY <1>5, <1>12, Zenon DEF FramingInv

(* A frame that was cut or changed on the way is no longer genuine.        *)
LEMMA DamageInv ==
  ASSUME FramingInv, NEW n \in {0, HeaderSize + Overhead + 1, frame.len}, Damage(n)
  PROVE  FramingInv'
<1>1. /\ stage = "wire" /\ stage' = stage /\ pkt' = pkt /\ got' = got
      /\ frame' = [frame EXCEPT !.len = n, !.genuine = FALSE]
  BY Zenon DEF Damage
<1>2. frame \in [len : Nat, inner : Nat, prefix : 0 .. 2^16 - 1, genuine : BOOLEAN]
  BY Zenon DEF FramingInv, FramingTypeOK
<1>3. n \in Nat /\ n <= pkt.len + MaxExtra
  <2>1. pkt.len \in Nat /\ frame.len \in Nat /\ frame.len <= pkt.len + MaxExtra
    BY <1>1, FramingFields, Zenon DEF FramingInv, FrameExact
  <2>2. QED
    BY <2>1, CutLengths, Zenon
<1>4. /\ frame' \in [len : Nat, inner : Nat, prefix : 0 .. 2^16 - 1, genuine : BOOLEAN]
      /\ frame'.len = n /\ ~frame'.genuine
  BY <1>1, <1>2, <1>3, Zenon
<1>5. QED
  BY <1>1, <1>3, <1>4, Zenon DEF FramingInv, FramingTypeOK, FrameExact

(* Deobfuscate finds the payload by the prefix, and the copy ends where the*)
(* reader's buffer does (crypto.go:93-126, conn.go:32-53).                 *)
LEMMA ReadFromInv ==
  ASSUME FramingInv, ReadFrom
  PROVE  FramingInv'
<1>1. /\ stage = "wire" /\ stage' = "read" /\ pkt' = pkt /\ frame' = frame
      /\ got' = Cut(pkt, Copied(Payload(frame)))
      /\ frame.genuine /\ frame.prefix = pkt.len /\ pkt \in Packets
  BY Zenon DEF ReadFrom, Opens, FramingInv, FrameExact
<1>2. Copied(pkt.len) \in 0 .. InBuf
  BY FramingFields, CutLengths, Zenon DEF FramingInv
<1>3. Cut(pkt, Copied(pkt.len)).len = Copied(pkt.len)
  BY <1>1, Zenon DEF Cut, Packets
<1>4. got' = Cut(pkt, Copied(pkt.len)) /\ got'.len \in 0 .. InBuf
  BY <1>1, <1>2, <1>3, Zenon DEF Payload
<1>5. FramingTypeOK'
  BY <1>1, <1>4, Zenon DEF FramingInv, FramingTypeOK
<1>6. FrameExact'
  BY <1>1, <1>4, Zenon DEF FrameExact
<1>7. QED
  BY <1>5, <1>6 DEF FramingInv

(* Every step of the packet keeps the invariant.                           *)
LEMMA FramingStepInv ==
  ASSUME FramingInv, [FramingNext]_framingVars
  PROVE  FramingInv'
<1>1. ASSUME NEW p \in Packets, Refuse(p) PROVE FramingInv'
  BY <1>1, Zenon DEF Refuse, FramingInv, FramingTypeOK, FrameExact
<1>2. ASSUME NEW p \in Packets, NEW pad \in Pads, ObfuscateTo(p, pad) PROVE FramingInv'
  BY <1>2, ObfuscateInv, Zenon
<1>3. ASSUME NEW n \in {0, HeaderSize + Overhead + 1, frame.len}, Damage(n) PROVE FramingInv'
  BY <1>3, DamageInv, Zenon
<1>4. CASE Lost \/ Discard
  BY <1>4, Zenon DEF Lost, Discard, FramingInv, FramingTypeOK, FrameExact
<1>5. CASE ReadFrom
  BY <1>5, ReadFromInv, Zenon
<1>6. CASE Again
  <2>1. FramingTypeOK' /\ stage' = "idle"
    <3>1. /\ stage' = "idle" /\ pkt' = NoPacket /\ frame' = NoFrame /\ got' = NoPacket
      BY <1>6 DEF Again
    <3>2. QED
      BY <3>1, EmptyFrame, Zenon DEF FramingTypeOK
  <2>2. pkt' = NoPacket /\ frame' = NoFrame /\ got' = NoPacket
    BY <1>6, Zenon DEF Again
  <2>3. QED
    BY <2>1, <2>2, Zenon DEF FramingInv, FrameExact
<1>7. CASE UNCHANGED framingVars
  BY <1>7, Zenon DEF framingVars, FramingInv, FramingTypeOK, FrameExact
<1>8. QED
  BY <1>1, <1>2, <1>3, <1>4, <1>5, <1>6, <1>7, Zenon DEF FramingNext

(* The invariant holds wherever the packet is.                             *)
LEMMA FramingInvAlways == FramingSpec => []FramingInv
<1>1. FramingInit => FramingInv
  BY FramingInitInv
<1>2. FramingInv /\ [FramingNext]_framingVars => FramingInv'
  BY FramingStepInv
<1>3. QED
  BY <1>1, <1>2, PTL DEF FramingSpec

-----------------------------------------------------------------------------
(* The framing's types: a caller of ReadFrom never gets more than its      *)
(* buffer holds (conn.go:32-53).                                           *)
THEOREM FramingTypeCorrect == FramingSpec => []FramingTypeOK
<1>1. FramingInv => FramingTypeOK
  BY DEF FramingInv
<1>2. QED
  BY <1>1, FramingInvAlways, PTL

(* For every length of packet and every padding: what a tunnel can read    *)
(* neither overruns the buffer nor needs a fragment, and the lengths that  *)
(* can overrun the buffer are the last 63 that pass the size check         *)
(* (crypto.go:51-89, conn.go:57-70, client.go:375).                        *)
THEOREM FramesFit == FramingSpec => []FrameFits
<1>1. FramingInv => FrameFits
  <2>1. SUFFICES ASSUME FramingInv PROVE FrameFits
    OBVIOUS
  <2>2. pkt.len \in Nat /\ frame.len \in Nat
    BY <2>1, FramingFields DEF FramingInv
  <2>3. QED
    BY <2>1, <2>2, FramingConstants DEF FramingInv, FrameExact, FrameFits
<1>2. QED
  BY <1>1, FramingInvAlways, PTL

(* For every packet, padding and damage: what ReadFrom returns is what was *)
(* written, and for every IPv4 address the relay's key is the pool's       *)
(* (crypto.go:93-126, packet.go:107, 119, ippool.go:178-187).              *)
THEOREM PacketsReturn == FramingSpec => []RoundTrip
<1>1. FramingInv => RoundTrip
  <2>1. SUFFICES ASSUME FramingInv, stage = "read"
                 PROVE  /\ frame.genuine /\ got = Cut(pkt, Copied(pkt.len))
                        /\ SrcIPUint32(got) = pkt.src /\ DstIPUint32(got) = pkt.dst
    BY DEF RoundTrip
  <2>2. pkt \in Packets /\ frame.genuine /\ got = Cut(pkt, Copied(pkt.len))
    BY <2>1 DEF FramingInv, FrameExact
  <2>3. got.src = pkt.src /\ got.dst = pkt.dst
    BY <2>2 DEF Cut, Packets
  <2>4. /\ pkt.src \in Nat /\ pkt.src \div 2^24 < 2^8
        /\ pkt.dst \in Nat /\ pkt.dst \div 2^24 < 2^8
    BY <2>2, FramingAssumption DEF Packets
  <2>5. SrcIPUint32(got) = pkt.src
    <3>1. /\ Byte(got, 12) = Octet(got.src, 0) /\ Byte(got, 13) = Octet(got.src, 1)
          /\ Byte(got, 14) = Octet(got.src, 2) /\ Byte(got, 15) = Octet(got.src, 3)
      BY DEF Byte
    <3>2. SrcIPUint32(got) = Octet(got.src, 0) * 2^24 + Octet(got.src, 1) * 2^16
                               + Octet(got.src, 2) * 2^8 + Octet(got.src, 3)
      BY <3>1, SMT DEF SrcIPUint32, Uint32
    <3>3. QED
      BY <3>2, <2>3, <2>4, Recombined
  <2>6. DstIPUint32(got) = pkt.dst
    <3>1. /\ Byte(got, 16) = Octet(got.dst, 0) /\ Byte(got, 17) = Octet(got.dst, 1)
          /\ Byte(got, 18) = Octet(got.dst, 2) /\ Byte(got, 19) = Octet(got.dst, 3)
      BY DEF Byte
    <3>2. DstIPUint32(got) = Octet(got.dst, 0) * 2^24 + Octet(got.dst, 1) * 2^16
                               + Octet(got.dst, 2) * 2^8 + Octet(got.dst, 3)
      BY <3>1, SMT DEF DstIPUint32, Uint32
    <3>3. QED
      BY <3>2, <2>3, <2>4, Recombined
  <2>7. QED
    BY <2>2, <2>5, <2>6
<1>2. QED
  BY <1>1, FramingInvAlways, PTL
=============================================================================
