---------------------------- MODULE TokenBucket -----------------------------
(***************************************************************************)
(* The rate limiter of a session, TokenBucket of server/daemon/daemon.go.  *)
(*                                                                         *)
(* Time is counted in ticks, and tokens in the share of a byte that one    *)
(* tick brings at the smallest rate, so that the float arithmetic of the   *)
(* code is exact here: a bucket of rate r gains r tokens a tick and holds  *)
(* at most r * TicksPerSecond, one second's worth.  Allow reads the        *)
(* monotonic clock under the bucket's mutex.                               *)
(*                                                                         *)
(* An observer starts a window at any moment and counts what is admitted.  *)
(***************************************************************************)
EXTENDS Integers

CONSTANTS
  Rates,           \* rates of a bucket; 0 and below mean unlimited
  TicksPerSecond,
  Sizes,           \* sizes of the packets that are offered
  MaxTime          \* how long the clock runs (bound)

ASSUME BucketAssumption ==
  /\ Rates \subseteq Int
  /\ TicksPerSecond \in Nat \ {0}
  /\ Sizes \subseteq Nat
  /\ MaxTime \in Nat

VARIABLES
  rate, tokens, lastUpdate,  \* the bucket
  now,                       \* the clock
  start, admitted            \* the observer: the window's start, what the bucket admitted

bucketVars == <<rate, tokens, lastUpdate, now, start, admitted>>

Capacity == rate * TicksPerSecond

NewTokenBucket ==
  /\ rate \in Rates
  /\ tokens = Capacity
  /\ lastUpdate = now

BucketInit ==
  /\ now = 0
  /\ NewTokenBucket
  /\ start = 0
  /\ admitted = 0

-----------------------------------------------------------------------------
(* The tokens at time t: what has come in since the last call, capped. *)
Refill(t) ==
  LET filled == tokens + (t - lastUpdate) * rate
  IN  IF filled > Capacity THEN Capacity ELSE filled

(* Faulty variant: a refused packet does not move the time of the update,  *)
(* so the same interval is credited again.                                 *)
DenyKeepsTime(n) ==
  /\ rate > 0
  /\ Refill(now) < n
  /\ tokens' = Refill(now)
  /\ UNCHANGED <<rate, lastUpdate, now, start, admitted>>

(* Allow(n) returns false. *)
Deny(n) ==
  /\ rate > 0
  /\ Refill(now) < n
  /\ tokens' = Refill(now)
  /\ lastUpdate' = now
  /\ UNCHANGED <<rate, now, start, admitted>>

(* Allow(n) returns true out of the bucket. *)
Admit(n) ==
  /\ rate > 0
  /\ Refill(now) >= n
  /\ tokens' = Refill(now) - n
  /\ lastUpdate' = now
  /\ admitted' = admitted + n
  /\ UNCHANGED <<rate, now, start>>

(* Allow returns true at once: the session is not limited, and nothing is  *)
(* counted.                                                                *)
AdmitUnlimited ==
  /\ rate <= 0
  /\ UNCHANGED bucketVars

-----------------------------------------------------------------------------
Tick ==
  /\ now < MaxTime
  /\ now' = now + 1
  /\ UNCHANGED <<rate, tokens, lastUpdate, start, admitted>>

(* The observer begins to count afresh. *)
StartWindow ==
  /\ start' = now
  /\ admitted' = 0
  /\ UNCHANGED <<rate, tokens, lastUpdate, now>>

BucketNext ==
  \/ \E n \in Sizes : Deny(n) \/ Admit(n)
  \/ AdmitUnlimited
  \/ Tick
  \/ StartWindow

BucketSpec == BucketInit /\ [][BucketNext]_bucketVars

-----------------------------------------------------------------------------
(* Properties *)

(* Type invariant: a limited bucket holds between nothing and one second's *)
(* worth of tokens, and its clock does not run ahead (daemon.go:86-92).    *)
BucketTypeOK ==
  /\ rate \in Rates
  /\ now \in Nat
  /\ lastUpdate \in 0 .. now
  /\ start \in 0 .. now
  /\ admitted \in Nat
  /\ tokens \in Int
  /\ rate > 0 => tokens \in 0 .. Capacity

(* In whatever window, and however the calls of Allow fall in it, a        *)
(* limited session gets at most its rate times the window's length plus    *)
(* one second's burst (daemon.go:68, 84-95).                               *)
RateBound == rate > 0 => admitted <= Capacity + rate * (now - start)

(* What makes RateBound inductive: the tokens that could be spent now      *)
(* count as admitted already.                                              *)
WindowBudget == rate > 0 => admitted + Refill(now) <= Capacity + rate * (now - start)
=============================================================================
