---------------------------- MODULE AddressLease ----------------------------
(***************************************************************************)
(* What the server promises about tunnel addresses.  While it serves, an   *)
(* address is granted to one connection at a time and only out of the      *)
(* fixed client range.  Once Close has been called the promise is only     *)
(* that grants still come from the client range: Close takes addresses     *)
(* back from under the connections that hold them.                         *)
(***************************************************************************)
CONSTANTS Conn, NoAddr

VARIABLES
  range,    \* the addresses that may be granted
  stopped,  \* Close has been called
  lease     \* lease[c]: the address connection c was granted, or NoAddr

leaseVars == <<range, stopped, lease>>

LeaseInit ==
  /\ NoAddr \notin range
  /\ stopped = FALSE
  /\ lease = [c \in Conn |-> NoAddr]

Grant(c, a) ==
  /\ lease[c] = NoAddr
  /\ a \in range
  /\ stopped \/ \A d \in Conn : lease[d] # a
  /\ lease' = [lease EXCEPT ![c] = a]
  /\ UNCHANGED <<range, stopped>>

Drop(c) ==
  /\ lease[c] # NoAddr
  /\ lease' = [lease EXCEPT ![c] = NoAddr]
  /\ UNCHANGED <<range, stopped>>

Stop ==
  /\ stopped' = TRUE
  /\ UNCHANGED <<range, lease>>

LeaseNext ==
  \/ \E c \in Conn : Drop(c) \/ \E a \in range : Grant(c, a)
  \/ Stop

LeaseSpec == LeaseInit /\ [][LeaseNext]_leaseVars
=============================================================================
