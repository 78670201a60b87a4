---------------------------- MODULE MCDataPlane -----------------------------
(* Instances of DataPlane for TLC. *)
EXTENDS DataPlane, TLC

(* A /29 with room for two clients. *)
TwoSlots ==
  {[base |-> 0, size |-> 8, maxClients |-> 2, cpus |-> 1, memKB |-> Unreadable]}

(* A /30, whose only client slot every connection competes for. *)
OneSlot ==
  {[base |-> 0, size |-> 4, maxClients |-> 0, cpus |-> 1, memKB |-> Unreadable]}

RelaySymmetry == Permutations(Conn) \cup Permutations(Ports)
=============================================================================
