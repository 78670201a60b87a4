---------------------------- MODULE MCReconnect -----------------------------
(* The instance of Reconnect for TLC. *)
EXTENDS Reconnect

(* A /29 with room for three clients. *)
ThreeSlots ==
  {[base |-> 0, size |-> 8, maxClients |-> 3, cpus |-> 1, memKB |-> Unreadable]}
=============================================================================
