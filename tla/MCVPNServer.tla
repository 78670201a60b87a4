---------------------------- MODULE MCVPNServer -----------------------------
(* The instance of VPNServer for TLC. *)
EXTENDS VPNServer

(* A /30, whose only client slot every connection competes for, and a /29  *)
(* with room for two clients.                                              *)
OneAndTwoSlots ==
  {[base |-> 0, size |-> s, maxClients |-> 2, cpus |-> 1, memKB |-> Unreadable] :
     s \in {4, 8}}
=============================================================================
