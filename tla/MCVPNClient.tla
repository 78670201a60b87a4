---------------------------- MODULE MCVPNClient ----------------------------
(* Instances of VPNClient for TLC. *)
EXTENDS VPNClient

(* A server that accepts the client's protocol as well. *)
CommonProtos == {"h3", "vpn8-quic"}

(* The server of this repository (daemon.go:168). *)
DaemonProtos == {"h3"}
=============================================================================
