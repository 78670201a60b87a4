--------------------------- MODULE MCLocalDaemon ---------------------------
(* The instance of LocalDaemon for TLC. *)
EXTENDS LocalDaemon
=============================================================================
