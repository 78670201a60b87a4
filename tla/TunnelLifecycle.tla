-------------------------- MODULE TunnelLifecycle --------------------------
(***************************************************************************)
(* What the client engine promises about its goroutine and its TUN device, *)
(* without sockets, sessions or retries.  VPNClient implements it;         *)
(* LocalDaemon and Bridge are built on it, one tunnel for every engine.     *)
(*                                                                         *)
(*   phase   "new", "running", "stopping" (Stop holds the lock), "stopped" *)
(*   alive   connectionWatcher is running                                  *)
(*   device  "none", "new" (created, not yet in c.tunDev) or "held"        *)
(*                                                                         *)
(* Each operator below is the set of states that one event leads to: it is *)
(* empty when the event cannot happen.                                     *)
(***************************************************************************)

VARIABLE tunnel

Tunnels == [phase : {"new", "running", "stopping", "stopped"}, alive : BOOLEAN,
            device : {"none", "new", "held"}]

To(guard, t) == IF guard THEN {t} ELSE {}

WithDevice(d) == [phase |-> tunnel.phase, alive |-> tunnel.alive, device |-> d]

(* A device may have been injected before Start. *)
LifeInit ==
  tunnel \in {t \in Tunnels : t.phase = "new" /\ ~t.alive /\ t.device # "new"}

Started ==
  To(tunnel.phase = "new", [phase |-> "running", alive |-> TRUE, device |-> tunnel.device])

Cancelled == To(tunnel.phase = "running", [tunnel EXCEPT !.phase = "stopping"])

(* Stop closes the device it finds in c.tunDev, and only that. *)
Released ==
  To(tunnel.phase = "stopping",
     [phase |-> "stopped", alive |-> tunnel.alive,
      device |-> IF tunnel.device = "held" THEN "none" ELSE tunnel.device])

(* A reconnect closes the old device first, under the lock. *)
Dropped ==
  To(tunnel.alive /\ tunnel.phase # "stopping" /\ tunnel.device = "held", WithDevice("none"))

Opened == To(tunnel.alive /\ tunnel.device = "none", WithDevice("new"))

Held == To(tunnel.alive /\ tunnel.device = "new", WithDevice("held"))

Ended ==
  To(tunnel.alive /\ tunnel.phase \in {"stopping", "stopped"} /\ tunnel.device # "new",
     [tunnel EXCEPT !.alive = FALSE])

LifeNext ==
  tunnel' \in Started \cup Cancelled \cup Released \cup Dropped \cup Opened \cup Held \cup Ended

LifeSpec == LifeInit /\ [][LifeNext]_tunnel
=============================================================================
