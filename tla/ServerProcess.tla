--------------------------- MODULE ServerProcess ----------------------------
(***************************************************************************)
(* The server process from its start to its end, server/cmd/main.go, and   *)
(* the NAT rules it leaves in the kernel: NewVPNServer, setupNAT,          *)
(* cleanupNAT and detectOutboundInterface of server/daemon/daemon.go.      *)
(*                                                                         *)
(* The rules outlive the process: a container with "restart: always" on    *)
(* the host's network starts the next process on what the last one left.   *)
(* iptables and ip are external: -A appends a copy of a rule, -D removes   *)
(* one copy and fails when there is none, and either may fail (another     *)
(* iptables holds the lock).  What the process does while it serves is in  *)
(* VPNServer and DataPlane.                                                *)
(***************************************************************************)
EXTENDS Integers, FiniteSets

CONSTANTS
  Iface,      \* network interfaces of the host
  OutIface,   \* OUT_IFACE: an interface, or NoIface to detect one
  NoIface,
  EnableNAT,  \* ENABLE_NAT
  MaxLapses   \* processes that end without Close between two boots (bound)

ASSUME ProcessAssumption ==
  /\ NoIface \notin Iface
  /\ OutIface \in Iface \cup {NoIface}
  /\ EnableNAT \in BOOLEAN
  /\ MaxLapses \in Nat

VARIABLES
  route,    \* the interface of the default route, or NoIface
  rules,    \* rules[i][k]: copies of rule k for interface i
  forward,  \* net.ipv4.ip_forward
  at,       \* where the process is
  next,     \* the command of setupNAT or cleanupNAT that comes next
  iface,    \* s.natIface
  before,   \* the rules that the process found
  missed,   \* missed[k]: how many -D of rule k have failed
  lapses    \* processes since the boot whose Close did not do its work

hostVars    == <<route, rules, forward>>
process     == <<at, next, iface, before, missed>>
processVars == <<hostVars, process, lapses>>

(* MASQUERADE and the two FORWARD rules, in the order of the commands. *)
Rules == 1 .. 3

NoRules == [i \in Iface |-> [k \in Rules |-> 0]]

NoMisses == [k \in Rules |-> 0]

ProcessInit ==
  /\ route \in Iface \cup {NoIface}
  /\ rules = NoRules
  /\ forward \in BOOLEAN
  /\ at = "down" /\ next = 0 /\ iface = NoIface /\ before = NoRules /\ missed = NoMisses
  /\ lapses = 0

Goes(to) == at' = to /\ next' = 0 /\ UNCHANGED <<iface, before, missed>>

(* The process ends; lapse says whether it should have cleaned up. *)
NoProcess ==
  at' = "down" /\ next' = 0 /\ iface' = NoIface /\ before' = NoRules /\ missed' = NoMisses

Ends(lapse) == NoProcess /\ lapses' = IF lapse THEN lapses + 1 ELSE lapses

-----------------------------------------------------------------------------
(* Start *)

Boot ==
  /\ at = "down" /\ lapses < MaxLapses
  /\ at' = "new" /\ before' = rules
  /\ UNCHANGED <<hostVars, next, iface, missed, lapses>>

(* NewVPNServer up to the NAT rules: the pool and the device. *)
NewVPNServer ==
  /\ at = "new"
  /\ Goes(IF EnableNAT THEN "nat" ELSE "start")
  /\ UNCHANGED <<hostVars, lapses>>

Outbound == IF OutIface = NoIface THEN route ELSE OutIface

(* setupNAT finds the interface, which cleanupNAT will use too. *)
Detect ==
  /\ at = "nat" /\ next = 0
  /\ Outbound # NoIface
  /\ next' = 1 /\ iface' = Outbound
  /\ UNCHANGED <<hostVars, at, before, missed, lapses>>

(* sysctl is command 1, and rule k is appended by command k + 1. *)
LastCommand == 4

Follows == IF next = LastCommand THEN Goes("start")
           ELSE next' = next + 1 /\ UNCHANGED <<at, iface, before, missed>>

EnableForwarding ==
  /\ at = "nat" /\ next = 1
  /\ forward' = TRUE
  /\ Follows
  /\ UNCHANGED <<route, rules, lapses>>

AppendRule ==
  /\ at = "nat" /\ next - 1 \in Rules
  /\ rules' = [rules EXCEPT ![iface][next - 1] = @ + 1]
  /\ Follows
  /\ UNCHANGED <<route, forward, lapses>>

(* An error of NewVPNServer or of Start: log.Fatalf, which runs no         *)
(* deferred Close.  setupNAT without a default route always ends here.     *)
StartupFails ==
  /\ at \in {"new", "nat", "start"}
  /\ Ends(TRUE)
  /\ UNCHANGED hostVars

Start ==
  /\ at = "start"
  /\ Goes("serve")
  /\ UNCHANGED <<hostVars, lapses>>

-----------------------------------------------------------------------------
(* End *)

(* log.Fatalf of the API server's goroutine. *)
APICrash ==
  /\ at = "serve"
  /\ Ends(TRUE)
  /\ UNCHANGED hostVars

(* SIGINT or SIGTERM: main calls Close, and its deferred Close follows. *)
Signal ==
  /\ at = "serve"
  /\ IF EnableNAT
     THEN at' = "close" /\ next' = 1 /\ UNCHANGED <<iface, before, missed, lapses>>
     ELSE Ends(FALSE)
  /\ UNCHANGED hostVars

(* Faulty variant: cleanupNAT looks the default route up again. *)
CleanupIfaceNow == IF route = NoIface THEN iface ELSE route

CleanupIface == iface

(* After rule 3 the first Close is done, and after its second -D rule 3    *)
(* ends the process.  A rule whose -D failed twice has stayed.             *)
Cleaned(misses) ==
  IF at = "close2" /\ next = 3 THEN Ends(\E k \in Rules : misses[k] = 2)
  ELSE /\ at' = IF next = 3 THEN "close2" ELSE at
       /\ next' = IF next = 3 THEN 1 ELSE next + 1
       /\ missed' = misses
       /\ UNCHANGED <<iface, before, lapses>>

DeleteRule ==
  /\ at \in {"close", "close2"}
  /\ rules' = [rules EXCEPT ![CleanupIface][next] = IF @ = 0 THEN 0 ELSE @ - 1]
  /\ Cleaned(missed)
  /\ UNCHANGED <<route, forward>>

(* The command's error is not looked at. *)
DeleteFails ==
  /\ at \in {"close", "close2"}
  /\ Cleaned([missed EXCEPT ![next] = @ + 1])
  /\ UNCHANGED hostVars

(* SIGKILL, or the kernel's OOM killer. *)
Killed ==
  /\ at # "down"
  /\ Ends(TRUE)
  /\ UNCHANGED hostVars

-----------------------------------------------------------------------------
(* The host *)

RouteChanges ==
  /\ route' \in Iface \cup {NoIface}
  /\ UNCHANGED <<rules, forward, process, lapses>>

HostReboots ==
  /\ rules' = NoRules /\ forward' \in BOOLEAN
  /\ NoProcess /\ lapses' = 0
  /\ UNCHANGED route

-----------------------------------------------------------------------------
ProcessNext ==
  \/ Boot \/ NewVPNServer \/ Detect \/ EnableForwarding \/ AppendRule \/ StartupFails \/ Start
  \/ APICrash \/ Signal \/ DeleteRule \/ DeleteFails \/ Killed
  \/ RouteChanges \/ HostReboots

ProcessSpec == ProcessInit /\ [][ProcessNext]_processVars

-----------------------------------------------------------------------------
(* Properties *)

(* Type invariant: cleanupNAT runs only where NAT was set up, with the     *)
(* interface that setupNAT found (daemon.go:579-632).                      *)
ProcessTypeOK ==
  /\ route \in Iface \cup {NoIface}
  /\ rules \in [Iface -> [Rules -> Nat]]
  /\ forward \in BOOLEAN
  /\ lapses \in 0 .. MaxLapses
  /\ at \in {"down", "new", "nat", "start", "serve", "close", "close2"}
  /\ next \in 0 .. 4 /\ iface \in Iface \cup {NoIface}
  /\ before \in [Iface -> [Rules -> Nat]] /\ missed \in [Rules -> 0 .. 2]
  /\ at \in {"close", "close2"} => EnableNAT /\ next \in Rules
  /\ EnableNAT /\ (at \in {"start", "serve", "close", "close2"} \/ next > 0)
       => iface \in Iface

(* A server that is told to NAT serves with forwarding on and with all     *)
(* three rules for the interface it found, whatever earlier processes left *)
(* or took away (daemon.go:579-611, main.go:79-98).                        *)
NatServes ==
  EnableNAT /\ at = "serve" =>
    forward /\ \A k \in Rules : rules[iface][k] >= 1

(* A shutdown in which no rule's -D failed twice leaves of no rule more    *)
(* copies than the process found, though copies are all alike and the      *)
(* default route may have changed since (daemon.go:613-631, main.go:93,    *)
(* 116-124: Close runs twice).                                             *)
ShutdownRemoves ==
  [][at = "close2" /\ at' = "down" /\ lapses' = lapses =>
       \A i \in Iface, k \in Rules :
         rules'[i][k] <= before[i][k]]_processVars

(* When no server runs, there are no more copies of a rule than processes  *)
(* since the boot that ended without a Close that worked: no sequence of   *)
(* crashes, failed starts, changes of the default route and restarts makes *)
(* rules pile up faster (daemon.go:596-611, 613-631, main.go:90-125).      *)
OneCopyPerLapse ==
  at = "down" => \A i \in Iface, k \in Rules : rules[i][k] <= lapses

(* "cleanupNAT removes the iptables rules that were set up by setupNAT."   *)
(* (daemon.go:613): a process that is not killed leaves no rule that it    *)
(* has added.                                                              *)
(* The code does not keep this: README, "Disagreements".                   *)
ExitRemovesRules ==
  [][StartupFails => \A i \in Iface, k \in Rules :
                       rules'[i][k] <= before[i][k]]_processVars
=============================================================================
