# A TLA+ model of 8Private (VPN 8)

This directory holds TLA+ specifications of 8Private's server and of its client down to
the app's connection state, TLC configurations that check them on small instances, and
TLAPS proofs of their main properties for every value of the constants. `PROJECT.json` is the index: which
definition models which source lines, what each run checks, and which hazards of
the code each property is for.

## 1. The system

8Private is a VPN: a Go server, a Go client engine with a Flutter user interface, and
a library both share. A client authenticates over QUIC (the control plane), is told
an address inside the tunnel, and then sends IP packets as encrypted UDP datagrams
(the data plane).

| Component | State it keeps | Operations | Interacts with |
|---|---|---|---|
| Address pool (`server/daemon/ippool.go`) | client limit, allocated addresses, scan hint | `NewIPPool`, `Allocate`, `Release` | called by the connection handlers and by `Close` |
| Server control plane (`server/daemon/daemon.go`) | session table under `sessionsMu`, server and session contexts, listener and sockets | `acceptLoop`, `handleConnection`, `Close` | pool, store, QUIC; table shared with the relay |
| Server relay (`daemon.go`, `shared/conn.go`) | return address of each session, loop locals | `dataReadLoop`, `tunReadLoop` | session table, rate limiters, UDP, TUN device |
| Rate limiter (`daemon.go`) | tokens, time of the last update | `NewTokenBucket`, `Allow` | the relay |
| Account store and authentication (`server/db`, `server/auth`) | tables `users` and `devices` in SQLite | `Authenticate`, `RegisterDevice`, the methods of `Store` | the handlers and the admin API, concurrently |
| Admin REST API (`server/api`) | none of its own | create, delete, rekey, reset, wipe | the store |
| Server process and NAT rules (`server/cmd`, `daemon.go`) | iptables rules and forwarding of the host | start, `setupNAT`, signal, `Close`, `cleanupNAT` | the rules outlive the process |
| Client engine (`client/go_core`) | QUIC connection, data socket, TUN device, mode, counters | `Start`, `Stop`, `connectionWatcher`, two copy loops | server, local daemon |
| Local daemon (`client/cmd`) | the one client | `/connect`, `/disconnect`, `/status`, watchdog, signals | Flutter app, engine |
| App-extension bridge (`client/go_bridge`) | channel-backed TUN device | push, read, write, close | Swift, engine |
| Connection state machine (`client/lib/vpn_provider.dart`) | connection state, profiles, session timer | connect, disconnect, select, poll | local daemon, admin API |
| Obfuscation, packets, TUN devices (`shared`) | key; descriptor, routes | frame and unframe, parse, create and close | both ends |

What is hard in this code:

- *Concurrency on the server.* One goroutine per connection, two relay loops and
  `Close` share the session table and the pool, under different locks. Handlers take
  and give back addresses in several steps; `Close` takes the same addresses from
  under them.
- *State used after its lock is gone.* Both relay loops keep a session, and one a
  return address, past the critical section in which they read it, while addresses
  are given to new clients.
- *An unreliable network.* Datagrams are lost, delayed, reordered, repeated, and may
  come from a client that has already been replaced.
- *Shutdown.* Goroutines are blocked in reads that only closing something can end.
- *The database.* Two authentications count devices at once; database/sql spreads
  statements over connections of which only one enforces foreign keys.
- *Numeric edges.* uint32 arithmetic of the pool at the ends of subnets; the wrap of
  the scan; refills of the token bucket.
- *What outlives a process.* iptables rules on the server, routes and DNS settings on the
  client: an end without the cleanup, or a cleanup that fails, is found by the next start.
- *The client.* Fields shared without locks between the watcher, the copy loops and
  `Stop`; engines that were stopped and are still at work; asynchronous continuations in the
  user interface.
- *Coming back.* A client dials again before the server has noticed that it was gone.

What makes each component correct:

- pool: reserved addresses are never leased; a refusal means the pool is full;
- control plane: a tunnel address has one holder, no address leaks, the session table
  names exactly the waiting handlers, shutdown ends everything;
- relay: traffic for an address goes only to an endpoint that a packet with that source came from;
- rate limiter: the rate holds over every window;
- store: the device limit holds under concurrency; deleting an account deletes its
  devices;
- admin API: roles decide who may change whom, also when the store changes during the
  request;
- server process: it serves with its rules in place, and leaves what it found;
- framing: a frame fits the path, and what is read is what was written;
- engine: after `Stop` nothing it created is left, and a lost connection is made again;
- local daemon and bridge: one engine at a time, and nothing of it left when the user is
  told so;
- app: what it shows follows the daemon.

## 2. The modules

| Module | Models | Notes |
|---|---|---|
| `IPPool` | `ippool.go` | one atomic action per method (all run under the pool's mutex) |
| `AddressLease` | nothing: the abstract promise about tunnel addresses | refined by `VPNServer` |
| `VPNServer` | control plane of `daemon.go` | EXTENDS `IPPool`, whose actions the handlers take |
| `DataPlane` | relay of `daemon.go` | EXTENDS `VPNServer`; composition of control plane, network and relay |
| `TokenBucket` | rate limiter of `daemon.go` | with a clock and an observer of windows |
| `Accounts` | `db.go` and `auth.go` | with SQLite's locks and the connection pool as external parts |
| `AdminAPI` | `api.go` over the rows of `db.go` | whole handlers, one statement a step |
| `ServerProcess` | `server/cmd/main.go`, NAT in `daemon.go` | across crashes, restarts and reboots |
| `Framing` | `crypto.go`, `conn.go`, `packet.go` | one packet from `WriteTo` to the session lookup |
| `TunnelLifecycle` | nothing: what the client engine promises | refined by `VPNClient`, used by `LocalDaemon` and `Bridge` |
| `VPNClient` | `client/go_core/client.go` | every access to an unlocked field is a step |
| `Reconnect` | clients that come back to the server | EXTENDS `VPNServer`; composition of both ends, links and restarts |
| `LocalDaemon` | `client/cmd/main.go`, `tun_darwin.go` | engines by their contract, the host's routes and DNS |
| `Bridge` | `client/go_bridge` | engines by their contract, the injected device |
| `VPNProvider` | `vpn_provider.dart`, `daemon_service.dart` | one step from each await to the next |
| `MC*` | | instances for TLC; `MCServerParts` has those of `IPPool`, `TokenBucket`, `Framing` and `ServerProcess`, `MCApp` those of `Bridge` and `VPNProvider` |
| `VPNServerProofs` | | theorems about `IPPool` and `VPNServer` |
| `DataPlaneProofs` | | about `DataPlane` |
| `ReconnectProofs` | | about `Reconnect`, on top of `VPNServerProofs` |
| `ServerPartsProofs` | | about `TokenBucket`, `Framing` and `ServerProcess` |
| `AccountsProofs`, `AdminAPIProofs` | | about `Accounts` and `AdminAPI` |
| `VPNClientProofs` | | about `VPNClient` and `LocalDaemon` |
| `AppProofs` | | about `Bridge` and `VPNProvider` |

### IPPool

`conf` is one element of `Confs`: the parsed CIDR (base and size), the requested limit
and the host (`cpus`, `memKB`). `NewIPPool(c)` is the constructor, `Allocate(a)` and
`Exhausted` are the two outcomes of `Allocate`, `Release(num)` both outcomes of
`Release`. `Add32` and `Sub32` are the uint32 operations modulo `Word`; `Word` is 2^32
in the program and a parameter here. Only the sum of the hint and the scan's index
(`ippool.go:98`) is taken without its wrap, which needs a /0 block and a limit of more than 2^31.

### VPNServer

`pc[h]` is where the handler of connection `h` is; each value is a point of
`handleConnection` between two calls another goroutine can interleave with:
`stream` (AcceptStream), `decode`, `auth`, `alloc`, `respond`, `register`, `wait` (the final
select), `unregister` and `release` (the deferred cleanup), `exit` (the outer deferred
calls), `done`. `ip[h]` is the address the client was told; it stays after the handler
returns because the client goes on using it. `sessions` maps an address to the connection
whose session is stored there. A critical section of `sessionsMu` is one step, except the
loop of `Close`: it handles one session per step, in any order, and excludes the
handlers' critical sections (`MuFree`) but not their calls of the pool. `Close` may be
called `MaxCloses` times, because `main` calls it explicitly and by `defer`. The
rules of iptables that `Close` also removes are not state of this module.

QUIC is external: a connection is in `live` until the peer or the idle timeout ends it
(`PeerGone`), the handler closes it (`Exit`), or `Close` does (`CloseSession`, `CloseRaw`).
Authentication appears by its outcome here; `Accounts` models it.

### DataPlane

`uplink` is the set of datagrams in flight; reading one does not remove it, so it may be
read again (duplication) or late (delay, reordering), and `Lost` removes it. A datagram has
an owner (who sent it), a port (what NAT made of its source) and the inner source address,
which may be any: `tunToUdpLoop` forwards what the client's machine routes into the tunnel
(`ClientSends`). `sent` is a history of all that was sent, for the properties.
`endpoint[h]` is the `clientAddr` of the session of `h`. The loops are split where the code
releases a lock: lookup, endpoint update, endpoint read, write. The rate limiters are a
choice to drop. `TxRead` has no error path once the read has begun: see the disagreement
about the TUN device.

### TokenBucket

Time in ticks and tokens in the share of a byte that a tick brings at rate 1, so that
the arithmetic is exact; the code uses float64. `StartWindow` lets an observer begin to count
at any moment, so `RateBound` speaks of every window.

### Accounts

`users` and `devices` are the tables; keys are numbers that are never used again (the code
draws 16 random bytes). A call of `Authenticate` goes through `lookup`, `begin`, `read`,
`write`, `commit`, and ends in `admitted` or `denied`. SQLite in its default rollback mode
is external: a transaction holds SHARED from its first read and RESERVED from its first
write, and a commit needs that nobody else holds SHARED; what a lock stops either
waits or fails with SQLITE_BUSY. The pool of database/sql is external too: a statement
runs on an idle connection, on a new one if none is idle, and at most `MaxIdle` stay; a connection
opened later, also in place of the first, does not enforce foreign keys. `TxCommitBusy` takes it
that the driver rolls back when COMMIT fails: the deferred `tx.Rollback` then does nothing.

### AdminAPI

`req[r]` is a request between the middleware and its answer: the role that the middleware
found for its key (`Begin`), and what the handler has read so far. Statements of other requests
run between two statements of one: `CreateChecks` is `createUser`'s second look at the
caller, `ReadTarget` the look at the target that `deleteUser` and both reissues take before
they write. `serverWipe` takes one account a step, and its errors are dropped as in the
code (`missed` records them); its list may be short, because `ListUsers` does not ask `rows.Err()`. Keys are numbers that are never used again.

### ServerProcess

`at` is where the process is (`new` to `close2`), `next` the command of `setupNAT` or
`cleanupNAT` that comes next, `rules[i][k]` how many copies of a rule the kernel has. Between
two commands the process may be killed, the machine may reboot, and the default route may
change; a command may fail. `lapses` counts processes that ended without a working
`Close`, which is what the number of left-over rules is measured against.

### Framing

Pure operators for lengths and offsets of `ObfuscateTo`, `WriteTo`, `ReadFrom` and
`Deobfuscate`, and the address helpers on numbers of 32 bits, around a state machine of one
packet that may be cut, changed or lost on the way. The AEAD is external. `MaxExtra`, 109 bytes,
is the most that a frame adds to its packet. `FramingAssumption` says of the program's three sizes
(buffers of 65535 bytes, reads of 1300, a path of 1500) what the code relies on: a length fits
the prefix of 16 bits, and a packet of the tunnel with `MaxExtra` more fits the buffer and the path.
`FrameFits` speaks of longer packets too: up to `OutBuf - MaxExtra` no padding overruns the buffer.

### TunnelLifecycle and VPNClient

`VPNClient` has a variable for each field of the Go object that two goroutines share
(`quicConn`, `dataConn`, `tunDev`, `running`, `mode`), what the operating system has open
(`quic`, `sock`, `tun`), and a place for each goroutine: `watcher` (in `connectionWatcher`,
`connectUDP`, `setupTUN`), `stop`, and a pair `tx`, `rx` of copy loops for every connection
so far, because nothing ends those of an earlier one. A method call on a field that is nil is
a panic (`crashed`). `Stop` closes what a field refers to in one step and clears the field in the
next, because `connectUDP` may store another connection or socket in between. `StopEndsReader` names the
sockets that `Stop` cannot close: one that a reconnect has replaced in `c.dataConn`, and one
that `connectUDP`, which does not look at the context between the authentication and its final wait,
stores after `Stop` has looked at the field. It may stay there, or be cleared unclosed by
the step `StopClearsData`; `late` records both. A field is read in one piece, though an interface is two words.

`TunnelLifecycle` keeps of this the phase of the engine, whether its goroutine is alive, and
its device: "new" is a device that `CreateTUN` has made and that is not in `c.tunDev` yet, which
is what `Stop` cannot see. `VPNClient` implements it (`ImplementsLife`, checked and
proved). Its operators give the set of states an event leads to, so that `LocalDaemon` and
`Bridge` apply them to one engine of many: `L(c)!Released`.

### Reconnect

`VPNServer` with clients at the other end. `at[c]` is the place of `connectionWatcher` as the
server can tell it (dialling, waiting for an answer, up), `conn[c]` the connection it uses.
`cut` holds live connections over which nothing passes: the two ends find out independently
(`Lost`, `IdleTimeout`), so that a client can be back while its old address is still held.
A connection that is over is used again, so the run is not limited to a number of dials; a
`Restart` starts the server with an empty pool and table. `Close` is not called here.

### LocalDaemon

`client[c]` is the engine of the c-th connect, `global` is `globalClient`, `mutex` what
`clientMutex` is held for. `creating[c]` follows `CreateTUN` and `closing[c]` a device's `Close`
through their commands, whose effects on the host (`v4`, `v6`, `hostRoute`, `dns`) outlive the process.
`service` is `globalPrimaryService`, one for all devices and without a lock, so each access to it
is a step: `CacheService` before `OverrideDNS`; `CloseChecksService`, `CloseWritesScript`,
`RestoreDNS` and `ClearService`. `overlapped` is a history of the overlap of the two sequences in
different engines. A `Close` runs under the `c.mu` of its engine: that of a reconnect (`Replaced`) delays
`StopCancels`, that of `Stop` is between `StopClosesDevice` and `StopFinishes`. `connect` and `disconnect`,
the signal handler, the watchdog and the failure of the HTTP server are the other actions; a read of
the service that is torn by a write is either empty, which is modelled, or crashes like `APICrash`.

### Bridge

`ctl` is how far `StartVPN` or `StopVPN` is (Swift calls them one at a time), `push` how far
`PushPacketToGo` is (called from another queue). `globalClient` has no lock, so each mention of
it is a read of its own. `app[c]` is the injected `AppExtTUN`: whether its channel is open and
how many packets it holds.

### VPNProvider

`call[c]` is a call of `connect`, `disconnect` or `selectServer` at its await; `ticks` the polls
of the session timer that await a status, `stray` a timer that was replaced without being
cancelled. `daemon` is the server that the local daemon's engine is for: all that the
daemon's answers depend on.

## 3. What the runs check

| Run | Instance | Result |
|---|---|---|
| `server_parts` | pool: blocks /32 to /29 at both ends of a 5-bit address space, six limits; rate limiter: rates -1 to 3, a few seconds; framing: lengths at every boundary, 2 addresses, IPv4 and not, the real buffer sizes; process: 2 interfaces, NAT on, interface detected, 2 lapses | no reserved address is leased, only the first slot can be missed; the rate holds over every window; frames fit, round trip, both sides compute the same key; left-over rules bounded, a shutdown leaves what it found |
| `vpnserver` | 2 connections on one and on two addresses, 2 calls of `Close` | exclusive leases, no leak, exact table, implements `AddressLease`; shutdown completes; addresses of vanished clients come back |
| `dataplane` | 2 connections, 2 addresses, 2 ports, 2 datagrams with any source, no `Close` (the theorem covers it) | traffic goes only to endpoints that sent from the address |
| `dataplane_live` | 1 connection, one call of `Close` | `dataReadLoop` returns after `Close` |
| `reconnect` | 2 clients, 3 connections, 3 addresses, 2 faults | nobody is refused except for addresses of connections that were given up; all clients get their tunnels back |
| `accounts` | 2 callers, 2 devices, 2 accounts, 3 keys, 3 pooled connections | device limit; who is admitted is registered |
| `adminapi` | 2 requests, 3 accounts, 6 keys | role separation; guarded keys; a wipe removes what it listed |
| `vpnclient` | 2 connections, server with a common ALPN protocol, device injected or not | no QUIC connection outlives its `connectUDP`; one device at a time; nil calls only after `Stop` or while the device is replaced; implements `TunnelLifecycle`; `Stop` ends the watcher and, with the exceptions above, the readers; a loss is retried |
| `vpnclient_alpn` | 1 connection, the protocols of this repository's server | **violated**: no connection is ever made |
| `localdaemon` | 2 engines | one engine runs; DNS is overridden only with a restorer, unless override and restore overlapped; a stop returns |
| `localdaemon_dns` | 2 engines | **violated**: DNS is left overridden with nothing to restore it |
| `app` | bridge: 3 engines, channel of 2; app: 2 profiles, 2 calls at once and the timer's | one engine with an open device; a push always returns; a shown connection is polled; a daemon that stopped is noticed |

`server_parts` puts four modules that share no state into one instance (`MCServerParts`); each
moves only while the others rest, so that it has the sum of their states. `app` does the same
with `Bridge` and `VPNProvider` (`MCApp`).

The type invariants are theorems (section 4). The runs repeat those that say more than types:
`VPNClient`'s (a field refers only to what has been made), `Reconnect`'s (a connection serves one client at a time), `LocalDaemon`'s
(`globalClient` is nil, running or being stopped), `Bridge`'s (a `globalClient` that is set between calls runs) and
`VPNProvider`'s (a shown connection is polled). That a server told to NAT serves with its rules in place (`NatServes`) is a theorem too.

The bounds. Two connections on one address are enough for an address to be held, given
back and given to someone else, and for an exhausted pool; on two addresses, for two sessions
that `Close` takes in either order; the theorems cover any number of either. Two
calls of `Close` are all `main` makes. Two connections, ports and datagrams let a
datagram of the previous holder arrive before, between and after those of the new one.
Two callers are enough for every race of two transactions, and a limit of 2 with two devices
for the override of an admin's limit to matter. Two connections of one client let the loops of
the first meet the fields of the second. Two engines let one be stopped and at work
while the other runs, and let the next be refused; the theorems cover more. Two requests are enough for every race of a read and a write, and three
accounts for one of each role. Two faults let the address of a connection that was given up, and the scan's miss of the first slot,
refuse a client although there is one to spare, while the other client holds the third. Two pooled
connections are what two transactions need, a third is for a statement beside them, and a fourth takes
the place of the first when that is gone. `MaxDgrams`, `MaxTime`, `MaxUsers`,
`MaxKeys`, `MaxConns`, `MaxCloses`, `MaxClients`, `MaxLapses`, `MaxCalls` and `MaxFaults` are
the only bounds on behaviour, and the proofs do not use particular values of them.
`app` switches the deadlock check off: once `StartVPN` may not be called again
(`MaxClients`), a bridge that was stopped has nothing left to do.

Fairness. Weak fairness of each handler's own steps, of `AcceptExit`, of the steps of
`Close` once it was called, and of each loop's steps: the Go scheduler runs every goroutine
that is not blocked, and a mutex here is only held for finitely many steps. Nothing is
assumed of the peers, of the network, of packets arriving at the TUN device, or that `Close`
is called at all. `HandlerStep` therefore leaves out the steps that wait for the client. On the
client the same: weak fairness of `Stop`, of the watcher (its dials, sleeps and timeouts end
by themselves, but not the exchange that has no deadline) and of each `udpToTunLoop`;
none of `tunToUdpLoop`, whose read may block for ever. `DialOK` has strong fairness, "a server that
can be reached is reached by one of the attempts", which is an assumption about the network,
and `EstablishesQUIC` depends on it. `LocalDaemon` assumes that the
commands of `Close` end, that `Stop` goes on, and that it gets the `c.mu` which reconnects take again
and again (strong fairness of `StopCancels`: Go's `sync.Mutex` starves nobody). `Bridge` assumes
that calls in progress run, `VPNProvider` that timers fire, that the daemon answers a
disconnect (the request has no timeout, and `StopReturns` is what the daemon does for it), and that continuations run, but nothing of `connect`, which
may wait for a password. `Reconnect` assumes that goroutines run, idle timeouts expire and
clients dial, and that faults stop after `MaxFaults`.

Every property of a passing run has a mutant: a definition of the model changed the way a
plausible bug would change the code, under which TLC finds the property violated. The
mutated forms stand before the definitions they replace, marked "Faulty variant".

### Disagreements

The code and what its comments, tests and texts say of it differ in these places. The property
named is what they say; it is stated in the module of the component, and put into that
module's configuration TLC refutes it. Those that a run of its own shows name the run.

1. *Client and server have no ALPN protocol in common* (`client.go:215`, `daemon.go:168`): no
   handshake succeeds (`EstablishesQUIC`, run `vpnclient_alpn`). All other client runs assume a
   server with a common protocol.
2. *The wrapped scan skips the first slot* (`ippool.go:101`, `ExhaustedOnlyWhenFull`). With the
   hint past it and every other address taken, `Allocate` answers `ErrPoolExhausted` while offset
   2 is free. `MissesOnlyFirstSlot` shows that this is the only address it can
   miss. With as many clients as addresses one may so be refused for ever (`RejoinsWhenFull` in
   `Reconnect`; three clients on three addresses and two of them hanging up show it, one step of
   dialling at a time, which keeps the instance small); `Rejoins` and `RefusedForOrphansOnly`
   therefore have the premise of an address to spare, `RoomToSpare`.
3. *No fallback to 1024* (`ippool.go:191`, `FallbackOnDetectionFailure`, with a subnet
   as large as a /20). Without `/proc/meminfo` the limit is 256 per CPU.
4. *A late datagram redirects a session* (`daemon.go:505`, `SentToSessionsClient`), and so does
   a packet with the inner source of another client, since neither side ties the source to the sender
   (`client.go:400`, `daemon.go:486`). `EndpointClaimed` says what holds: the receiver is always an endpoint
   that sent from that address. While clients send from their own only, it is someone who was given it
   (`EndpointProvenance`, proved under that premise).
5. *The TUN device can outlive `Close`* (`tun_linux.go:114`, `TunTornDown`). The descriptor is
   blocking, so closing the file does not end the read.
6. *Foreign keys hold on one pooled connection only* (`db.go:65`, `NoOrphanDevices`).
7. *The mode stays TCP* (`client.go:190`, `ModeTellsTransport`) after one failed attempt, also
   over UDP.
8. *The injected device is closed* (`client.go:332`, `InjectedDeviceServes`) by `setupTUN` before
   the loops start.
9. *Calls on nil fields* (`client.go:400`, `NoNilCall`) by the copy loops while `Stop` clears them.
10. *A device created during a stop stays* (`client.go:370`, `DisconnectedMeansNoTunnel` in
    `LocalDaemon`) after "disconnected".
11. *The host route to the server stays* (`tun_darwin.go:237`, `CloseRemovesRoutes`).
12. *The DNS servers are not restored* (`tun_darwin.go:240`, `CloseRestoresDNS`) but set to the
    word "empty".
13. *The watchdog ends the daemon without a stop* (`client/cmd/main.go:82`, `ShutdownReleasesDNS`).
14. *"wiped" although accounts are left* (`api.go:294`, `WipedMeansGone`), when a statement failed.
15. *Reissuing the provisioned owner's key revokes nothing* (`api.go:61`, `ReissueRevokes`).
16. *`log.Fatalf` leaves iptables rules* (`daemon.go:200`, `ExitRemovesRules`).
17. *Padding is not limited by the buffer* (`crypto.go:68`, `PaddingLimited`, with the length
    `OutBuf - 46`).
18. *A push during a stop panics* (`tun_apple.go:79`, `PushIsSafe`).
19. *A slow status ends a live session* (`vpn_provider.dart:433`, `PollDisconnectsDeadOnly`).
20. *A late disconnect hides a new session* (`vpn_provider.dart:403`, `DisconnectedMeansOff`).
21. *The DNS override loses its restorer* (`tun_darwin.go:186`, `239`, `OverrideRestorable`, run
    `localdaemon_dns`): the goroutine of a stopped engine stores the cached service and overrides the
    entry while another engine's device is closed, which restores too early and then clears the
    service. `DnsOnlyWithDevice` shows that nothing but such an overlap has this effect.

## 4. What is proved

The theorems are for every value of the constants, under the named assumptions of the
modules (`ConfsAssumption`: a block of a CIDR fits the address space and has an even size or
one address; the others give the types of the constants).

- **`VPNServerProofs`, the pool.** `PoolInv` is the type invariant with `CapacityOK` (the limit fits
  the subnet). `ReservedSafe` follows from it by arithmetic. For `OnlyFirstSlotMissed` the
  proof gives, for every free address but the first, the step of the scan that tries it.
- **`VPNServerProofs`, the server.** `ServerInv` is inductive: types, the pool's invariant, exclusive
  leases, no leak and the exact table, together with what `Close` does to them. None is
  inductive alone: that a handler's delete by key removes its own session needs
  exclusive leases, which need that a held address counts as allocated; and after `Close` was
  called exclusivity is lost, so the conjuncts that survive it have to be stated without it. The
  cases are grouped by what a step does to the leases (move, give back, take), one lemma
  each. `LeaseRefinement` maps a handler's address to the abstract lease and shows that
  every step grants, drops, stops or stutters.
  Three readings of `ServerInv` say more than its conjuncts: `RefusedWhenServing` (a refusal leaves
  at most the first slot untaken, `FullButOne` from `OnlyFirstSlotMissed`, and without leaks every
  taken address has a holder of its own, `TakenByHolders`), `QuietServerIsClean`, and
  `ClosedHoldsNobody`, for which `CloseOrder` records what `Close` has done at each of its places.
  `HandlersMoveForward` orders the places of a handler; it and `ClosedHoldsNobody` are the safety part
  of `ShutdownCompletes` and `AddressReclaimed`.
- **`DataPlaneProofs`.** `RelayKeepsServer` shows that the relay's steps stutter for the control
  plane, which carries all theorems about `VPNServer` over. `ToldInv` says of every place that
  keeps a session or an endpoint that the session's owner was told the address it is kept
  for, and that a packet with that address came from the endpoint; it is preserved because what
  a client was told never changes and what was sent stays sent. `EndpointsClaimed` follows, and from it
  `OwnSourcesKeepProvenance`, under the premise on the packets' sources that the code does not enforce.
- **`ReconnectProofs`.** `ReconnectInv` is `ServerInv` with the clients' types and `AnswersStand`
  (the handler of a client that is up has sent its answer). Steps of the
  server are taken over from `VPNServerProofs`; the others are those of clients and links, the
  connection that is used again, and the restart, which keeps only what the clients were told.
  `ReconnectKeepsServer` follows at once. `RefusalsExplained` counts: if every address is held by
  a connection that a client uses, and the client being refused holds none, then fewer addresses
  are taken than there are clients (`TakenByClients` maps the addresses one to one into the
  other clients), while a refusal leaves at most the first slot untaken (`FullButOne`). Hence
  the property's premise, one address more than clients (disagreement 2).
  `LeaseBetweenRestarts` carries the refinement over: only a restart is no step of the lease, and it
  begins a new one. `UpMeansServed` is about both ends: `Attended` says that a handler whose connection
  lives never leaves its wait, because nobody calls `Close`, so a client that is up over such a
  connection is in the table, and exclusive leases give it an address of its own.
- **`ServerPartsProofs`, the rate limiter.** `RateBound` is not inductive; `WindowBudget` counts the
  tokens that could be spent at once as spent, which makes it so.
- **`ServerPartsProofs`, framing.** `FramingInv` ties the frame on the wire to the packet written: the
  prefix is the packet's length, and the plaintext holds it. `RoundTrip` then needs no
  induction over bytes, only that a genuine frame gives back the range that was put in, and
  `Recombined`: the four bytes of any number of 32 bits make the number again, in the one order
  that both the address helpers and the pool use.
- **`ServerPartsProofs`, the process.** `ProcessInv` accounts for every copy of a rule: what the
  process found, what it has appended, what it has removed and which removals have failed, command
  by command. `OneCopyPerLapse` and `ShutdownRemoves` are two readings of that account.
- **`AccountsProofs`.** `QuotaKept` rests on `AccountsInv`, whose core is about locks: as long as a
  transaction holds SHARED nobody commits, so the count it has read is still the count of the
  table when it writes, and RESERVED makes it the only one that writes. `AdmissionSerializable` is
  what this comes to: an answer that was computed from older reads is right for the tables as they are at
  the commit. `KeyNamesOneAccount` and `NothingComesBack` are about the order of operations: ids and
  keys only grow (`AccountsEvolve`), so a new account finds no devices left by a deleted one.
- **`AdminAPIProofs`.** What a request has read stays true although other requests write in
  between, for three reasons that `Evolves` states of every step: an account never changes its
  role, an id is never used again, and a key is never given out twice. `RequestOK` is what a
  request relies on; from it follow `KeysAlwaysGuarded` and `RolesSeparated`. `WipesFinish`, an
  action property, needs an invariant of its own, `WipeInv`: while no delete of a
  wipe has failed, every account of its list is gone, still to do, or spared. It is kept because accounts keep their names and
  an id that is gone does not come back, so what other requests create is never on the list.
  `KeysNeverGain` is a reading of `Evolves`: what an issued key is worth never grows.
- **`VPNClientProofs`, the engine.** `ClientInv` says which thread may have which connection and device
  open: a QUIC connection is open only while the watcher is inside the `connectUDP` that made it, and
  a device is either in `c.tunDev` or on its way there. `LifeRefinement` follows step by step.
  What Stop leaves behind is `SocketsAccounted`, from `SocketsInv`: a socket is lost sight of only where
  `connectUDP` stores a later one, and where `Stop` clears a field that it has not looked at since (`Cleared`),
  so the exceptions that `StopEndsReader` makes are the only ones. `NilCallsExplained` needs that a copy
  loop starts after its socket is stored, and that only `Stop` takes one away (`NilInv`). After
  Stop the watcher only moves along `EndPath` (`StoppedWatcherMovesToEnd`), with at most the dial that
  was under way.
- **`VPNClientProofs`, the local daemon.** `DaemonInv`: `OneRunning` needs that outside a stop the engine
  in `globalClient` runs (`Stops`), since `handleConnect` looks at that one only, and that the engine a
  connect takes is new (`Unmade`). `OverrideHasRestorer` holds although every `Close` restores the
  settings through one shared variable: `DnsHeld` is stronger than the property, counting only
  devices that an engine has already, so that an override still has one when `CreateTUN` of another
  engine fails; any `Close` of any device empties the entry; and while nothing has overlapped, a `Close`
  that is between its check and its clearing excludes an engine between caching and override.
  `Closings` says which device a `Close` works on. `RoutesHaveDevice` needs `Routed` to be
  inductive besides: routes are added after the last point where `CreateTUN` gives up.
  `DaemonCallsInTurn` says that the daemon keeps its side of the contract of an engine, and that a stop
  never lacks a next step.
- **`AppProofs`, the bridge.** `BridgeInv` says of each place of `StartVPN` and `StopVPN` what phase
  the engine in `globalClient` is in (`Calls`), and that all other engines are new or stopped, with no
  device open (`Orphans`). `StartVPN` loses no engine because between calls one that is set runs.
  `BridgeCallsInTurn` reads from it that each call finds the engine in a phase that takes it, and what
  `PushPacketToGo` can wait for.
- **`AppProofs`, the app.** `ProviderTypeOK` is inductive by itself; the work is in showing that no
  continuation takes the slot of a connect under way. `PollsOnlyDisconnect` says what can be in the
  slot of the polls.

With these, every safety property that a passing run checks is a theorem. Only model-checked are the liveness properties:
weak fairness is about ENABLED, which the prover does not handle. For some of them their safety
part is proved, that is what must hold in every state, or of every step, for fairness to lead to the
end:

| Liveness property | Proved of it |
|---|---|
| `ShutdownCompletes`, `AddressReclaimed` | `ClosedHoldsNobody`, `HandlersMoveForward` |
| `Rejoins` | `RefusalsExplained`, `UpMeansServed` |
| `StopEndsWatcher` | `StoppedWatcherMovesToEnd` |
| `StopEndsReader` | `SocketsAccounted` |
| `PushReturns` | `BridgeCallsInTurn` |
| `StoppedIsNoticed` | `ProviderTypeCorrect` (who shows a connection polls), `PollsOnlyDisconnect` |
| `StopReturns` | `DaemonCallsInTurn` |
| `RxLoopExits`, `LossIsRetried` | nothing; no invariant but the types is behind them |

Of Framing, that
the AEAD opens exactly what was sealed is an assumption of the model and no theorem.

## 5. What is left

1. Proofs: the refinements the other way round. `LocalDaemon` and `Bridge` use engines
   by their contract; a composition of one of them with `VPNClient` itself would show that the
   steps of `VPNClient` are steps of the daemon's engines. Of the liveness properties, the last
   step from their safety parts, which needs ENABLED.
2. `Reconnect` with `DataPlane` instead of `VPNServer`: datagrams of a client that is back.
3. API keys and the list of users in `VPNProvider`, once the code says whose key a
   profile holds.

## 6. What is not modelled

- Cryptography, certificates and TLS parameters: no state; the cipher is a library. Of TLS only
  the ALPN protocols appear. `tls.go`'s dialer has no caller.
- A second `Start` of one `VPNClient` object: every caller makes a new one. `connectTCP` is a
  stub. The mode listener is never registered. Byte counters are not read by any decision.
- `AppExtTUN.Read` and `Write`: the engine never calls them, because `setupTUN` has replaced the
  device (disagreement 8).
- The address-family header of the macOS device, and the closing of one file descriptor on
  `CreateTUN`'s error paths. `scutil`'s set command is taken to succeed.
- Handlers that change nothing: `handleStatus`, `listUsers`, `serverReboot`.
- In `VPNProvider`: preferences on disk, graphs, the split-tunneling lists, the user list, API keys.
- Widget layout and themes; the SSH deployment and the container scripts, a sequence of commands
  without concurrent state (that the container is started again after every end is in
  `ServerProcess`); the Swift extension, which is the environment of `Bridge`; the manual
  end-to-end mock; vendored and generated platform projects.
- Logging, message texts and buffer pooling are left out of every module.
