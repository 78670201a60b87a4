------------------------------ MODULE Accounts ------------------------------
(***************************************************************************)
(* Accounts and their devices: server/db/db.go over SQLite, and            *)
(* Authenticate of server/auth/auth.go, which connection handlers call at  *)
(* the same time as the admin API calls the other methods of the store.    *)
(*                                                                         *)
(* SQLite and database/sql are external.  In SQLite's rollback mode a      *)
(* transaction holds SHARED from its first read and RESERVED from its      *)
(* first write; a commit, and a write outside a transaction, needs that    *)
(* nobody else holds SHARED.  A step that finds a lock taken may wait, or  *)
(* give up with SQLITE_BUSY; a single statement that gives up changes      *)
(* nothing.  database/sql runs each statement or transaction on an idle    *)
(* connection of its pool, opens one when none is idle and keeps at most   *)
(* MaxIdle.  Only the first connection has been told to enforce foreign    *)
(* keys.                                                                   *)
(***************************************************************************)
EXTENDS Integers, FiniteSets

CONSTANTS
  Caller,    \* handlers that may authenticate at the same time
  Hwids,     \* device hardware IDs
  Limits,    \* device limits an admin may ask for
  MaxUsers,  \* accounts ever created (bound)
  MaxKeys,   \* access keys ever generated (bound)
  MaxConns,  \* connections to the database (bound)
  MaxIdle    \* idle connections that database/sql keeps

ASSUME AccountsAssumption ==
  /\ IsFiniteSet(Hwids)
  /\ Limits \subseteq Int
  /\ MaxUsers \in Nat /\ MaxKeys \in Nat /\ MaxConns \in Nat \ {0} /\ MaxIdle \in Nat \ {0}

VARIABLES
  users,    \* table users: id -> [key, role, limit]
  lastId,   \* the AUTOINCREMENT counter: an id is never used again
  lastKey,  \* access keys are random, so every new one is fresh
  devices,  \* table devices: <<user_id, hwid>>
  conns,    \* open connections of the pool
  auth      \* the calls of Authenticate

accountVars == <<users, lastId, lastKey, devices, conns, auth>>

Roles  == {"owner", "admin", "user"}
FkConn == 1  \* the connection that ran PRAGMA foreign_keys = ON
NoConn == 0

NoCall == [at |-> "idle", key |-> 0, hwid |-> 0, user |-> 0, conn |-> NoConn,
           limit |-> 0, count |-> 0, exists |-> FALSE]

DevicesOf(id) == {d \in devices : d[1] = id}

AccountsInit ==
  /\ users = <<>>
  /\ lastId = 0
  /\ lastKey = 0
  /\ devices = {}
  /\ conns = {FkConn}
  /\ auth = [c \in Caller |-> NoCall]

-----------------------------------------------------------------------------
(* The database *)

(* Faulty variant: the checks of RegisterDevice read outside the           *)
(* transaction, which so begins to read at the insert.                     *)
TxPlacesFromWrite == {"commit"}

(* Where RegisterDevice has read through its transaction and not ended it. *)
TxPlaces == {"write", "commit"}

Shared(c) == auth[c].at \in TxPlaces

Reserved(c) == auth[c].at = "commit"

NoReaders == \A c \in Caller : ~Shared(c)

Idle == conns \ {auth[c].conn : c \in Caller}

(* A connection the pool may hand out; one opened later, also in place of  *)
(* the first, is not told to enforce foreign keys.                         *)
Unopened == (FkConn + 1 .. MaxConns) \ conns
Available(k) == IF Idle = {} THEN k \in Unopened /\ (\A j \in Unopened : k <= j) ELSE k \in Idle

(* The pool after connection k comes back. *)
Returned(k) == IF Cardinality(Idle \ {k}) < MaxIdle THEN conns \cup {k} ELSE conns \ {k}

(* A single statement, run on connection k. *)
Statement(k) == k \in 1 .. MaxConns /\ Available(k) /\ conns' = Returned(k)

-----------------------------------------------------------------------------
(* Methods of the store the admin API calls: one statement each. *)

LimitAllowed(limit) == limit \in 1 .. 5

CreateUser(role, limit) ==
  /\ NoReaders
  /\ lastId < MaxUsers /\ lastKey < MaxKeys
  /\ LimitAllowed(limit)
  /\ lastId' = lastId + 1
  /\ lastKey' = lastKey + 1
  /\ users' = [id \in DOMAIN users \cup {lastId + 1} |->
                 IF id = lastId + 1 THEN [key |-> lastKey + 1, role |-> role, limit |-> limit]
                                    ELSE users[id]]
  /\ \E k \in 1 .. MaxConns : Statement(k)
  /\ UNCHANGED <<devices, auth>>

UpdateUserAccessKey(id) ==
  /\ NoReaders
  /\ lastKey < MaxKeys
  /\ lastKey' = lastKey + 1
  /\ users' = [users EXCEPT ![id].key = lastKey + 1]
  /\ \E k \in 1 .. MaxConns : Statement(k)
  /\ UNCHANGED <<lastId, devices, auth>>

(* ON DELETE CASCADE works on a connection that enforces foreign keys. *)
DeleteUser(id) ==
  /\ NoReaders
  /\ users' = [u \in DOMAIN users \ {id} |-> users[u]]
  /\ \E k \in 1 .. MaxConns :
       /\ Statement(k)
       /\ devices' = IF k = FkConn THEN devices \ DevicesOf(id) ELSE devices
  /\ UNCHANGED <<lastId, lastKey, auth>>

ResetUserDevices(id) ==
  /\ NoReaders
  /\ devices' = devices \ DevicesOf(id)
  /\ \E k \in 1 .. MaxConns : Statement(k)
  /\ UNCHANGED <<users, lastId, lastKey, auth>>

-----------------------------------------------------------------------------
(* Authenticate(key, hwid), with the transaction of RegisterDevice. *)

Step(c, rec) == auth' = [auth EXCEPT ![c] = rec] /\ UNCHANGED <<users, lastId, lastKey>>

(* The call returns an error and its transaction is rolled back. *)
Fail(c) ==
  /\ Step(c, [NoCall EXCEPT !.at = "denied"])
  /\ conns' = Returned(auth[c].conn)
  /\ UNCHANGED devices

(* Key 0 stands for the empty key and for one that no account ever had. *)
AuthCall(c, key, hwid) ==
  /\ auth[c].at \in {"idle", "admitted", "denied"}
  /\ Step(c, [NoCall EXCEPT !.at = "lookup", !.key = key, !.hwid = hwid])
  /\ UNCHANGED <<devices, conns>>

(* GetUserByKey, on a connection of its own; the key is UNIQUE. *)
LookupFound(c) ==
  /\ auth[c].at = "lookup"
  /\ \E id \in DOMAIN users :
       /\ users[id].key = auth[c].key
       /\ Step(c, [auth[c] EXCEPT !.at = "begin", !.user = id])
  /\ \E k \in 1 .. MaxConns : Statement(k)
  /\ UNCHANGED devices

LookupFailed(c) ==
  /\ auth[c].at = "lookup"
  /\ \A id \in DOMAIN users : users[id].key # auth[c].key
  /\ Step(c, [NoCall EXCEPT !.at = "denied"])
  /\ \E k \in 1 .. MaxConns : Statement(k)
  /\ UNCHANGED devices

TxBegin(c) ==
  /\ auth[c].at = "begin"
  /\ \E k \in 1 .. MaxConns :
       /\ Available(k)
       /\ conns' = conns \cup {k}
       /\ Step(c, [auth[c] EXCEPT !.at = "read", !.conn = k])
  /\ UNCHANGED devices

EffectiveLimit(u) == IF u.role = "admin" THEN 1 ELSE u.limit

(* The three SELECTs, which see one state because of the SHARED lock. *)
TxRead(c) ==
  /\ auth[c].at = "read"
  /\ auth[c].user \in DOMAIN users
  /\ Step(c, [auth[c] EXCEPT
                !.at = "write",
                !.limit = EffectiveLimit(users[auth[c].user]),
                !.count = Cardinality(DevicesOf(auth[c].user)),
                !.exists = <<auth[c].user, auth[c].hwid>> \in devices])
  /\ UNCHANGED <<devices, conns>>

(* The user was deleted since the lookup. *)
TxUserGone(c) == auth[c].at = "read" /\ auth[c].user \notin DOMAIN users /\ Fail(c)

(* UPDATE of a known device, or INSERT of a new one below the limit. *)
TxWrite(c) ==
  /\ auth[c].at = "write"
  /\ auth[c].exists \/ auth[c].count < auth[c].limit
  /\ \A b \in Caller \ {c} : ~Reserved(b)
  /\ Step(c, [auth[c] EXCEPT !.at = "commit"])
  /\ UNCHANGED <<devices, conns>>

(* The limit is reached, or another transaction is writing. *)
TxRefused(c) ==
  /\ auth[c].at = "write"
  /\ \/ ~auth[c].exists /\ auth[c].count >= auth[c].limit
     \/ \E b \in Caller \ {c} : Reserved(b)
  /\ Fail(c)

TxCommit(c) ==
  /\ auth[c].at = "commit"
  /\ \A b \in Caller \ {c} : ~Shared(b)
  /\ devices' = devices \cup {<<auth[c].user, auth[c].hwid>>}
  /\ conns' = Returned(auth[c].conn)
  /\ Step(c, [auth[c] EXCEPT !.at = "admitted", !.conn = NoConn, !.limit = 0,
                             !.count = 0, !.exists = FALSE])

(* Another transaction still reads: SQLITE_BUSY, and the insert is lost.   *)
(* That takes a driver that rolls back when COMMIT fails: for database/sql *)
(* the transaction is over, and the deferred Rollback does nothing.        *)
TxCommitBusy(c) ==
  /\ auth[c].at = "commit"
  /\ \E b \in Caller \ {c} : Shared(b)
  /\ Fail(c)

-----------------------------------------------------------------------------
AuthStep(c) ==
  \/ \E key \in 0 .. lastKey, hwid \in Hwids : AuthCall(c, key, hwid)
  \/ LookupFound(c) \/ LookupFailed(c)
  \/ TxBegin(c) \/ TxRead(c) \/ TxUserGone(c)
  \/ TxWrite(c) \/ TxRefused(c) \/ TxCommit(c) \/ TxCommitBusy(c)

AccountsNext ==
  \/ \E role \in Roles, limit \in Limits : CreateUser(role, limit)
  \/ \E id \in DOMAIN users : UpdateUserAccessKey(id) \/ DeleteUser(id)
  \/ \E id \in 1 .. lastId : ResetUserDevices(id)
  \/ \E c \in Caller : AuthStep(c)

AccountsSpec == AccountsInit /\ [][AccountsNext]_accountVars

-----------------------------------------------------------------------------
(* Properties *)

(* Type invariant: rows satisfy the schema's CHECKs, and two running       *)
(* transactions are on two connections.                                    *)
AccountsTypeOK ==
  /\ DOMAIN users \subseteq 1 .. lastId
  /\ \A id \in DOMAIN users :
       users[id] \in [key : 1 .. lastKey, role : Roles, limit : 1 .. 5]
  /\ lastId \in 0 .. MaxUsers /\ lastKey \in 0 .. MaxKeys
  /\ devices \subseteq (1 .. lastId) \X Hwids
  /\ conns \subseteq 1 .. MaxConns
  /\ \A c \in Caller : auth[c].conn # NoConn =>
       /\ auth[c].conn \in conns
       /\ \A b \in Caller \ {c} : auth[b].conn # auth[c].conn

(* However many clients authenticate at once, an account never has more    *)
(* devices than its limit, and an admin never more than one                *)
(* (auth.go:14-15, db.go:212-267).                                         *)
DeviceQuota ==
  \A id \in DOMAIN users : Cardinality(DevicesOf(id)) <= EffectiveLimit(users[id])

(* When Authenticate succeeds, its account still exists and has the device *)
(* on its list, although the account was looked up before the transaction  *)
(* began and an admin may have deleted it since (auth.go:24-43).           *)
AdmittedOnlyRegistered ==
  [][\A c \in Caller :
       auth[c].at # "admitted" /\ auth'[c].at = "admitted" =>
         /\ auth'[c].user \in DOMAIN users'
         /\ <<auth'[c].user, auth'[c].hwid>> \in devices']_accountVars

(* "FOREIGN KEY (user_id) REFERENCES users(id) ON DELETE CASCADE"          *)
(* (db.go:97), with "Enable Foreign Key constraints" (db.go:64): deleting  *)
(* an account deletes its devices.                                         *)
(* The code does not keep this: README, "Disagreements".                   *)
NoOrphanDevices == \A d \in devices : d[1] \in DOMAIN users
=============================================================================
