--------------------------- MODULE AccountsProofs ---------------------------
(***************************************************************************)
(* What Accounts keeps for any number of clients, hardware IDs, accounts,  *)
(* keys and pooled connections.                                            *)
(*                                                                         *)
(* DeviceQuota is not inductive: an insert is admitted by a count that was *)
(* read two steps earlier.  Snapshot says why the count is still good: a   *)
(* transaction that has read excludes every other writer until it ends.    *)
(***************************************************************************)
EXTENDS Accounts, FiniteSetTheorems, TLAPS

Calls == [at : {"idle", "lookup", "begin", "read", "write", "commit", "admitted", "denied"},
          key : Nat, hwid : Hwids \cup {0}, user : Nat, conn : 0 .. MaxConns,
          limit : Int, count : Nat, exists : BOOLEAN]

(* A call has a connection while its transaction runs. *)
AuthOK ==
  /\ auth \in [Caller -> Calls]
  /\ \A c \in Caller :
       /\ auth[c].at \notin {"idle", "denied"} => auth[c].hwid \in Hwids
       /\ auth[c].conn # NoConn <=> auth[c].at \in {"read", "write", "commit"}

(* What a running transaction has read is still so. *)
Fresh(c) ==
  /\ auth[c].user \in DOMAIN users
  /\ auth[c].limit = EffectiveLimit(users[auth[c].user])
  /\ auth[c].count = Cardinality(DevicesOf(auth[c].user))
  /\ auth[c].exists <=> <<auth[c].user, auth[c].hwid>> \in devices
  /\ auth[c].at = "commit" => auth[c].exists \/ auth[c].count < auth[c].limit

Snapshot == \A c \in Caller : Shared(c) => Fresh(c)

AccountsInv == AccountsTypeOK /\ AuthOK /\ Snapshot /\ DeviceQuota

USE AccountsAssumption DEF NoConn, FkConn

-----------------------------------------------------------------------------
(* An account's devices are finitely many. *)
LEMMA DevicesFinite ==
  ASSUME AccountsTypeOK, NEW id
  PROVE  IsFiniteSet(DevicesOf(id)) /\ Cardinality(DevicesOf(id)) \in Nat
<1>1. IsFiniteSet((1 .. lastId) \X Hwids)
  <2>1. 1 \in Int /\ lastId \in Int
    BY DEF AccountsTypeOK
  <2>2. IsFiniteSet(1 .. lastId) /\ IsFiniteSet(Hwids)
    BY <2>1, FS_Interval
  <2>3. QED
    BY <2>2, FS_Product
<1>2. DevicesOf(id) \subseteq (1 .. lastId) \X Hwids
  BY DEF DevicesOf, AccountsTypeOK
<1>3. QED
  BY <1>1, <1>2, FS_Subset, FS_CardinalityType

LEMMA NoCallTyped == NoCall \in Calls /\ NoCall.conn = NoConn /\ NoCall.at = "idle"
BY SMT DEF NoCall, Calls

(* A step of one call. *)
LEMMA StepFacts ==
  ASSUME AuthOK, NEW c \in Caller, NEW rec \in Calls, Step(c, rec)
  PROVE  /\ auth' \in [Caller -> Calls] /\ auth'[c] = rec
         /\ \A b \in Caller \ {c} : auth'[b] = auth[b]
         /\ users' = users /\ lastId' = lastId /\ lastKey' = lastKey
BY DEF AuthOK, Step

(* A connection that comes back takes no other one away. *)
LEMMA PoolReturn ==
  ASSUME AccountsTypeOK, NEW k \in 1 .. MaxConns, conns' = Returned(k)
  PROVE  conns' \subseteq 1 .. MaxConns /\ \A j \in conns \ {k} : j \in conns'
BY DEF AccountsTypeOK, Returned

(* A connection that is handed out is nobody's. *)
LEMMA PoolAvailable ==
  ASSUME AccountsTypeOK, NEW k \in 1 .. MaxConns, Available(k), NEW c \in Caller,
         auth[c].conn # NoConn
  PROVE  auth[c].conn # k
BY DEF AccountsTypeOK, Available, Unopened, Idle

(* A single statement leaves the connections of running transactions. *)
LEMMA PoolStatement ==
  ASSUME AccountsTypeOK, NEW k \in 1 .. MaxConns, Statement(k)
  PROVE  /\ conns' \subseteq 1 .. MaxConns
         /\ \A c \in Caller : auth[c].conn # NoConn => auth[c].conn \in conns'
BY PoolReturn, PoolAvailable DEF Statement, AccountsTypeOK

-----------------------------------------------------------------------------
(* The initial states. *)
LEMMA AccountsInitInv == AccountsInit => AccountsInv
<1> SUFFICES ASSUME AccountsInit PROVE AccountsInv
  OBVIOUS
<1> USE DEF AccountsInit
<1>1. DOMAIN users = {} /\ devices = {}
  BY SMT
<1>2. NoCall \in Calls /\ NoCall.conn = NoConn /\ NoCall.at = "idle"
  BY NoCallTyped
<1>3. AuthOK
  BY <1>2 DEF AuthOK
<1>4. AccountsTypeOK
  BY <1>1, <1>2, SMT DEF AccountsTypeOK
<1>5. Snapshot
  BY <1>2 DEF Snapshot, Shared, TxPlaces
<1>6. DeviceQuota
  BY <1>1 DEF DeviceQuota
<1>7. QED
  BY <1>3, <1>4, <1>5, <1>6 DEF AccountsInv

-----------------------------------------------------------------------------
(* A statement of the admin API runs when no transaction has read, so all  *)
(* it must keep is the tables' own part.                                   *)
LEMMA AdminKeeps ==
  ASSUME AccountsInv, NoReaders, UNCHANGED auth, \E k \in 1 .. MaxConns : Statement(k)
  PROVE  /\ AuthOK' /\ Snapshot'
         /\ conns' \subseteq 1 .. MaxConns
         /\ \A c \in Caller : auth'[c].conn # NoConn =>
              /\ auth'[c].conn \in conns'
              /\ \A b \in Caller \ {c} : auth'[b].conn # auth'[c].conn
<1>1. AuthOK' /\ Snapshot'
  BY DEF AccountsInv, AuthOK, Snapshot, NoReaders, Shared
<1>2. QED
  BY <1>1, PoolStatement DEF AccountsInv, AccountsTypeOK

(* Fewer devices keep every account within its limit. *)
LEMMA FewerDevices ==
  ASSUME AccountsInv, devices' \subseteq devices, DOMAIN users' \subseteq DOMAIN users,
         \A id \in DOMAIN users' : EffectiveLimit(users'[id]) = EffectiveLimit(users[id])
  PROVE  DeviceQuota'
<1> SUFFICES ASSUME NEW id \in DOMAIN users'
             PROVE  Cardinality({d \in devices' : d[1] = id}) <= EffectiveLimit(users'[id])
  BY DEF DeviceQuota, DevicesOf
<1>1. {d \in devices' : d[1] = id} \subseteq DevicesOf(id)
  BY DEF DevicesOf
<1>2. IsFiniteSet(DevicesOf(id)) /\ Cardinality(DevicesOf(id)) \in Nat
  BY DevicesFinite DEF AccountsInv
<1>3. /\ Cardinality({d \in devices' : d[1] = id}) <= Cardinality(DevicesOf(id))
      /\ Cardinality({d \in devices' : d[1] = id}) \in Nat
  BY <1>1, <1>2, FS_Subset, FS_CardinalityType
<1>4. EffectiveLimit(users[id]) \in Int
  BY DEF EffectiveLimit, AccountsInv, AccountsTypeOK
<1>5. Cardinality(DevicesOf(id)) <= EffectiveLimit(users[id])
  BY DEF AccountsInv, DeviceQuota
<1>6. QED
  BY <1>2, <1>3, <1>4, <1>5, SMT

LEMMA CreateUserKeeps ==
  ASSUME AccountsInv, NEW role \in Roles, NEW limit \in Limits, CreateUser(role, limit)
  PROVE  AccountsInv'
<1> DEFINE new == lastId + 1
           row == [key |-> lastKey + 1, role |-> role, limit |-> limit]
<1>1. /\ NoReaders /\ UNCHANGED auth /\ \E k \in 1 .. MaxConns : Statement(k)
      /\ devices' = devices /\ lastId' = new /\ lastKey' = lastKey + 1
      /\ lastId < MaxUsers /\ lastKey < MaxKeys /\ limit \in 1 .. 5
      /\ users' = [id \in DOMAIN users \cup {new} |-> IF id = new THEN row ELSE users[id]]
  BY DEF CreateUser, LimitAllowed
<1>2. lastId \in Nat /\ lastKey \in Nat /\ new \notin DOMAIN users
  BY SMT DEF AccountsInv, AccountsTypeOK
<1>3. row \in [key : 1 .. lastKey', role : Roles, limit : 1 .. 5]
  BY <1>1, <1>2
<1>4. AccountsTypeOK'
  <2>1. \A id \in DOMAIN users' :
          users'[id] \in [key : 1 .. lastKey', role : Roles, limit : 1 .. 5]
    BY <1>1, <1>2, <1>3 DEF AccountsInv, AccountsTypeOK
  <2>2. DOMAIN users' \subseteq 1 .. lastId' /\ devices' \subseteq (1 .. lastId') \X Hwids
    BY <1>1, <1>2 DEF AccountsInv, AccountsTypeOK
  <2>3. lastId' \in 0 .. MaxUsers /\ lastKey' \in 0 .. MaxKeys
    BY <1>1, <1>2
  <2>4. QED
    BY <1>1, <2>1, <2>2, <2>3, AdminKeeps DEF AccountsTypeOK
<1>5. DeviceQuota'
  <2> SUFFICES ASSUME NEW id \in DOMAIN users'
               PROVE  Cardinality(DevicesOf(id)) <= EffectiveLimit(users'[id])
    BY <1>1 DEF DeviceQuota, DevicesOf
  <2>1. CASE id = new
    <3>1. DevicesOf(id) = {}
      BY <1>2, <2>1 DEF DevicesOf, AccountsInv, AccountsTypeOK
    <3>2. EffectiveLimit(users'[id]) >= 1 /\ EffectiveLimit(users'[id]) \in Int
      BY <1>1, <2>1 DEF EffectiveLimit
    <3>3. QED
      BY <3>1, <3>2, FS_EmptySet
  <2>2. CASE id # new
    BY <1>1, <2>2 DEF AccountsInv, DeviceQuota
  <2>3. QED
    BY <2>1, <2>2
<1>6. QED
  BY <1>1, <1>4, <1>5, AdminKeeps DEF AccountsInv

LEMMA UpdateUserAccessKeyKeeps ==
  ASSUME AccountsInv, NEW id \in DOMAIN users, UpdateUserAccessKey(id)
  PROVE  AccountsInv'
<1>1. /\ NoReaders /\ UNCHANGED auth /\ \E k \in 1 .. MaxConns : Statement(k)
      /\ devices' = devices /\ lastId' = lastId /\ lastKey' = lastKey + 1 /\ lastKey < MaxKeys
      /\ users' = [users EXCEPT ![id].key = lastKey + 1]
  BY DEF UpdateUserAccessKey
<1>2. lastId \in Nat /\ lastKey \in Nat
  BY DEF AccountsInv, AccountsTypeOK
<1>3. DOMAIN users' = DOMAIN users
  BY <1>1
<1>4. \A u \in DOMAIN users : /\ users'[u] \in [key : 1 .. lastKey', role : Roles, limit : 1 .. 5]
                              /\ users'[u].role = users[u].role
                              /\ users'[u].limit = users[u].limit
  BY <1>1, <1>2, SMT DEF AccountsInv, AccountsTypeOK
<1>5. AccountsTypeOK'
  BY <1>1, <1>2, <1>3, <1>4, AdminKeeps DEF AccountsInv, AccountsTypeOK
<1>6. DeviceQuota'
  BY <1>1, <1>3, <1>4, FewerDevices DEF EffectiveLimit
<1>7. QED
  BY <1>1, <1>5, <1>6, AdminKeeps DEF AccountsInv

LEMMA DeleteUserKeeps ==
  ASSUME AccountsInv, NEW id \in DOMAIN users, DeleteUser(id)
  PROVE  AccountsInv'
<1>1. /\ NoReaders /\ UNCHANGED auth /\ \E k \in 1 .. MaxConns : Statement(k)
      /\ devices' \subseteq devices /\ lastId' = lastId /\ lastKey' = lastKey
      /\ users' = [u \in DOMAIN users \ {id} |-> users[u]]
  BY DEF DeleteUser, DevicesOf
<1>2. AccountsTypeOK'
  BY <1>1, AdminKeeps DEF AccountsInv, AccountsTypeOK
<1>3. DeviceQuota'
  BY <1>1, FewerDevices
<1>4. QED
  BY <1>1, <1>2, <1>3, AdminKeeps DEF AccountsInv

LEMMA ResetUserDevicesKeeps ==
  ASSUME AccountsInv, NEW id \in 1 .. lastId, ResetUserDevices(id)
  PROVE  AccountsInv'
<1>1. /\ NoReaders /\ UNCHANGED auth /\ \E k \in 1 .. MaxConns : Statement(k)
      /\ devices' \subseteq devices /\ lastId' = lastId /\ lastKey' = lastKey
      /\ users' = users
  BY DEF ResetUserDevices, DevicesOf
<1>2. AccountsTypeOK'
  BY <1>1, AdminKeeps DEF AccountsInv, AccountsTypeOK
<1>3. DeviceQuota'
  BY <1>1, FewerDevices
<1>4. QED
  BY <1>1, <1>2, <1>3, AdminKeeps DEF AccountsInv

-----------------------------------------------------------------------------
(* A step of call c that changes neither table: it keeps the invariant if  *)
(* it keeps the pool and what is known of c.                               *)
LEMMA CallKeeps ==
  ASSUME AccountsInv, NEW c \in Caller, NEW rec \in Calls, Step(c, rec), UNCHANGED devices,
         conns' \subseteq 1 .. MaxConns,
         \A b \in Caller \ {c} : auth[b].conn # NoConn => auth[b].conn \in conns',
         rec.at \notin {"idle", "denied"} => rec.hwid \in Hwids,
         rec.conn # NoConn <=> rec.at \in {"read", "write", "commit"},
         rec.conn # NoConn => /\ rec.conn \in conns'
                              /\ \A b \in Caller \ {c} : auth[b].conn # rec.conn,
         rec.at \in TxPlaces => Fresh(c)'
  PROVE  AccountsInv'
<1>1. /\ auth' \in [Caller -> Calls] /\ auth'[c] = rec
      /\ \A b \in Caller \ {c} : auth'[b] = auth[b]
      /\ users' = users /\ lastId' = lastId /\ lastKey' = lastKey
  BY StepFacts DEF AccountsInv
<1>2. AuthOK'
  BY <1>1 DEF AuthOK, AccountsInv
<1>3. AccountsTypeOK'
  BY <1>1 DEF AccountsTypeOK, AccountsInv
<1>4. Snapshot'
  <2> SUFFICES ASSUME NEW b \in Caller, Shared(b)' PROVE Fresh(b)'
    BY DEF Snapshot
  <2>1. CASE b = c
    BY <1>1, <2>1 DEF Shared
  <2>2. CASE b # c
    <3>1. Shared(b) /\ auth'[b] = auth[b] /\ DevicesOf(auth[b].user)' = DevicesOf(auth[b].user)
      BY <1>1, <2>2, Zenon DEF Shared, DevicesOf
    <3>2. Fresh(b)
      BY <3>1, Zenon DEF Snapshot, AccountsInv
    <3>3. QED
      BY <1>1, <3>1, <3>2, Zenon DEF Fresh
  <2>3. QED
    BY <2>1, <2>2
<1>5. DeviceQuota'
  BY <1>1 DEF DeviceQuota, DevicesOf, AccountsInv
<1>6. QED
  BY <1>2, <1>3, <1>4, <1>5 DEF AccountsInv

(* A refused call gives its connection back. *)
LEMMA FailKeeps ==
  ASSUME AccountsInv, NEW c \in Caller, auth[c].at \in {"read", "write", "commit"}, Fail(c)
  PROVE  AccountsInv'
<1> DEFINE rec == [NoCall EXCEPT !.at = "denied"]
<1>1. rec \in Calls /\ rec.at = "denied" /\ rec.conn = NoConn
  BY NoCallTyped DEF NoCall, Calls
<1>2. auth[c].conn \in 1 .. MaxConns /\ conns' = Returned(auth[c].conn)
  BY SMT DEF AccountsInv, AuthOK, Calls, Fail
<1>3. /\ conns' \subseteq 1 .. MaxConns
      /\ \A b \in Caller \ {c} : auth[b].conn # NoConn => auth[b].conn \in conns'
  BY <1>2, PoolReturn DEF AccountsInv, AccountsTypeOK
<1>4. Step(c, rec) /\ UNCHANGED devices
  BY DEF Fail
<1>5. QED
  BY <1>1, <1>3, <1>4, CallKeeps DEF TxPlaces

LEMMA AuthCallKeeps ==
  ASSUME AccountsInv, NEW c \in Caller, NEW key \in 0 .. lastKey, NEW hwid \in Hwids,
         AuthCall(c, key, hwid)
  PROVE  AccountsInv'
<1> DEFINE rec == [NoCall EXCEPT !.at = "lookup", !.key = key, !.hwid = hwid]
<1>1. rec \in Calls /\ rec.at = "lookup" /\ rec.conn = NoConn /\ rec.hwid \in Hwids
  <2>1. key \in Nat
    BY SMT DEF AccountsInv, AccountsTypeOK
  <2>2. QED
    BY <2>1, NoCallTyped DEF NoCall, Calls
<1>2. Step(c, rec) /\ UNCHANGED devices /\ conns' = conns
  BY DEF AuthCall
<1>3. QED
  BY <1>1, <1>2, CallKeeps DEF TxPlaces, AccountsInv, AccountsTypeOK

LEMMA LookupFoundKeeps ==
  ASSUME AccountsInv, NEW c \in Caller, LookupFound(c)
  PROVE  AccountsInv'
<1>1. PICK id \in DOMAIN users : Step(c, [auth[c] EXCEPT !.at = "begin", !.user = id])
  BY DEF LookupFound
<1> DEFINE rec == [auth[c] EXCEPT !.at = "begin", !.user = id]
<1>2. auth[c] \in Calls /\ auth[c].at = "lookup" /\ auth[c].hwid \in Hwids /\ auth[c].conn = NoConn
  BY DEF LookupFound, AccountsInv, AuthOK
<1>3. id \in Nat
  BY SMT DEF AccountsInv, AccountsTypeOK
<1>4. rec \in Calls /\ rec.at = "begin" /\ rec.conn = NoConn /\ rec.hwid \in Hwids
  BY <1>2, <1>3 DEF Calls
<1>5. /\ conns' \subseteq 1 .. MaxConns
      /\ \A b \in Caller \ {c} : auth[b].conn # NoConn => auth[b].conn \in conns'
  BY PoolStatement DEF LookupFound, AccountsInv
<1>6. Step(c, rec) /\ UNCHANGED devices
  BY <1>1 DEF LookupFound
<1>7. QED
  BY <1>4, <1>5, <1>6, CallKeeps DEF TxPlaces

LEMMA LookupFailedKeeps ==
  ASSUME AccountsInv, NEW c \in Caller, LookupFailed(c)
  PROVE  AccountsInv'
<1> DEFINE rec == [NoCall EXCEPT !.at = "denied"]
<1>1. rec \in Calls /\ rec.at = "denied" /\ rec.conn = NoConn
  BY NoCallTyped DEF NoCall, Calls
<1>2. /\ conns' \subseteq 1 .. MaxConns
      /\ \A b \in Caller \ {c} : auth[b].conn # NoConn => auth[b].conn \in conns'
  BY PoolStatement DEF LookupFailed, AccountsInv
<1>3. Step(c, rec) /\ UNCHANGED devices
  BY DEF LookupFailed
<1>4. QED
  BY <1>1, <1>2, <1>3, CallKeeps DEF TxPlaces

LEMMA TxBeginKeeps ==
  ASSUME AccountsInv, NEW c \in Caller, TxBegin(c)
  PROVE  AccountsInv'
<1>1. PICK k \in 1 .. MaxConns :
        Available(k) /\ conns' = conns \cup {k}
        /\ Step(c, [auth[c] EXCEPT !.at = "read", !.conn = k])
  BY DEF TxBegin
<1> DEFINE rec == [auth[c] EXCEPT !.at = "read", !.conn = k]
<1>2. auth[c] \in Calls /\ auth[c].at = "begin" /\ auth[c].hwid \in Hwids
  BY DEF TxBegin, AccountsInv, AuthOK
<1>3. k \in 0 .. MaxConns /\ k # NoConn
  BY SMT
<1>4. rec \in Calls /\ rec.at = "read" /\ rec.conn = k /\ rec.hwid \in Hwids
  BY <1>2, <1>3 DEF Calls
<1>5. \A b \in Caller \ {c} : auth[b].conn # k
  BY <1>1, <1>3, PoolAvailable DEF AccountsInv
<1>6. /\ conns' \subseteq 1 .. MaxConns /\ k \in conns'
      /\ \A b \in Caller \ {c} : auth[b].conn # NoConn => auth[b].conn \in conns'
  BY <1>1 DEF AccountsInv, AccountsTypeOK
<1>7. Step(c, rec) /\ UNCHANGED devices
  BY <1>1 DEF TxBegin
<1>8. QED
  BY <1>3, <1>4, <1>5, <1>6, <1>7, CallKeeps DEF TxPlaces

(* A call that keeps its connection, which the pool keeps for it. *)
LEMMA OwnConnection ==
  ASSUME AccountsInv, NEW c \in Caller, auth[c].at \in {"read", "write", "commit"},
         UNCHANGED conns
  PROVE  /\ auth[c].conn # NoConn /\ auth[c].conn \in conns'
         /\ \A b \in Caller \ {c} : auth[b].conn # auth[c].conn
         /\ conns' \subseteq 1 .. MaxConns
         /\ \A b \in Caller \ {c} : auth[b].conn # NoConn => auth[b].conn \in conns'
BY DEF AccountsInv, AuthOK, AccountsTypeOK

LEMMA TxReadKeeps ==
  ASSUME AccountsInv, NEW c \in Caller, TxRead(c)
  PROVE  AccountsInv'
<1> DEFINE u == auth[c].user
           rec == [auth[c] EXCEPT !.at = "write", !.limit = EffectiveLimit(users[u]),
                                  !.count = Cardinality(DevicesOf(u)),
                                  !.exists = <<u, auth[c].hwid>> \in devices]
<1>1. /\ auth[c] \in Calls /\ auth[c].at = "read" /\ auth[c].hwid \in Hwids
      /\ u \in DOMAIN users /\ Step(c, rec) /\ UNCHANGED <<devices, conns>>
  BY DEF TxRead, AccountsInv, AuthOK
<1>2. Cardinality(DevicesOf(u)) \in Nat
  BY DevicesFinite DEF AccountsInv
<1>3. EffectiveLimit(users[u]) \in Int
  BY <1>1 DEF EffectiveLimit, AccountsInv, AccountsTypeOK
<1>4. (<<u, auth[c].hwid>> \in devices) \in BOOLEAN
  OBVIOUS
<1>5. /\ rec \in Calls /\ rec.at = "write" /\ rec.conn = auth[c].conn /\ rec.hwid = auth[c].hwid
      /\ rec.user = u /\ rec.limit = EffectiveLimit(users[u])
      /\ rec.count = Cardinality(DevicesOf(u))
      /\ rec.exists = (<<u, auth[c].hwid>> \in devices)
  BY <1>1, <1>2, <1>3, <1>4 DEF Calls
<1>6. Fresh(c)'
  <2>1. auth'[c] = rec /\ users' = users /\ devices' = devices
    BY <1>1, <1>5, StepFacts DEF AccountsInv
  <2>2. rec.at # "commit"
    BY <1>5, SMT
  <2>3. \A d : DevicesOf(d)' = DevicesOf(d)
    BY <2>1 DEF DevicesOf
  <2>4. QED
    BY <1>1, <1>5, <2>1, <2>2, <2>3, ZenonT(60) DEF Fresh
<1>7. QED
  BY <1>1, <1>5, <1>6, OwnConnection, CallKeeps, ZenonT(60)

LEMMA TxWriteKeeps ==
  ASSUME AccountsInv, NEW c \in Caller, TxWrite(c)
  PROVE  AccountsInv'
<1> DEFINE rec == [auth[c] EXCEPT !.at = "commit"]
<1>1. /\ auth[c] \in Calls /\ auth[c].at = "write" /\ auth[c].hwid \in Hwids
      /\ auth[c].exists \/ auth[c].count < auth[c].limit
      /\ Step(c, rec) /\ UNCHANGED <<devices, conns>>
  BY DEF TxWrite, AccountsInv, AuthOK
<1>2. /\ rec \in Calls /\ rec.at = "commit" /\ rec.conn = auth[c].conn /\ rec.hwid = auth[c].hwid
      /\ rec.user = auth[c].user /\ rec.limit = auth[c].limit
      /\ rec.count = auth[c].count /\ rec.exists = auth[c].exists
  BY <1>1 DEF Calls
<1>3. Fresh(c)
  BY <1>1 DEF AccountsInv, Snapshot, Shared, TxPlaces
<1>4. Fresh(c)'
  <2>1. auth'[c] = rec /\ users' = users /\ devices' = devices
    BY <1>1, <1>2, StepFacts DEF AccountsInv
  <2>2. QED
    BY <1>1, <1>2, <1>3, <2>1 DEF Fresh, DevicesOf
<1>5. QED
  BY <1>1, <1>2, <1>4, OwnConnection, CallKeeps, ZenonT(60)

(* The commit inserts on a count that is still good, since nobody else has *)
(* a transaction that reads.                                               *)
LEMMA TxCommitKeeps ==
  ASSUME AccountsInv, NEW c \in Caller, TxCommit(c)
  PROVE  /\ AccountsInv'
         /\ auth'[c].user \in DOMAIN users' /\ <<auth'[c].user, auth'[c].hwid>> \in devices'
<1> DEFINE u == auth[c].user
           h == auth[c].hwid
           rec == [auth[c] EXCEPT !.at = "admitted", !.conn = NoConn, !.limit = 0,
                                  !.count = 0, !.exists = FALSE]
<1>1. /\ auth[c] \in Calls /\ auth[c].at = "commit" /\ h \in Hwids
      /\ \A b \in Caller \ {c} : ~Shared(b)
      /\ devices' = devices \cup {<<u, h>>} /\ conns' = Returned(auth[c].conn) /\ Step(c, rec)
  BY DEF TxCommit, AccountsInv, AuthOK
<1>2. /\ rec \in Calls /\ rec.at = "admitted" /\ rec.conn = NoConn
      /\ rec.hwid = h /\ rec.user = u
  BY <1>1, NoCallTyped DEF Calls, NoCall
<1>3. Fresh(c)
  BY <1>1 DEF AccountsInv, Snapshot, Shared, TxPlaces
<1>4. /\ auth' \in [Caller -> Calls] /\ auth'[c] = rec
      /\ \A b \in Caller \ {c} : auth'[b] = auth[b]
      /\ users' = users /\ lastId' = lastId /\ lastKey' = lastKey
  BY <1>1, <1>2, StepFacts DEF AccountsInv
<1>5. AuthOK'
  BY <1>1, <1>2, <1>4 DEF AuthOK, AccountsInv
<1>6. AccountsTypeOK'
  <2>1. auth[c].conn \in 1 .. MaxConns
    BY <1>1, SMT DEF AccountsInv, AuthOK, Calls
  <2>2. conns' \subseteq 1 .. MaxConns /\ \A j \in conns \ {auth[c].conn} : j \in conns'
    BY <1>1, <2>1, PoolReturn DEF AccountsInv
  <2>3. u \in 1 .. lastId
    BY <1>3 DEF Fresh, AccountsInv, AccountsTypeOK
  <2>4. devices' \subseteq (1 .. lastId') \X Hwids
    BY <1>1, <1>4, <2>3 DEF AccountsInv, AccountsTypeOK
  <2>5. \A b \in Caller : auth'[b].conn # NoConn =>
          /\ auth'[b].conn \in conns'
          /\ \A a \in Caller \ {b} : auth'[a].conn # auth'[b].conn
    <3> SUFFICES ASSUME NEW b \in Caller, auth'[b].conn # NoConn
                 PROVE  /\ auth'[b].conn \in conns'
                        /\ \A a \in Caller \ {b} : auth'[a].conn # auth'[b].conn
      OBVIOUS
    <3>1. b # c /\ auth'[b] = auth[b]
      BY <1>2, <1>4
    <3>2. auth[b].conn \in conns \ {auth[c].conn}
      BY <3>1 DEF AccountsInv, AccountsTypeOK
    <3>3. ASSUME NEW a \in Caller \ {b} PROVE auth'[a].conn # auth[b].conn
      <4>1. CASE a = c
        BY <1>2, <1>4, <3>1, <4>1
      <4>2. CASE a # c
        BY <1>4, <3>1, <4>2 DEF AccountsInv, AccountsTypeOK
      <4>3. QED
        BY <4>1, <4>2
    <3>4. QED
      BY <2>2, <3>1, <3>2, <3>3
  <2>6. QED
    BY <1>4, <2>2, <2>4, <2>5 DEF AccountsInv, AccountsTypeOK
<1>7. Snapshot'
  BY <1>1, <1>2, <1>4 DEF Snapshot, Shared, TxPlaces
<1>8. DeviceQuota'
  <2> SUFFICES ASSUME NEW id \in DOMAIN users
               PROVE  Cardinality({d \in devices' : d[1] = id}) <= EffectiveLimit(users[id])
    BY <1>4 DEF DeviceQuota, DevicesOf
  <2>1. Cardinality(DevicesOf(id)) <= EffectiveLimit(users[id])
    BY DEF AccountsInv, DeviceQuota
  <2>2. CASE id # u \/ auth[c].exists
    <3>1. {d \in devices' : d[1] = id} = DevicesOf(id)
      BY <1>1, <1>3, <2>2 DEF DevicesOf, Fresh
    <3>2. QED
      BY <2>1, <3>1
  <2>3. CASE id = u /\ ~auth[c].exists
    <3>1. {d \in devices' : d[1] = id} = DevicesOf(id) \cup {<<u, h>>}
      BY <1>1, <2>3 DEF DevicesOf
    <3>2. <<u, h>> \notin DevicesOf(id)
      BY <1>3, <2>3 DEF DevicesOf, Fresh
    <3>3. IsFiniteSet(DevicesOf(id)) /\ Cardinality(DevicesOf(id)) \in Nat
      BY DevicesFinite DEF AccountsInv
    <3>4. Cardinality({d \in devices' : d[1] = id}) = Cardinality(DevicesOf(id)) + 1
      BY <3>1, <3>2, <3>3, FS_AddElement
    <3>5. Cardinality(DevicesOf(id)) < EffectiveLimit(users[id])
      BY <1>1, <1>3, <2>3 DEF Fresh
    <3>6. EffectiveLimit(users[id]) \in Int
      BY DEF EffectiveLimit, AccountsInv, AccountsTypeOK
    <3>7. QED
      BY <3>3, <3>4, <3>5, <3>6, SMT
  <2>4. QED
    BY <2>2, <2>3
<1>9. auth'[c].user \in DOMAIN users' /\ <<auth'[c].user, auth'[c].hwid>> \in devices'
  BY <1>1, <1>2, <1>3, <1>4 DEF Fresh
<1>10. QED
  BY <1>5, <1>6, <1>7, <1>8, <1>9 DEF AccountsInv

-----------------------------------------------------------------------------
(* Every step keeps the invariant. *)
LEMMA AccountsStepInv == AccountsInv /\ [AccountsNext]_accountVars => AccountsInv'
<1> SUFFICES ASSUME AccountsInv, [AccountsNext]_accountVars PROVE AccountsInv'
  OBVIOUS
<1>1. ASSUME NEW role \in Roles, NEW limit \in Limits, CreateUser(role, limit)
      PROVE  AccountsInv'
  BY <1>1, CreateUserKeeps
<1>2. ASSUME NEW id \in DOMAIN users, UpdateUserAccessKey(id) \/ DeleteUser(id)
      PROVE  AccountsInv'
  BY <1>2, UpdateUserAccessKeyKeeps, DeleteUserKeeps
<1>3. ASSUME NEW id \in 1 .. lastId, ResetUserDevices(id)
      PROVE  AccountsInv'
  BY <1>3, ResetUserDevicesKeeps
<1>4. ASSUME NEW c \in Caller, AuthStep(c)
      PROVE  AccountsInv'
  <2>1. CASE \E key \in 0 .. lastKey, hwid \in Hwids : AuthCall(c, key, hwid)
    BY <2>1, AuthCallKeeps
  <2>2. CASE LookupFound(c) \/ LookupFailed(c)
    BY <2>2, LookupFoundKeeps, LookupFailedKeeps
  <2>3. CASE TxBegin(c) \/ TxRead(c) \/ TxWrite(c) \/ TxCommit(c)
    BY <2>3, TxBeginKeeps, TxReadKeeps, TxWriteKeeps, TxCommitKeeps
  <2>4. CASE TxUserGone(c) \/ TxRefused(c) \/ TxCommitBusy(c)
    BY <2>4, FailKeeps DEF TxUserGone, TxRefused, TxCommitBusy
  <2>5. QED
    BY <1>4, <2>1, <2>2, <2>3, <2>4 DEF AuthStep
<1>5. CASE UNCHANGED accountVars
  BY <1>5, SMTT(30) DEF accountVars, AccountsInv, AccountsTypeOK, AuthOK, Snapshot, Shared, Fresh,
              DeviceQuota, DevicesOf
<1>6. QED
  BY <1>1, <1>2, <1>3, <1>4, <1>5 DEF AccountsNext

LEMMA AccountsInvAlways == AccountsSpec => []AccountsInv
BY AccountsInitInv, AccountsStepInv, PTL DEF AccountsSpec

-----------------------------------------------------------------------------
(* Type correctness: rows satisfy the schema's CHECKs and no two running   *)
(* transactions share a connection (db.go:63-107, 212-267).                *)
THEOREM AccountsTypeCorrect == AccountsSpec => []AccountsTypeOK
<1>1. AccountsInv => AccountsTypeOK
  BY DEF AccountsInv
<1>2. QED
  BY <1>1, AccountsInvAlways, PTL

(* However many clients authenticate at once, no account has more devices  *)
(* than its limit (auth.go:14-15, db.go:212-267).                          *)
THEOREM QuotaKept == AccountsSpec => []DeviceQuota
<1>1. AccountsInv => DeviceQuota
  BY DEF AccountsInv
<1>2. QED
  BY <1>1, AccountsInvAlways, PTL

(* Only a commit makes a call succeed. *)
LEMMA OnlyCommitAdmits ==
  ASSUME AccountsInv, [AccountsNext]_accountVars, NEW c \in Caller,
         auth[c].at # "admitted", auth'[c].at = "admitted"
  PROVE  TxCommit(c)
<1>1. ASSUME NEW b \in Caller, NEW rec, Step(b, rec) PROVE b = c /\ rec.at = "admitted"
  BY <1>1 DEF Step, AccountsInv, AuthOK
<1>2. NoCall.at # "admitted" /\ [NoCall EXCEPT !.at = "denied"].at = "denied"
  BY DEF NoCall
<1>3. \A b \in Caller : ~Fail(b) /\ ~LookupFailed(b)
  BY <1>1, <1>2 DEF Fail, LookupFailed
<1>4. \A b \in Caller, key \in 0 .. lastKey, hwid \in Hwids : ~AuthCall(b, key, hwid)
  <2>1. \A key \in 0 .. lastKey, hwid \in Hwids :
          [NoCall EXCEPT !.at = "lookup", !.key = key, !.hwid = hwid].at # "admitted"
    BY DEF NoCall
  <2>2. QED
    BY <1>1, <2>1 DEF AuthCall
<1>5. ASSUME NEW b \in Caller
      PROVE  ~LookupFound(b) /\ ~TxBegin(b) /\ ~TxRead(b) /\ ~TxWrite(b)
  <2>1. auth[b] \in Calls
    BY DEF AccountsInv, AuthOK
  <2>2. /\ \A id : [auth[b] EXCEPT !.at = "begin", !.user = id].at # "admitted"
        /\ \A k : [auth[b] EXCEPT !.at = "read", !.conn = k].at # "admitted"
        /\ [auth[b] EXCEPT !.at = "write", !.limit = EffectiveLimit(users[auth[b].user]),
                           !.count = Cardinality(DevicesOf(auth[b].user)),
                           !.exists = <<auth[b].user, auth[b].hwid>> \in devices].at # "admitted"
        /\ [auth[b] EXCEPT !.at = "commit"].at # "admitted"
    BY <2>1 DEF Calls
  <2>3. ~LookupFound(b)
    BY <1>1, <2>2 DEF LookupFound
  <2>4. ~TxBegin(b)
    BY <1>1, <2>2 DEF TxBegin
  <2>5. ~TxRead(b)
    BY <1>1, <2>2 DEF TxRead
  <2>6. ~TxWrite(b)
    BY <1>1, <2>2 DEF TxWrite
  <2>7. QED
    BY <2>3, <2>4, <2>5, <2>6
<1>6. ~UNCHANGED auth
  OBVIOUS
<1>7. PICK b \in Caller : TxCommit(b)
  BY <1>3, <1>4, <1>5, <1>6
     DEF AccountsNext, AuthStep, CreateUser, UpdateUserAccessKey, DeleteUser, ResetUserDevices,
         TxUserGone, TxRefused, TxCommitBusy, accountVars
<1>8. b = c
  BY <1>1, <1>7 DEF TxCommit
<1>9. QED
  BY <1>7, <1>8

(* Whoever is admitted is registered under an account that still exists,   *)
(* for any number of clients and of changes in between (auth.go:24-43).    *)
THEOREM AdmittedAreRegistered == AccountsSpec => AdmittedOnlyRegistered
<1>1. ASSUME AccountsInv, AccountsNext, NEW c \in Caller,
             auth[c].at # "admitted", auth'[c].at = "admitted"
      PROVE  /\ auth'[c].user \in DOMAIN users'
             /\ <<auth'[c].user, auth'[c].hwid>> \in devices'
  BY <1>1, OnlyCommitAdmits, TxCommitKeeps
<1>2. AccountsInv /\ [AccountsNext]_accountVars =>
        [\A c \in Caller : auth[c].at # "admitted" /\ auth'[c].at = "admitted" =>
           /\ auth'[c].user \in DOMAIN users'
           /\ <<auth'[c].user, auth'[c].hwid>> \in devices']_accountVars
  BY <1>1
<1>3. QED
  BY <1>2, AccountsInvAlways, PTL DEF AccountsSpec, AdmittedOnlyRegistered

(* What a commit finds in the tables is what its SELECTs found earlier. *)
LEMMA CommitIsCurrent ==
  ASSUME AccountsInv, NEW c \in Caller, TxCommit(c)
  PROVE  /\ auth[c].user \in DOMAIN users
         /\ \/ <<auth[c].user, auth[c].hwid>> \in devices
            \/ Cardinality(DevicesOf(auth[c].user)) < EffectiveLimit(users[auth[c].user])
         /\ devices' = devices \cup {<<auth[c].user, auth[c].hwid>>}
         /\ users' = users
<1>1. auth[c].at = "commit"
  BY DEF TxCommit
<1>2. Fresh(c)
  BY <1>1 DEF AccountsInv, Snapshot, Shared, TxPlaces
<1>3. devices' = devices \cup {<<auth[c].user, auth[c].hwid>>} /\ users' = users
  BY DEF TxCommit, Step
<1>4. QED
  BY <1>1, <1>2, <1>3 DEF Fresh

(* Authenticate is serializable: at the moment a call succeeds, the tables *)
(* as they are then, not as the call read them, admit its device: the      *)
(* account exists, and has the device already or room for one more; and    *)
(* the call adds that one row.  The statements of admins and the other     *)
(* calls run between its steps, each on its own connection                 *)
(* (auth.go:24-43, db.go:212-267).                                         *)
THEOREM AdmissionSerializable ==
  AccountsSpec =>
    [][\A c \in Caller :
         auth[c].at # "admitted" /\ auth'[c].at = "admitted" =>
           /\ auth[c].user \in DOMAIN users
           /\ \/ <<auth[c].user, auth[c].hwid>> \in devices
              \/ Cardinality(DevicesOf(auth[c].user)) < EffectiveLimit(users[auth[c].user])
           /\ devices' = devices \cup {<<auth[c].user, auth[c].hwid>>}
           /\ users' = users]_accountVars
<1>1. AccountsInv /\ [AccountsNext]_accountVars =>
        \A c \in Caller :
          auth[c].at # "admitted" /\ auth'[c].at = "admitted" =>
            /\ auth[c].user \in DOMAIN users
            /\ \/ <<auth[c].user, auth[c].hwid>> \in devices
               \/ Cardinality(DevicesOf(auth[c].user)) < EffectiveLimit(users[auth[c].user])
            /\ devices' = devices \cup {<<auth[c].user, auth[c].hwid>>}
            /\ users' = users
  BY OnlyCommitAdmits, CommitIsCurrent
<1>2. QED
  BY <1>1, AccountsInvAlways, PTL DEF AccountsSpec

-----------------------------------------------------------------------------
(* Identities *)

(* No two accounts have one key (db.go:73-79). *)
KeysUnique == \A i, j \in DOMAIN users : users[i].key = users[j].key => i = j

(* How a step changes the accounts: a new id and a new key come from the   *)
(* counters, and only a commit adds a device.                              *)
LEMMA AccountsEvolve ==
  ASSUME AccountsInv, [AccountsNext]_accountVars
  PROVE  /\ lastId' \in Nat /\ lastKey' \in Nat /\ lastId' >= lastId /\ lastKey' >= lastKey
         /\ \A i \in DOMAIN users' : i \in DOMAIN users \/ i = lastId + 1
         /\ \A i \in DOMAIN users' :
              \/ i \in DOMAIN users /\ users'[i].key = users[i].key
              \/ /\ users'[i].key = lastKey + 1
                 /\ \A j \in DOMAIN users' \ {i} : j \in DOMAIN users /\ users'[j].key = users[j].key
         /\ \A d \in devices' : d \in devices \/ d[1] \in DOMAIN users
<1>t. lastId \in Nat /\ lastKey \in Nat
  BY DEF AccountsInv, AccountsTypeOK
<1>s. ASSUME UNCHANGED <<users, lastId, lastKey>>
      PROVE  /\ lastId' \in Nat /\ lastKey' \in Nat /\ lastId' >= lastId /\ lastKey' >= lastKey
             /\ \A i \in DOMAIN users' : i \in DOMAIN users /\ users'[i].key = users[i].key
  BY <1>s, <1>t
<1>1. ASSUME NEW role \in Roles, NEW limit \in Limits, CreateUser(role, limit)
      PROVE  /\ DOMAIN users' = DOMAIN users \cup {lastId + 1}
             /\ users'[lastId + 1].key = lastKey + 1
             /\ \A j \in DOMAIN users' \ {lastId + 1} : users'[j].key = users[j].key
             /\ lastId' = lastId + 1 /\ lastKey' = lastKey + 1 /\ devices' = devices
  BY <1>1, Zenon DEF CreateUser
<1>2. ASSUME NEW id \in DOMAIN users, UpdateUserAccessKey(id)
      PROVE  /\ DOMAIN users' = DOMAIN users
             /\ users'[id].key = lastKey + 1
             /\ \A j \in DOMAIN users' \ {id} : users'[j].key = users[j].key
             /\ lastId' = lastId /\ lastKey' = lastKey + 1 /\ devices' = devices
  <2>1. users[id] \in [key : 1 .. lastKey, role : Roles, limit : 1 .. 5]
    BY DEF AccountsInv, AccountsTypeOK
  <2>2. users' = [users EXCEPT ![id] = [users[id] EXCEPT !.key = lastKey + 1]]
        /\ lastId' = lastId /\ lastKey' = lastKey + 1 /\ devices' = devices
    BY <1>2 DEF UpdateUserAccessKey
  <2>3. [users[id] EXCEPT !.key = lastKey + 1].key = lastKey + 1
    BY <2>1
  <2>4. QED
    BY <2>2, <2>3, Zenon
<1>3. ASSUME NEW id \in DOMAIN users, DeleteUser(id)
      PROVE  /\ DOMAIN users' \subseteq DOMAIN users
             /\ \A j \in DOMAIN users' : users'[j].key = users[j].key
             /\ lastId' = lastId /\ lastKey' = lastKey /\ devices' \subseteq devices
  BY <1>3 DEF DeleteUser
<1>4. ASSUME NEW id \in 1 .. lastId, ResetUserDevices(id)
      PROVE  UNCHANGED <<users, lastId, lastKey>> /\ devices' \subseteq devices
  BY <1>4 DEF ResetUserDevices
<1>5. ASSUME NEW c \in Caller, AuthStep(c)
      PROVE  /\ UNCHANGED <<users, lastId, lastKey>>
             /\ \A d \in devices' : d \in devices \/ d[1] \in DOMAIN users
  <2>1. CASE TxCommit(c)
    <3>1. UNCHANGED <<users, lastId, lastKey>>
      BY <2>1 DEF TxCommit, Step
    <3>2. auth[c].user \in DOMAIN users /\ devices' = devices \cup {<<auth[c].user, auth[c].hwid>>}
      BY <2>1, CommitIsCurrent
    <3>3. QED
      BY <3>1, <3>2
  <2>2. CASE \E key \in 0 .. lastKey, hwid \in Hwids : AuthCall(c, key, hwid)
    BY <2>2 DEF AuthCall, Step
  <2>3. CASE LookupFound(c) \/ LookupFailed(c) \/ TxBegin(c)
    BY <2>3, Zenon DEF LookupFound, LookupFailed, TxBegin, Step
  <2>4. CASE TxRead(c) \/ TxWrite(c)
    BY <2>4, Zenon DEF TxRead, TxWrite, Step
  <2>5. CASE TxUserGone(c) \/ TxRefused(c) \/ TxCommitBusy(c)
    BY <2>5, Zenon DEF TxUserGone, TxRefused, TxCommitBusy, Fail, Step
  <2>6. QED
    BY <1>5, <2>1, <2>2, <2>3, <2>4, <2>5 DEF AuthStep
<1>6. CASE UNCHANGED accountVars
  BY <1>6, <1>s DEF accountVars
<1>c. CASE \E role \in Roles, limit \in Limits : CreateUser(role, limit)
  BY <1>c, <1>1, <1>t
<1>u. CASE \E id \in DOMAIN users : UpdateUserAccessKey(id)
  BY <1>u, <1>2, <1>t
<1>d. CASE \E id \in DOMAIN users : DeleteUser(id)
  BY <1>d, <1>3, <1>t
<1>r. CASE \E id \in 1 .. lastId : ResetUserDevices(id)
  BY <1>r, <1>4, <1>s
<1>a. CASE \E c \in Caller : AuthStep(c)
  BY <1>a, <1>5, <1>s
<1>7. QED
  BY <1>6, <1>c, <1>u, <1>d, <1>r, <1>a DEF AccountsNext

(* GetUserByKey finds at most one account, for any number of accounts      *)
(* created, deleted and given new keys (db.go:73-79, 110-127, 163-176).    *)
THEOREM KeyNamesOneAccount == AccountsSpec => []KeysUnique
<1>1. AccountsInit => KeysUnique
  BY DEF AccountsInit, KeysUnique
<1>2. AccountsInv /\ KeysUnique /\ [AccountsNext]_accountVars => KeysUnique'
  <2>1. SUFFICES ASSUME AccountsInv, KeysUnique, [AccountsNext]_accountVars,
                        NEW i \in DOMAIN users', NEW j \in DOMAIN users',
                        users'[i].key = users'[j].key
                 PROVE  i = j
    BY DEF KeysUnique
  <2>2. \A k \in DOMAIN users : users[k].key # lastKey + 1
    <3>1. lastKey \in Nat /\ \A k \in DOMAIN users : users[k].key \in 1 .. lastKey
      BY <2>1 DEF AccountsInv, AccountsTypeOK
    <3>2. QED
      BY <3>1
  <2>3. CASE users'[i].key # lastKey + 1
    <3>1. /\ i \in DOMAIN users /\ users'[i].key = users[i].key
          /\ j \in DOMAIN users /\ users'[j].key = users[j].key
      BY <2>1, <2>3, AccountsEvolve, Zenon
    <3>2. QED
      BY <2>1, <3>1, Zenon DEF KeysUnique
  <2>4. CASE users'[i].key = lastKey + 1
    <3>1. ~(i \in DOMAIN users /\ users'[i].key = users[i].key)
      BY <2>2, <2>4, Zenon
    <3>2. \A k \in DOMAIN users' \ {i} : k \in DOMAIN users /\ users'[k].key = users[k].key
      BY <2>1, <3>1, AccountsEvolve, Zenon
    <3>3. QED
      BY <2>1, <2>2, <2>4, <3>2, Zenon
  <2>5. QED
    BY <2>3, <2>4
<1>3. QED
  BY <1>1, <1>2, AccountsInvAlways, PTL DEF AccountsSpec

(* Nothing that was taken away comes back: a deleted id is never used      *)
(* again, a key that no account has any more never works again, and an     *)
(* account starts without devices even when a deletion ran on a pooled     *)
(* connection that enforces no foreign keys and left rows behind           *)
(* (db.go:63-107, 110-127, 163-206).                                       *)
THEOREM NothingComesBack ==
  AccountsSpec =>
    [][/\ \A i \in 1 .. lastId : i \notin DOMAIN users => i \notin DOMAIN users'
       /\ \A k \in 1 .. lastKey :
            (\A i \in DOMAIN users : users[i].key # k) => \A i \in DOMAIN users' : users'[i].key # k
       /\ \A i \in DOMAIN users' \ DOMAIN users : \A d \in devices' : d[1] # i]_accountVars
<1>1. ASSUME AccountsInv, [AccountsNext]_accountVars
      PROVE  /\ \A i \in 1 .. lastId : i \notin DOMAIN users => i \notin DOMAIN users'
             /\ \A k \in 1 .. lastKey :
                  (\A i \in DOMAIN users : users[i].key # k) => \A i \in DOMAIN users' : users'[i].key # k
             /\ \A i \in DOMAIN users' \ DOMAIN users : \A d \in devices' : d[1] # i
  <2>1. /\ lastId \in Nat /\ lastKey \in Nat /\ DOMAIN users \subseteq 1 .. lastId
        /\ devices \subseteq (1 .. lastId) \X Hwids
    BY <1>1 DEF AccountsInv, AccountsTypeOK
  <2>2. lastId + 1 \notin 1 .. lastId /\ lastKey + 1 \notin 1 .. lastKey
    BY <2>1
  <2>3. \A i \in 1 .. lastId : i \notin DOMAIN users => i \notin DOMAIN users'
    BY <1>1, <2>2, AccountsEvolve
  <2>4. ASSUME NEW k \in 1 .. lastKey, \A i \in DOMAIN users : users[i].key # k,
               NEW i \in DOMAIN users'
        PROVE  users'[i].key # k
    BY <1>1, <2>2, <2>4, AccountsEvolve, Zenon
  <2>5. ASSUME NEW i \in DOMAIN users' \ DOMAIN users, NEW d \in devices'
        PROVE  d[1] # i
    <3>1. i = lastId + 1 /\ (d \in devices \/ d[1] \in DOMAIN users)
      BY <1>1, AccountsEvolve
    <3>2. d[1] \in 1 .. lastId
      BY <3>1, <2>1
    <3>3. QED
      BY <3>1, <3>2, <2>2
  <2>6. QED
    BY <2>3, <2>4, <2>5
<1>2. AccountsInv /\ [AccountsNext]_accountVars =>
        /\ \A i \in 1 .. lastId : i \notin DOMAIN users => i \notin DOMAIN users'
        /\ \A k \in 1 .. lastKey :
             (\A i \in DOMAIN users : users[i].key # k) => \A i \in DOMAIN users' : users'[i].key # k
        /\ \A i \in DOMAIN users' \ DOMAIN users : \A d \in devices' : d[1] # i
  BY <1>1
<1>3. QED
  BY <1>2, AccountsInvAlways, PTL DEF AccountsSpec
=============================================================================
