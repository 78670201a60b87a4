--------------------------- MODULE AdminAPIProofs ---------------------------
(***************************************************************************)
(* Theorems about AdminAPI, for any number of requests and accounts.       *)
(*                                                                         *)
(* What a request has read stays true for three reasons: an account never  *)
(* changes its role, an id is never used again, and a key that was given   *)
(* out is never given to another account.  Evolves states them of a step,  *)
(* and RequestOK says what a request relies on.                            *)
(***************************************************************************)
EXTENDS AdminAPI, TLAPS

(* What is so of a request that was let in, at each point of its handler. *)
RequestOK(q) ==
  /\ q.op = "wipe" => q.role = "owner"
  /\ q.op \in Targeted /\ q.at = "write" =>
       /\ q.kind = "owner" => q.role = "owner"
       /\ q.target \in DOMAIN users => users[q.target].role = q.kind
  /\ q.op = "create" =>
       /\ q.token # NoKey /\ q.kind \in Roles
       /\ "owner" \in RolesOf(q.token) => q.role = "owner"
       /\ q.at = "write" /\ q.kind = "owner" => q.role = "owner"

AdminInv == AdminTypeOK /\ KeysGuarded /\ \A r \in Request : RequestOK(req[r])

(* A step of the tables. *)
Evolves ==
  /\ lastId' \in Int /\ lastId <= lastId' /\ lastKey' \in Int /\ lastKey <= lastKey'
  /\ \A u \in DOMAIN users' :
       /\ users'[u].api \notin 1 .. lastKey \/ (u \in DOMAIN users /\ users'[u].api = users[u].api)
       /\ u \notin 0 .. lastId \/ (u \in DOMAIN users /\ users'[u].role = users[u].role)

-----------------------------------------------------------------------------
(* Records *)

(* A request that is over relies on nothing. *)
LEMMA NoReqOK == AdminTypeOK => NoReq \in Requests /\ RequestOK(NoReq)
  <1> SUFFICES ASSUME AdminTypeOK PROVE NoReq \in Requests /\ RequestOK(NoReq)
    OBVIOUS
  <1>1. 0 \in 0 .. lastKey /\ 0 \in 0 .. lastId
    BY AdminAssumption DEF AdminAssumption, AdminTypeOK
  <1>2. NoReq \in Requests
    BY <1>1, Zenon DEF NoReq, NoKey, Requests
  <1>3. RequestOK(NoReq)
    BY Zenon DEF NoReq, RequestOK, Targeted
  <1> QED BY <1>2, <1>3

(* A request keeps its type when ids and keys are added. *)
LEMMA RequestsGrow ==
  ASSUME AdminTypeOK, Evolves, NEW q \in Requests
  PROVE  q \in Requests'
  <1>1. 0 .. lastKey \subseteq 0 .. lastKey' /\ 0 .. lastId \subseteq 0 .. lastId'
    BY DEF AdminTypeOK, Evolves
  <1>2. SUBSET (1 .. lastId) \subseteq SUBSET (1 .. lastId')
    BY DEF AdminTypeOK, Evolves
  <1>3. q = [at |-> q.at, op |-> q.op, token |-> q.token, role |-> q.role, target |-> q.target,
             kind |-> q.kind, list |-> q.list, todo |-> q.todo, missed |-> q.missed]
    BY Zenon DEF Requests
  <1>4. q.at \in {"idle", "begun", "write"} /\ q.op \in Targeted \cup {"none", "create", "reset", "wipe"}
        /\ q.token \in 0 .. lastKey /\ q.role \in {"none", "owner", "admin"}
        /\ q.target \in 0 .. lastId /\ q.kind \in Roles \cup {"none"}
        /\ q.list \in SUBSET (1 .. lastId) /\ q.todo \in SUBSET (1 .. lastId) /\ q.missed \in BOOLEAN
    BY Zenon DEF Requests
  <1> QED BY <1>1, <1>2, <1>3, <1>4, Zenon DEF Requests, Targeted, Roles

(* What a request relies on survives a step of the tables. *)
LEMMA RequestOKKept ==
  ASSUME AdminTypeOK, Evolves, NEW r \in Request, req'[r] = req[r], RequestOK(req[r])
  PROVE  RequestOK(req[r])'
  <1>1. req[r] \in Requests
    BY Zenon DEF AdminTypeOK
  <1>2. req[r].token \in 0 .. lastKey /\ req[r].target \in 0 .. lastId
    BY <1>1, Zenon DEF Requests
  <1>3. req[r].target \in DOMAIN users' =>
          req[r].target \in DOMAIN users /\ users'[req[r].target].role = users[req[r].target].role
    BY <1>2, Zenon DEF Evolves
  <1>4. ASSUME req[r].token # NoKey, "owner" \in RolesOf(req[r].token)'
        PROVE  "owner" \in RolesOf(req[r].token)
    <2>1. CASE req[r].token = SystemKey
      BY <2>1, Zenon DEF RolesOf
    <2>2. CASE req[r].token # SystemKey
      <3>1. PICK u \in DOMAIN users' : users'[u].api = req[r].token /\ users'[u].role = "owner"
        BY <1>4, <2>2, Zenon DEF RolesOf, Holders, SystemKey
      <3>2. req[r].token \in 1 .. lastKey
        BY <1>2, <1>4 DEF NoKey, AdminTypeOK
      <3>3. u \in DOMAIN users /\ users[u].api = req[r].token
        BY <3>1, <3>2, Zenon DEF Evolves
      <3>4. u \in 0 .. lastId
        BY <3>3 DEF AdminTypeOK
      <3>5. users[u].role = "owner"
        BY <3>1, <3>4, Zenon DEF Evolves
      <3> QED BY <2>2, <3>3, <3>5, Zenon DEF RolesOf, Holders
    <2> QED BY <2>1, <2>2
  <1> QED BY <1>3, <1>4, Zenon DEF RequestOK, NoKey, Targeted

(* One request moves and the others wait. *)
LEMMA RequestsKept ==
  ASSUME AdminInv, Evolves, NEW r \in Request, req' = [req EXCEPT ![r] = req'[r]],
         req'[r] \in Requests', RequestOK(req[r])'
  PROVE  req' \in [Request -> Requests'] /\ \A s \in Request : RequestOK(req[s])'
  <1>1. req \in [Request -> Requests] /\ AdminTypeOK
    BY Zenon DEF AdminInv, AdminTypeOK
  <1>2. \A s \in Request : s # r => req'[s] = req[s]
    BY <1>1, Zenon
  <1>3. ASSUME NEW s \in Request PROVE req'[s] \in Requests' /\ RequestOK(req[s])'
    <2>1. CASE s = r
      BY <2>1
    <2>2. CASE s # r
      <3>1. req'[s] = req[s] /\ req[s] \in Requests /\ RequestOK(req[s])
        BY <1>1, <1>2, <2>2, Zenon DEF AdminInv
      <3>2. req[s] \in Requests'
        BY <1>1, <3>1, RequestsGrow, Zenon
      <3>3. RequestOK(req[s])'
        BY <1>1, <3>1, RequestOKKept, Zenon
      <3> QED BY <3>1, <3>2, <3>3, Zenon
    <2> QED BY <2>1, <2>2
  <1> QED BY <1>1, <1>3, Zenon

-----------------------------------------------------------------------------
(* Steps that leave the tables alone *)

Reads == UNCHANGED <<users, lastId, lastKey>>

(* Nothing evolves when nothing changes. *)
LEMMA ReadsEvolve == AdminTypeOK /\ Reads => Evolves
  BY DEF AdminTypeOK, Reads, Evolves, Rows

(* The invariant after a step of one request. *)
LEMMA ReadStep ==
  ASSUME AdminInv, Reads, NEW r \in Request, req' = [req EXCEPT ![r] = req'[r]],
         req'[r] \in Requests, RequestOK(req[r])'
  PROVE  AdminInv'
  <1>1. Evolves /\ AdminTypeOK
    BY ReadsEvolve, Zenon DEF AdminInv
  <1>2. Requests' = Requests
    BY Zenon DEF Requests, Reads
  <1>3. req' \in [Request -> Requests'] /\ \A s \in Request : RequestOK(req[s])'
    BY <1>1, <1>2, RequestsKept, Zenon
  <1>4. KeysGuarded'
    BY Zenon DEF AdminInv, KeysGuarded, Reads
  <1> QED BY <1>1, <1>3, <1>4, Zenon DEF AdminInv, AdminTypeOK, Reads, Rows

(* RequestOK looks at the tables only. *)
LEMMA ReadOK ==
  ASSUME Reads, NEW r, RequestOK(req'[r])
  PROVE  RequestOK(req[r])'
  BY Zenon DEF RequestOK, RolesOf, Holders, Reads

(* A request is over. *)
LEMMA DoneStep ==
  ASSUME AdminInv, Reads, NEW r \in Request, Done(r)
  PROVE  AdminInv'
  <1>1. req' = [req EXCEPT ![r] = NoReq] /\ req'[r] = NoReq
    BY Zenon DEF Done, Now, AdminInv, AdminTypeOK
  <1>2. NoReq \in Requests /\ RequestOK(NoReq)
    BY NoReqOK, Zenon DEF AdminInv
  <1>3. RequestOK(req[r])'
    BY <1>1, <1>2, ReadOK, Zenon
  <1> QED BY <1>1, <1>2, <1>3, ReadStep, Zenon

(* A request goes on to another record. *)
LEMMA NowStep ==
  ASSUME AdminInv, Reads, NEW r \in Request, NEW q \in Requests, Now(r, q), RequestOK(q)
  PROVE  AdminInv'
  <1>1. req' = [req EXCEPT ![r] = q] /\ req'[r] = q
    BY Zenon DEF Now, AdminInv, AdminTypeOK
  <1>2. RequestOK(req[r])'
    BY <1>1, ReadOK, Zenon
  <1> QED BY <1>1, <1>2, ReadStep, Zenon

(* The middleware lets a request in as what its key's holder is. *)
LEMMA BeginStep ==
  ASSUME AdminInv, NEW r \in Request, NEW token \in 1 .. lastKey,
         NEW op \in Targeted \cup {"create", "reset", "wipe"}, NEW target \in 0 .. lastId,
         NEW kind \in Roles \cup {"none"}, op = "create" => kind \in Roles, Begin(r, op, token, target, kind)
  PROVE  AdminInv'
  <1>1. PICK role \in RolesOf(token) :
          /\ op = "wipe" => role = "owner"
          /\ Now(r, [at |-> "begun", op |-> op, token |-> IF op = "create" THEN token ELSE NoKey,
                     role |-> role, target |-> target, kind |-> kind,
                     list |-> {}, todo |-> {}, missed |-> FALSE])
    BY Zenon DEF Begin
  <1> DEFINE t == IF op = "create" THEN token ELSE NoKey
             q == [at |-> "begun", op |-> op, token |-> t, role |-> role, target |-> target,
                   kind |-> kind, list |-> {}, todo |-> {}, missed |-> FALSE]
  <1>2. Now(r, q)
    BY <1>1, Zenon
  <1>3. t \in 0 .. lastKey /\ (op = "create" => t = token /\ t # NoKey)
    BY DEF NoKey, AdminInv, AdminTypeOK
  <1>4. role \in {"owner", "admin"}
    BY Zenon DEF RolesOf
  <1>5. "owner" \in RolesOf(token) => role = "owner"
    <2>1. CASE token = SystemKey
      BY <2>1, Zenon DEF RolesOf
    <2>2. CASE token # SystemKey
      <3>1. ASSUME "owner" \in RolesOf(token) PROVE role = "owner"
        <4>1. PICK u \in DOMAIN users : users[u].api = token /\ users[u].role = "owner"
          BY <2>2, <3>1, Zenon DEF RolesOf, Holders
        <4>2. PICK v \in DOMAIN users : users[v].api = token /\ users[v].role = role
          BY <2>2, Zenon DEF RolesOf, Holders
        <4>3. token # NoKey
          BY DEF NoKey
        <4> QED BY <4>1, <4>2, <4>3, Zenon DEF AdminInv, KeysGuarded
      <3> QED BY <3>1
    <2> QED BY <2>1, <2>2
  <1> HIDE DEF t
  <1>6. q \in Requests
    BY <1>3, <1>4, Zenon DEF Requests
  <1>7. RequestOK(q)
    <2>1. q.op = op /\ q.at = "begun" /\ q.role = role /\ q.token = t /\ q.kind = kind
      BY Zenon
    <2> HIDE DEF q
    <2> QED BY <1>1, <1>3, <1>5, <2>1, Zenon DEF RequestOK
  <1>8. Reads
    BY Zenon DEF Begin, Reads
  <1> HIDE DEF q
  <1> QED BY <1>2, <1>6, <1>7, <1>8, NowStep, Zenon

(* createUser's second look at the caller. *)
LEMMA CreateChecksStep ==
  ASSUME AdminInv, NEW r \in Request, CreateChecks(r)
  PROVE  AdminInv'
  <1>1. Reads /\ req[r] \in Requests /\ RequestOK(req[r])
    BY Zenon DEF CreateChecks, Reads, AdminInv, AdminTypeOK
  <1>2. CASE Done(r)
    BY <1>1, <1>2, DoneStep, Zenon
  <1>3. CASE MayCreate(r) /\ Now(r, [req[r] EXCEPT !.at = "write"])
    <2> DEFINE q == [req[r] EXCEPT !.at = "write"]
    <2>1. q \in Requests
      BY <1>1, Zenon DEF Requests
    <2>2. q.op = req[r].op /\ q.role = req[r].role /\ q.token = req[r].token /\ q.kind = req[r].kind
      BY <1>1, Zenon DEF Requests
    <2>3. req[r].op = "create" /\ req[r].op # "wipe" /\ req[r].op \notin Targeted
      BY DEF CreateChecks, Op, Targeted
    <2> HIDE DEF q
    <2>4. RequestOK(q)
      BY <1>1, <1>3, <2>2, <2>3, Zenon DEF RequestOK, MayCreate
    <2> QED BY <1>1, <1>3, <2>1, <2>4, NowStep, Zenon DEF q
  <1> QED BY <1>2, <1>3, Zenon DEF CreateChecks

(* The target is read, and its role compared with the caller's. *)
LEMMA ReadTargetStep ==
  ASSUME AdminInv, NEW r \in Request, ReadTarget(r)
  PROVE  AdminInv'
  <1>1. Reads /\ req[r] \in Requests /\ RequestOK(req[r])
    BY Zenon DEF ReadTarget, Reads, AdminInv, AdminTypeOK
  <1>2. CASE Done(r)
    BY <1>1, <1>2, DoneStep, Zenon
  <1>3. CASE \E u \in GetUserByID(req[r].target) :
               MayTouch(r, u.role) /\ Now(r, [req[r] EXCEPT !.at = "write", !.kind = u.role])
    <2>1. PICK id \in DOMAIN users :
            /\ id = req[r].target /\ MayTouch(r, users[id].role)
            /\ Now(r, [req[r] EXCEPT !.at = "write", !.kind = users[id].role])
      BY <1>3, Zenon DEF GetUserByID
    <2> DEFINE q == [req[r] EXCEPT !.at = "write", !.kind = users[id].role]
    <2>2. users[id].role \in Roles
      BY Zenon DEF AdminInv, AdminTypeOK, Rows
    <2>3. q \in Requests
      BY <1>1, <2>2, Zenon DEF Requests
    <2>4. q.op = req[r].op /\ q.role = req[r].role /\ q.target = id /\ q.kind = users[id].role
      BY <1>1, <2>1, Zenon DEF Requests
    <2>5. req[r].op # "wipe" /\ req[r].op # "create"
      BY DEF ReadTarget, Targeted
    <2> HIDE DEF q
    <2>6. RequestOK(q)
      BY <2>1, <2>4, <2>5, Zenon DEF RequestOK, MayTouch
    <2> QED BY <1>1, <2>1, <2>3, <2>6, NowStep, Zenon DEF q
  <1> QED BY <1>2, <1>3, Zenon DEF ReadTarget

(* serverWipe's list, with or without its error. *)
LEMMA WipeListsStep ==
  ASSUME AdminInv, NEW r \in Request, WipeLists(r) \/ WipeListFails(r)
  PROVE  AdminInv'
  <1>1. Reads /\ req[r] \in Requests /\ RequestOK(req[r])
    BY Zenon DEF WipeLists, WipeListFails, Reads, AdminInv, AdminTypeOK
  <1>2. req[r].op = "wipe" /\ req[r].op # "create" /\ req[r].op \notin Targeted
    BY DEF WipeLists, WipeListFails, Op, Targeted
  <1>3. DOMAIN users \in SUBSET (1 .. lastId) /\ \A rows \in ListUsers : rows \in SUBSET (1 .. lastId)
    BY DEF ListUsers, AdminInv, AdminTypeOK
  <1>4. ASSUME NEW q \in Requests, q.op = req[r].op, q.role = req[r].role, Now(r, q) PROVE AdminInv'
    <2>1. RequestOK(q)
      BY <1>1, <1>2, <1>4, Zenon DEF RequestOK
    <2> QED BY <1>1, <1>4, <2>1, NowStep, Zenon
  <1>5. CASE WipeLists(r)
    <2> PICK rows \in ListUsers : Now(r, [req[r] EXCEPT !.at = "write", !.list = rows, !.todo = rows])
      BY <1>5, Zenon DEF WipeLists
    <2> DEFINE q == [req[r] EXCEPT !.at = "write", !.list = rows, !.todo = rows]
    <2>1. q \in Requests /\ q.op = req[r].op /\ q.role = req[r].role
      BY <1>1, <1>3, Zenon DEF Requests
    <2> QED BY <1>4, <2>1, Zenon
  <1>6. CASE WipeListFails(r)
    <2> DEFINE q == [req[r] EXCEPT !.at = "write", !.list = DOMAIN users, !.missed = TRUE]
    <2>1. q \in Requests /\ q.op = req[r].op /\ q.role = req[r].role
      BY <1>1, <1>3, Zenon DEF Requests
    <2> QED BY <1>4, <1>6, <2>1, Zenon DEF WipeListFails
  <1> QED BY <1>5, <1>6

(* What is left to do of a wipe, and that a request for it stays one. *)
LEMMA WipeGoesOn ==
  ASSUME AdminInv, NEW r \in Request, Op(r, "wipe", "write"), NEW u, NEW q,
         \/ q = [req[r] EXCEPT !.todo = Remaining(r, u)]
         \/ q = [req[r] EXCEPT !.todo = Remaining(r, u), !.missed = TRUE]
  PROVE  q \in Requests /\ q.op = "wipe" /\ q.role = "owner"
  <1>1. req[r] \in Requests /\ RequestOK(req[r])
    BY Zenon DEF AdminInv, AdminTypeOK
  <1>2. Remaining(r, u) \in SUBSET (1 .. lastId)
    BY <1>1 DEF Requests, Remaining
  <1>3. q \in Requests /\ q.op = req[r].op /\ q.role = req[r].role
    BY <1>1, <1>2, Zenon DEF Requests
  <1> QED BY <1>1, <1>3, Zenon DEF RequestOK, Op

(* A delete that fails only shortens what is left. *)
LEMMA WipeMissesStep ==
  ASSUME AdminInv, NEW r \in Request, NEW u, WipeMisses(r, u)
  PROVE  AdminInv'
  <1> DEFINE q == [req[r] EXCEPT !.todo = Remaining(r, u), !.missed = TRUE]
  <1>1. Reads /\ Op(r, "wipe", "write") /\ Now(r, q)
    BY Zenon DEF WipeMisses, Reads
  <1>2. q \in Requests /\ q.op = "wipe" /\ q.role = "owner"
    BY <1>1, WipeGoesOn, Zenon
  <1> HIDE DEF q
  <1>3. RequestOK(q)
    BY <1>2 DEF RequestOK, Targeted
  <1> QED BY <1>1, <1>2, <1>3, NowStep, Zenon

-----------------------------------------------------------------------------
(* Steps that write *)

(* What a write has to show of the tables. *)
TablesOK ==
  /\ lastId \in 1 .. MaxUsers /\ lastKey \in 2 .. MaxKeys
  /\ DOMAIN users \subseteq 1 .. lastId
  /\ \A u \in DOMAIN users : users[u] \in Rows
  /\ KeysGuarded

(* A write is the last step of its request, except in a wipe. *)
LEMMA WriteStep ==
  ASSUME AdminInv, Evolves, TablesOK', NEW r \in Request,
         req' = [req EXCEPT ![r] = req'[r]], req'[r] \in Requests, RequestOK(req[r])'
  PROVE  AdminInv'
  <1>1. req'[r] \in Requests'
    BY RequestsGrow, Zenon DEF AdminInv
  <1>2. req' \in [Request -> Requests'] /\ \A s \in Request : RequestOK(req[s])'
    BY <1>1, RequestsKept, Zenon
  <1> QED BY <1>2, Zenon DEF AdminInv, AdminTypeOK, TablesOK

LEMMA DoneWrites ==
  ASSUME AdminInv, Evolves, TablesOK', NEW r \in Request, Done(r)
  PROVE  AdminInv'
  <1>1. req' = [req EXCEPT ![r] = NoReq] /\ req'[r] = NoReq
    BY Zenon DEF Done, Now, AdminInv, AdminTypeOK
  <1>2. NoReq \in Requests
    BY NoReqOK, Zenon DEF AdminInv
  <1>3. NoReq.op = "none"
    BY Zenon DEF NoReq
  <1>4. RequestOK(req[r])'
    BY <1>1, <1>3 DEF RequestOK, Targeted
  <1> QED BY <1>1, <1>2, <1>4, WriteStep, Zenon

(* Deleting an account leaves the others as they are. *)
LEMMA DropKeeps ==
  ASSUME AdminInv, NEW id, DropUser(id), UNCHANGED lastKey
  PROVE  Evolves /\ TablesOK'
  <1>1. DOMAIN users' = DOMAIN users \ {id} /\ \A u \in DOMAIN users' : users'[u] = users[u]
    BY DEF DropUser
  <1>2. lastId' = lastId /\ lastKey' = lastKey
    BY DEF DropUser
  <1>3. Evolves
    BY <1>1, <1>2 DEF Evolves, AdminInv, AdminTypeOK
  <1>4. Rows' = Rows
    BY <1>2, Zenon DEF Rows
  <1>5. TablesOK'
    BY <1>1, <1>2, <1>4, Zenon DEF TablesOK, AdminInv, AdminTypeOK, KeysGuarded
  <1> QED BY <1>3, <1>5

(* A new account has a new id and new keys. *)
LEMMA CreateKeeps ==
  ASSUME AdminInv, NEW r \in Request, CreateInserts(r)
  PROVE  Evolves /\ TablesOK'
  <1> DEFINE kind == req[r].kind
             api  == KeyFor(kind, lastKey + 1)
  <1>1. PICK name \in {"default_owner", "other"} : InsertUser(name, kind, api, lastKey + 2)
    BY Zenon DEF CreateInserts
  <1>2. lastKey' = lastKey + 2 /\ lastKey' <= MaxKeys /\ lastId' = lastId + 1 /\ lastId' <= MaxUsers
    BY <1>1 DEF CreateInserts, InsertUser, NewId
  <1> DEFINE row == [name |-> name, role |-> kind, api |-> api, access |-> lastKey + 2]
  <1>3. /\ DOMAIN users' = DOMAIN users \cup {lastId'}
        /\ \A u \in DOMAIN users' : users'[u] = IF u = lastId' THEN row ELSE users[u]
    BY <1>1, <1>2 DEF InsertUser, NewId
  <1>4. lastId \in 1 .. MaxUsers /\ lastKey \in 2 .. MaxKeys /\ DOMAIN users \subseteq 1 .. lastId
        /\ \A u \in DOMAIN users : users[u] \in Rows
    BY Zenon DEF AdminInv, AdminTypeOK
  <1>5. kind \in Roles
    BY Zenon DEF CreateInserts, Op, AdminInv, RequestOK
  <1>6. api = NoKey \/ api = lastKey + 1
    BY Zenon DEF KeyFor
  <1>7. api \in 0 .. lastKey' /\ lastKey + 2 \in 1 .. lastKey' /\ api \notin 1 .. lastKey
    BY <1>2, <1>4, <1>6 DEF NoKey
  <1>8. kind = "user" => api = NoKey
    BY Zenon DEF KeyFor
  <1> HIDE DEF kind, api
  <1>9. row \in Rows'
    BY <1>5, <1>7, Zenon DEF Rows
  <1>10. row.role = kind /\ row.api = api
    BY Zenon
  <1> HIDE DEF row
  <1>11. lastId' \notin DOMAIN users /\ lastId' \notin 0 .. lastId
    BY <1>2, <1>4
  <1>12. Evolves
    <2>1. lastId' \in Int /\ lastId <= lastId' /\ lastKey' \in Int /\ lastKey <= lastKey'
      BY <1>2, <1>4
    <2> QED BY <1>3, <1>7, <1>10, <1>11, <2>1, Zenon DEF Evolves
  <1>13. \A u \in DOMAIN users : users[u] \in Rows' /\ users[u].api \in 0 .. lastKey
    <2> SUFFICES ASSUME NEW u \in DOMAIN users PROVE users[u] \in Rows' /\ users[u].api \in 0 .. lastKey
      OBVIOUS
    <2>1. 0 .. lastKey \subseteq 0 .. lastKey' /\ 1 .. lastKey \subseteq 1 .. lastKey'
      BY <1>2, <1>4
    <2>2. users[u] \in Rows
      BY <1>4
    <2>3. users[u].api \in 0 .. lastKey
      BY <2>2, Zenon DEF Rows
    <2>4. users[u] = [name |-> users[u].name, role |-> users[u].role, api |-> users[u].api,
                      access |-> users[u].access]
          /\ users[u].name \in {"default_owner", "other"} /\ users[u].role \in Roles
          /\ users[u].access \in 1 .. lastKey
      BY <2>2, Zenon DEF Rows
    <2> QED BY <2>1, <2>3, <2>4, Zenon DEF Rows, Roles
  <1>14. \A u \in DOMAIN users : users[u].api # NoKey => users[u].api # api
    <2> SUFFICES ASSUME NEW u \in DOMAIN users, users[u].api # NoKey PROVE users[u].api # api
      OBVIOUS
    <2> QED BY <1>4, <1>6, <1>13 DEF NoKey
  <1>15. KeysGuarded'
    <2>1. KeysGuarded
      BY Zenon DEF AdminInv
    <2>2. \A u \in DOMAIN users : u \in DOMAIN users' /\ u # lastId' /\ users'[u] = users[u]
      BY <1>3, <1>11, Zenon
    <2>3. users'[lastId'] = row
      BY <1>3, Zenon
    <2>4. \A u \in DOMAIN users' : u = lastId' \/ u \in DOMAIN users
      BY <1>3, Zenon
    <2>5. ASSUME NEW u \in DOMAIN users', users'[u].role = "user" PROVE users'[u].api = NoKey
      <3>1. CASE u = lastId'
        BY <1>8, <1>10, <2>3, <2>5, <3>1, Zenon
      <3>2. CASE u \in DOMAIN users
        BY <2>1, <2>2, <2>5, <3>2, Zenon DEF KeysGuarded
      <3> QED BY <2>4, <3>1, <3>2
    <2>6. ASSUME NEW u \in DOMAIN users', NEW v \in DOMAIN users', u # v, users'[u].api # NoKey
          PROVE  users'[u].api # users'[v].api
      <3>1. CASE u = lastId' /\ v \in DOMAIN users
        BY <1>10, <1>14, <2>2, <2>3, <2>6, <3>1, Zenon
      <3>2. CASE v = lastId' /\ u \in DOMAIN users
        BY <1>10, <1>14, <2>2, <2>3, <2>6, <3>2, Zenon
      <3>3. CASE u \in DOMAIN users /\ v \in DOMAIN users
        BY <2>1, <2>2, <2>6, <3>3, Zenon DEF KeysGuarded
      <3> QED BY <2>4, <2>6, <3>1, <3>2, <3>3, Zenon
    <2> QED BY <2>5, <2>6, Zenon DEF KeysGuarded
  <1>16. TablesOK'
    <2>1. lastId' \in 1 .. MaxUsers /\ lastKey' \in 2 .. MaxKeys /\ DOMAIN users' \subseteq 1 .. lastId'
      BY <1>2, <1>3, <1>4, AdminAssumption DEF AdminAssumption
    <2>2. \A u \in DOMAIN users' : users'[u] \in Rows'
      BY <1>3, <1>9, <1>13, Zenon
    <2> QED BY <1>15, <2>1, <2>2, Zenon DEF TablesOK
  <1> QED BY <1>12, <1>16

(* A new key goes to the account whose role was read, and is nobody       *)
(* else's.                                                                *)
LEMMA ReissueKeeps ==
  ASSUME AdminInv, NEW r \in Request, ReissueWrites(r)
  PROVE  Evolves /\ TablesOK'
  <1> DEFINE id  == req[r].target
             key == lastKey + 1
             new == KeyFor(req[r].kind, lastKey + 1)
  <1>1. /\ lastKey' = key /\ lastKey' <= MaxKeys /\ lastId' = lastId
        /\ DOMAIN users' = DOMAIN users
        /\ \A u \in DOMAIN users : users'[u] = IF u = id THEN Reissued(r, users[u]) ELSE users[u]
    <2>1. lastKey' = key /\ lastKey < MaxKeys /\ lastId' = lastId
      BY DEF ReissueWrites
    <2>2. /\ DOMAIN users' = DOMAIN users
          /\ \A u \in DOMAIN users : users'[u] = IF u = id THEN Reissued(r, users[u]) ELSE users[u]
      BY Zenon DEF ReissueWrites
    <2>3. lastKey' <= MaxKeys
      BY <2>1, AdminAssumption DEF AdminAssumption, AdminInv, AdminTypeOK
    <2> QED BY <2>1, <2>2, <2>3, Zenon
  <1>2. lastId \in 1 .. MaxUsers /\ lastKey \in 2 .. MaxKeys /\ DOMAIN users \subseteq 1 .. lastId
        /\ \A u \in DOMAIN users : users[u] \in Rows
    BY Zenon DEF AdminInv, AdminTypeOK
  <1>3. new \in {NoKey, key} /\ (req[r].kind = "user" => new = NoKey)
    BY Zenon DEF KeyFor
  <1>4. id \in DOMAIN users => users[id].role = req[r].kind
    <2>1. req[r].op \in Targeted /\ req[r].at = "write"
      BY DEF ReissueWrites, Targeted
    <2> QED BY <2>1, Zenon DEF AdminInv, RequestOK
  <1>5. key \in 1 .. lastKey' /\ key \in 0 .. lastKey' /\ NoKey \in 0 .. lastKey' /\ key # NoKey
        /\ key \notin 0 .. lastKey /\ key \notin 1 .. lastKey /\ NoKey \notin 1 .. lastKey
        /\ 0 .. lastKey \subseteq 0 .. lastKey' /\ 1 .. lastKey \subseteq 1 .. lastKey'
    BY <1>1, <1>2 DEF NoKey
  <1> HIDE DEF id, new
  (* What every account is after the step. *)
  <1>6. ASSUME NEW u \in DOMAIN users
        PROVE  /\ users'[u] \in Rows' /\ users'[u].role = users[u].role
               /\ \/ users'[u].api = users[u].api
                  \/ u = id /\ users'[u].api = new
    <2>1. users[u] = [name |-> users[u].name, role |-> users[u].role, api |-> users[u].api,
                      access |-> users[u].access]
          /\ users[u].name \in {"default_owner", "other"} /\ users[u].role \in Roles
          /\ users[u].api \in 0 .. lastKey /\ users[u].access \in 1 .. lastKey
      BY <1>2, Zenon DEF Rows
    <2>2. CASE u # id
      <3>1. users'[u] = users[u]
        BY <1>1, <2>2, Zenon
      <3>2. users[u].api \in 0 .. lastKey' /\ users[u].access \in 1 .. lastKey'
        BY <1>5, <2>1, Zenon
      <3>3. users[u] \in Rows'
        BY <2>1, <3>2, Zenon DEF Rows, Roles
      <3> QED BY <3>1, <3>3, Zenon
    <2>3. CASE u = id /\ req[r].op = "apikey"
      <3>1. users'[u] = [users[u] EXCEPT !.api = new]
        BY <1>1, <2>3, Zenon DEF Reissued, new
      <3>2. users'[u].role = users[u].role /\ users'[u].api = new /\ users'[u].name = users[u].name
            /\ users'[u].access = users[u].access
        BY <1>2, <3>1, Zenon DEF Rows
      <3>3. new \in 0 .. lastKey'
        BY <1>3, <1>5, Zenon
      <3>4. [users[u] EXCEPT !.api = new] \in Rows'
        BY <1>2, <1>5, <3>3, Zenon DEF Rows
      <3> QED BY <2>3, <3>1, <3>2, <3>4, Zenon
    <2>4. CASE u = id /\ req[r].op # "apikey"
      <3>1. users'[u] = [users[u] EXCEPT !.access = key]
        BY <1>1, <2>4, Zenon DEF Reissued
      <3>2. users'[u].role = users[u].role /\ users'[u].api = users[u].api
        BY <1>2, <3>1, Zenon DEF Rows
      <3>3. [users[u] EXCEPT !.access = key] \in Rows'
        BY <1>2, <1>5, Zenon DEF Rows
      <3> QED BY <3>1, <3>2, <3>3, Zenon
    <2> QED BY <2>2, <2>3, <2>4
  <1> HIDE DEF key
  <1>7. Evolves
    <2>1. lastId' \in Int /\ lastId <= lastId' /\ lastKey' \in Int /\ lastKey <= lastKey'
      BY <1>1, <1>2 DEF key
    <2> QED BY <1>1, <1>3, <1>5, <1>6, <2>1, Zenon DEF Evolves
  <1>8. \A u \in DOMAIN users : users[u].api \in 0 .. lastKey /\ users[u].api # key
    BY <1>2, <1>5, Zenon DEF Rows
  <1>9. KeysGuarded'
    <2>1. KeysGuarded
      BY Zenon DEF AdminInv
    <2>2. ASSUME NEW u \in DOMAIN users', users'[u].role = "user" PROVE users'[u].api = NoKey
      BY <1>1, <1>3, <1>4, <1>6, <2>1, <2>2, Zenon DEF KeysGuarded
    <2>3. ASSUME NEW u \in DOMAIN users', NEW v \in DOMAIN users', u # v, users'[u].api # NoKey
          PROVE  users'[u].api # users'[v].api
      <3>1. u \in DOMAIN users /\ v \in DOMAIN users
        BY <1>1, <2>3, Zenon
      <3>2. CASE users'[u].api = users[u].api /\ users'[v].api = users[v].api
        BY <2>1, <2>3, <3>1, <3>2, Zenon DEF KeysGuarded
      <3>3. CASE u = id /\ users'[u].api = new /\ users'[v].api = users[v].api
        BY <1>3, <1>8, <2>3, <3>1, <3>3, Zenon
      <3>4. CASE v = id /\ users'[v].api = new /\ users'[u].api = users[u].api
        BY <1>3, <1>8, <2>3, <3>1, <3>4, Zenon
      <3>5. /\ users'[u].api = users[u].api \/ (u = id /\ users'[u].api = new)
            /\ users'[v].api = users[v].api \/ (v = id /\ users'[v].api = new)
        BY <1>6, <3>1, Zenon
      <3> QED BY <2>3, <3>2, <3>3, <3>4, <3>5
    <2> QED BY <2>2, <2>3, Zenon DEF KeysGuarded
  <1>10. TablesOK'
    <2>1. lastId' \in 1 .. MaxUsers /\ lastKey' \in 2 .. MaxKeys /\ DOMAIN users' \subseteq 1 .. lastId'
      BY <1>1, <1>2, AdminAssumption DEF AdminAssumption, key
    <2>2. \A u \in DOMAIN users' : users'[u] \in Rows'
      BY <1>1, <1>6, Zenon
    <2> QED BY <1>9, <2>1, <2>2, Zenon DEF TablesOK
  <1> QED BY <1>7, <1>10

-----------------------------------------------------------------------------
(* The invariant *)

LEMMA AdminInitInv == AdminInit => AdminInv
  <1> SUFFICES ASSUME AdminInit PROVE AdminInv
    OBVIOUS
  <1> DEFINE row == [name |-> "default_owner", role |-> "owner", api |-> SystemKey, access |-> 2]
  <1>1. lastId \in 1 .. MaxUsers /\ lastKey \in 2 .. MaxKeys /\ DOMAIN users \subseteq 1 .. lastId
    BY AdminAssumption DEF AdminAssumption, AdminInit
  <1>2. DOMAIN users = {1} /\ users[1] = row
    BY Zenon DEF AdminInit
  <1>3. SystemKey \in 0 .. lastKey /\ 2 \in 1 .. lastKey
    BY <1>1 DEF SystemKey
  <1>4. row \in Rows
    BY <1>3, Zenon DEF Rows, Roles
  <1>5. row.role = "owner"
    BY Zenon
  <1> HIDE DEF row
  <1>6. \A u \in DOMAIN users : users[u] \in Rows
    BY <1>2, <1>4, Zenon
  <1>7. KeysGuarded
    BY <1>2, <1>5 DEF KeysGuarded
  <1>8. req = [r \in Request |-> NoReq]
    BY Zenon DEF AdminInit
  <1>9. 0 \in 0 .. lastKey /\ 0 \in 0 .. lastId
    BY <1>1
  <1>10. NoReq \in Requests
    BY <1>9, Zenon DEF NoReq, NoKey, Requests
  <1>11. AdminTypeOK
    BY <1>1, <1>6, <1>8, <1>10, Zenon DEF AdminTypeOK
  <1> QED BY <1>7, <1>8, <1>11, NoReqOK, Zenon DEF AdminInv

(* A wipe deletes an account of its list, or spares it, and goes on. *)
LEMMA WipeDeletesStep ==
  ASSUME AdminInv, NEW r \in Request, NEW u, WipeDeletes(r, u)
  PROVE  AdminInv'
  <1> DEFINE q == [req[r] EXCEPT !.todo = Remaining(r, u)]
  <1>1. Op(r, "wipe", "write") /\ Now(r, q) /\ lastKey' = lastKey
    BY Zenon DEF WipeDeletes
  <1>2. q \in Requests /\ q.op = "wipe" /\ q.role = "owner"
    BY <1>1, WipeGoesOn, Zenon
  <1> HIDE DEF q
  <1>3. req' = [req EXCEPT ![r] = q] /\ req'[r] = q
    BY <1>1, Zenon DEF Now, AdminInv, AdminTypeOK
  <1>4. CASE Reads
    <2>1. RequestOK(q)
      BY <1>2 DEF RequestOK, Targeted
    <2> QED BY <1>1, <1>2, <1>4, <2>1, NowStep, Zenon
  <1>5. CASE DropUser(u)
    <2>1. RequestOK(req[r])'
      BY <1>2, <1>3 DEF RequestOK, Targeted
    <2>2. Evolves /\ TablesOK'
      BY <1>1, <1>5, DropKeeps, Zenon
    <2> QED BY <1>2, <1>3, <2>1, <2>2, WriteStep, Zenon
  <1>6. Reads \/ DropUser(u)
    BY <1>1, Zenon DEF WipeDeletes, Reads
  <1> QED BY <1>4, <1>5, <1>6

LEMMA AdminStepInv == AdminInv /\ [AdminNext]_adminVars => AdminInv'
  <1> SUFFICES ASSUME AdminInv, [AdminNext]_adminVars PROVE AdminInv'
    OBVIOUS
  <1>1. ASSUME NEW r \in Request, CreateInserts(r) PROVE AdminInv'
    BY <1>1, CreateKeeps, DoneWrites, Zenon DEF CreateInserts
  <1>2. ASSUME NEW r \in Request, DeleteWrites(r) PROVE AdminInv'
    BY <1>2, DropKeeps, DoneWrites, Zenon DEF DeleteWrites
  <1>3. ASSUME NEW r \in Request, ReissueWrites(r) PROVE AdminInv'
    BY <1>3, ReissueKeeps, DoneWrites, Zenon DEF ReissueWrites
  <1>4. ASSUME NEW r \in Request, StoreFails(r) \/ Reset(r) \/ WipeAnswers(r) PROVE AdminInv'
    BY <1>4, DoneStep, Zenon DEF StoreFails, Reset, WipeAnswers, Reads
  <1>5. ASSUME NEW r \in Request, Handler(r) PROVE AdminInv'
    BY <1>1, <1>2, <1>3, <1>4, <1>5, CreateChecksStep, ReadTargetStep, WipeListsStep,
       WipeDeletesStep, WipeMissesStep, Zenon DEF Handler
  <1>6. ASSUME NEW r \in Request, NEW token \in 1 .. lastKey,
               \/ \E role \in Roles : Begin(r, "create", token, 0, role)
               \/ \E op \in Targeted \cup {"reset"}, id \in 1 .. lastId : Begin(r, op, token, id, "none")
               \/ Begin(r, "wipe", token, 0, "none")
        PROVE  AdminInv'
    <2>1. 0 \in 0 .. lastId /\ 1 .. lastId \subseteq 0 .. lastId
      BY DEF AdminInv, AdminTypeOK
    <2>2. ASSUME NEW role \in Roles, Begin(r, "create", token, 0, role) PROVE AdminInv'
      BY <2>1, <2>2, BeginStep, Zenon
    <2>3. ASSUME NEW op \in Targeted \cup {"reset"}, NEW id \in 1 .. lastId,
                 Begin(r, op, token, id, "none")
          PROVE  AdminInv'
      <3>1. op # "create" /\ op \in Targeted \cup {"create", "reset", "wipe"}
        BY DEF Targeted
      <3>2. id \in 0 .. lastId
        BY <2>1
      <3> QED BY <2>3, <3>1, <3>2, BeginStep, Zenon
    <2>4. ASSUME Begin(r, "wipe", token, 0, "none") PROVE AdminInv'
      <3>1. "wipe" # "create"
        OBVIOUS
      <3> QED BY <2>1, <2>4, <3>1, BeginStep, Zenon
    <2> QED BY <1>6, <2>2, <2>3, <2>4
  <1>7. ASSUME UNCHANGED adminVars PROVE AdminInv'
    <2>1. users' = users /\ lastId' = lastId /\ lastKey' = lastKey /\ req' = req
      BY <1>7 DEF adminVars
    <2>2. AdminTypeOK' /\ KeysGuarded'
      <3>1. Rows' = Rows /\ Requests' = Requests
        BY <2>1, Zenon DEF Rows, Requests
      <3>2. AdminTypeOK'
        BY <2>1, <3>1, Zenon DEF AdminInv, AdminTypeOK
      <3>3. KeysGuarded'
        BY <2>1, Zenon DEF AdminInv, KeysGuarded
      <3> QED BY <3>2, <3>3
    <2>3. \A r \in Request : RequestOK(req[r])'
      <3>1. Reads
        BY <2>1, Zenon DEF Reads
      <3> QED BY <2>1, <3>1, ReadOK, Zenon DEF AdminInv
    <2> QED BY <2>2, <2>3, Zenon DEF AdminInv
  <1> QED BY <1>5, <1>6, <1>7, Zenon DEF AdminNext

(* AdminInv is what the handlers rely on: the types, the keys, and of      *)
(* every request what it has read (api.go:56-305).                         *)
THEOREM AdminInvariant == AdminSpec => []AdminInv
  BY AdminInitInv, AdminStepInv, PTL DEF AdminSpec

(* Rows and requests hold only roles, ids and keys that were given out     *)
(* (db.go:68-86, api.go:25-92).                                            *)
THEOREM AdminTypeCorrect == AdminSpec => []AdminTypeOK
  BY AdminInvariant, PTL DEF AdminInv

(* No ordinary account holds an API key and no two accounts share one,     *)
(* whatever was read before the write (api.go:157-162, 230-236).           *)
THEOREM KeysAlwaysGuarded == AdminSpec => []KeysGuarded
  BY AdminInvariant, PTL DEF AdminInv

-----------------------------------------------------------------------------
(* Accounts of owners *)

(* The row of an owner is written. *)
OwnerRowChanges(u) ==
  /\ \/ u \in DOMAIN users /\ users[u].role = "owner"
     \/ u \in DOMAIN users' /\ users'[u].role = "owner"
  /\ ~(u \in DOMAIN users /\ u \in DOMAIN users' /\ users'[u] = users[u])

OwnersWrite ==
  \A u \in 1 .. MaxUsers :
    OwnerRowChanges(u) => \E r \in Request : req[r].role = "owner" /\ req'[r] # req[r]

(* A request that waits to write is another one when it is over. *)
LEMMA DoneChanges ==
  ASSUME AdminInv, NEW r \in Request, Done(r), req[r].at = "write"
  PROVE  req'[r] # req[r]
  <1>1. req'[r] = NoReq
    BY Zenon DEF Done, Now, AdminInv, AdminTypeOK
  <1>2. NoReq.at = "idle"
    BY Zenon DEF NoReq
  <1> QED BY <1>1, <1>2

(* createUser writes an owner only for an owner (api.go:137-152). *)
LEMMA CreateSeparates ==
  ASSUME AdminInv, NEW r \in Request, CreateInserts(r)
  PROVE  OwnersWrite
  <1> SUFFICES ASSUME NEW u \in 1 .. MaxUsers, OwnerRowChanges(u)
               PROVE  req[r].role = "owner" /\ req'[r] # req[r]
    BY Zenon DEF OwnersWrite
  <1>1. PICK name, api : InsertUser(name, req[r].kind, api, lastKey + 2)
    BY Zenon DEF CreateInserts
  <1>2. \A v \in DOMAIN users : v # NewId
    BY DEF NewId, AdminInv, AdminTypeOK
  <1>3. /\ DOMAIN users' = DOMAIN users \cup {NewId}
        /\ users'[NewId].role = req[r].kind
        /\ \A v \in DOMAIN users : users'[v] = users[v]
    BY <1>1, <1>2, Zenon DEF InsertUser
  <1>4. u = NewId /\ req[r].kind = "owner"
    BY <1>3, Zenon DEF OwnerRowChanges
  <1>5. req[r].op = "create" /\ req[r].at = "write" /\ Done(r)
    BY Zenon DEF CreateInserts, Op
  <1>6. req[r].role = "owner"
    BY <1>4, <1>5, Zenon DEF AdminInv, RequestOK
  <1> QED BY <1>5, <1>6, DoneChanges, Zenon

(* A targeted write reaches an owner only for an owner (api.go:182-199,    *)
(* 218-236, 252-265).                                                      *)
LEMMA TargetedSeparates ==
  ASSUME AdminInv, NEW r \in Request, DeleteWrites(r) \/ ReissueWrites(r)
  PROVE  OwnersWrite
  <1> SUFFICES ASSUME NEW u \in 1 .. MaxUsers, OwnerRowChanges(u)
               PROVE  req[r].role = "owner" /\ req'[r] # req[r]
    BY Zenon DEF OwnersWrite
  <1>1. req[r].op \in Targeted /\ req[r].at = "write" /\ Done(r)
    BY DEF DeleteWrites, ReissueWrites, Op, Targeted
  <1>2. /\ DOMAIN users' \subseteq DOMAIN users
        /\ \A v \in DOMAIN users : v # req[r].target => v \in DOMAIN users' /\ users'[v] = users[v]
    BY Zenon DEF DeleteWrites, ReissueWrites, DropUser
  <1>3. u = req[r].target /\ u \in DOMAIN users
    BY <1>2, Zenon DEF OwnerRowChanges
  <1>4. Evolves
    BY DropKeeps, ReissueKeeps, Zenon DEF DeleteWrites
  <1>5. u \in 0 .. lastId
    BY <1>3 DEF AdminInv, AdminTypeOK
  <1>6. users[u].role = "owner"
    BY <1>4, <1>5, Zenon DEF Evolves, OwnerRowChanges
  <1>7. req[r].role = "owner"
    BY <1>1, <1>3, <1>6, Zenon DEF AdminInv, RequestOK
  <1> QED BY <1>1, <1>7, DoneChanges, Zenon

(* serverWipe runs for an owner only (api.go:282-289). *)
LEMMA WipeSeparates ==
  ASSUME AdminInv, NEW r \in Request, NEW u \in req[r].todo, WipeDeletes(r, u)
  PROVE  OwnersWrite
  <1>1. Op(r, "wipe", "write") /\ Now(r, [req[r] EXCEPT !.todo = Remaining(r, u)])
    BY Zenon DEF WipeDeletes
  <1>2. req[r].role = "owner"
    BY <1>1, Zenon DEF AdminInv, RequestOK, Op
  <1>3. req[r] \in Requests /\ req'[r] = [req[r] EXCEPT !.todo = Remaining(r, u)]
    BY <1>1, Zenon DEF Now, AdminInv, AdminTypeOK
  <1>4. req'[r].todo = Remaining(r, u)
    BY <1>3, Zenon DEF Requests
  <1>5. req'[r] # req[r]
    BY <1>4, Zenon DEF Remaining
  <1> QED BY <1>2, <1>5, Zenon DEF OwnersWrite

(* Only an owner's request creates, changes or deletes an account of an    *)
(* owner, although target and caller are read in one statement and the     *)
(* table is written in another (api.go:66-79, 137-152, 182-199, 218-236,   *)
(* 252-265, 282-298).                                                      *)
THEOREM RolesSeparated == AdminSpec => RoleSeparation
  <1>1. AdminInv /\ [AdminNext]_adminVars => [OwnersWrite]_adminVars
    <2> SUFFICES ASSUME AdminInv, AdminNext PROVE OwnersWrite
      BY Zenon DEF adminVars
    <2>1. ASSUME users' = users PROVE OwnersWrite
      BY <2>1, Zenon DEF OwnersWrite, OwnerRowChanges
    <2>2. ASSUME NEW r \in Request, Handler(r) PROVE OwnersWrite
      <3>1. ASSUME NEW u \in req[r].todo, WipeDeletes(r, u) \/ WipeMisses(r, u) PROVE OwnersWrite
        BY <2>1, <3>1, WipeSeparates, Zenon DEF WipeMisses
      <3>2. CASE \/ CreateChecks(r) \/ ReadTarget(r) \/ StoreFails(r) \/ Reset(r)
                 \/ WipeLists(r) \/ WipeListFails(r) \/ WipeAnswers(r)
        BY <2>1, <3>2, Zenon DEF CreateChecks, ReadTarget, StoreFails, Reset, WipeLists,
           WipeListFails, WipeAnswers
      <3> QED BY <2>2, <3>1, <3>2, CreateSeparates, TargetedSeparates, Zenon DEF Handler
    <2>3. ASSUME NEW r \in Request, NEW op, NEW token, NEW id, NEW kind, Begin(r, op, token, id, kind)
          PROVE  OwnersWrite
      BY <2>1, <2>3, Zenon DEF Begin
    <2> QED BY <2>2, <2>3, Zenon DEF AdminNext
  <1>2. [OwnersWrite]_adminVars =>
          [\A u \in 1 .. MaxUsers :
             /\ \/ u \in DOMAIN users /\ users[u].role = "owner"
                \/ u \in DOMAIN users' /\ users'[u].role = "owner"
             /\ ~(u \in DOMAIN users /\ u \in DOMAIN users' /\ users'[u] = users[u])
             => \E r \in Request : req[r].role = "owner" /\ req'[r] # req[r]]_adminVars
    BY Zenon DEF OwnersWrite, OwnerRowChanges
  <1> QED BY <1>1, <1>2, AdminInvariant, PTL DEF AdminSpec, RoleSeparation
-----------------------------------------------------------------------------
(* Keys over time *)

(* Whatever a request does, it does a step of the tables. *)
LEMMA StepsEvolve == AdminInv /\ [AdminNext]_adminVars => Evolves
  <1> SUFFICES ASSUME AdminInv, [AdminNext]_adminVars PROVE Evolves
    OBVIOUS
  <1>r. ASSUME Reads PROVE Evolves
    BY <1>r, ReadsEvolve, Zenon DEF AdminInv
  <1>1. ASSUME NEW r \in Request, Handler(r) PROVE Evolves
    <2>1. CASE CreateInserts(r) \/ ReissueWrites(r)
      BY <2>1, CreateKeeps, ReissueKeeps
    <2>2. CASE DeleteWrites(r)
      BY <2>2, DropKeeps, Zenon DEF DeleteWrites
    <2>3. ASSUME NEW u, WipeDeletes(r, u) PROVE Evolves
      <3>1. (UNCHANGED <<users, lastId>>) \/ DropUser(u)
        BY <2>3, Zenon DEF WipeDeletes
      <3>2. UNCHANGED lastKey
        BY <2>3, Zenon DEF WipeDeletes
      <3> QED BY <1>r, <3>1, <3>2, DropKeeps DEF Reads
    <2>4. ASSUME NEW u, WipeMisses(r, u) PROVE Evolves
      BY <1>r, <2>4, Zenon DEF WipeMisses, Reads
    <2>5. CASE \/ CreateChecks(r) \/ ReadTarget(r) \/ StoreFails(r) \/ Reset(r)
               \/ WipeLists(r) \/ WipeListFails(r) \/ WipeAnswers(r)
      BY <1>r, <2>5, Zenon
      DEF CreateChecks, ReadTarget, StoreFails, Reset, WipeLists, WipeListFails, WipeAnswers, Reads
    <2> QED BY <1>1, <2>1, <2>2, <2>3, <2>4, <2>5, Zenon DEF Handler
  <1>2. ASSUME NEW r \in Request, NEW op, NEW token, NEW id, NEW kind, Begin(r, op, token, id, kind)
        PROVE  Evolves
    BY <1>r, <1>2, Zenon DEF Begin, Reads
  <1>3. CASE UNCHANGED adminVars
    BY <1>r, <1>3 DEF adminVars, Reads
  <1> QED BY <1>1, <1>2, <1>3, Zenon DEF AdminNext

(* A key never gains by what happens to the accounts: whoever it lets in   *)
(* after a step, it let in before, under the same role.  So a key that was *)
(* revoked, by reissuing it or by deleting its account, stays revoked, and *)
(* no sequence of requests makes an admin's key an owner's                 *)
(* (api.go:48-82, 157-162, 182-199, 230-236).                              *)
THEOREM KeysNeverGain ==
  AdminSpec => [][\A token \in 1 .. lastKey : RolesOf(token)' \subseteq RolesOf(token)]_adminVars
  <1>1. ASSUME AdminInv, [AdminNext]_adminVars, NEW token \in 1 .. lastKey, NEW role \in RolesOf(token)'
        PROVE  role \in RolesOf(token)
    <2>1. CASE token = SystemKey
      BY <1>1, <2>1, Zenon DEF RolesOf
    <2>2. CASE token # SystemKey
      <3>1. PICK u \in DOMAIN users' : users'[u].api = token /\ users'[u].role = role
        BY <1>1, <2>2, Zenon DEF RolesOf, Holders
      <3>2. u \in DOMAIN users /\ users[u].api = token
        BY <1>1, <3>1, StepsEvolve, Zenon DEF Evolves
      <3>3. u \in 0 .. lastId
        BY <1>1, <3>2 DEF AdminInv, AdminTypeOK
      <3>4. users[u].role = role
        BY <1>1, <3>1, <3>3, StepsEvolve, Zenon DEF Evolves
      <3>5. role \in {"owner", "admin"}
        BY <1>1, <2>2, Zenon DEF RolesOf
      <3> QED BY <2>2, <3>2, <3>4, <3>5, Zenon DEF RolesOf, Holders
    <2> QED BY <2>1, <2>2
  <1>2. AdminInv /\ [AdminNext]_adminVars =>
          \A token \in 1 .. lastKey : RolesOf(token)' \subseteq RolesOf(token)
    BY <1>1, Zenon
  <1> QED BY <1>2, AdminInvariant, PTL DEF AdminSpec

-----------------------------------------------------------------------------
(* serverWipe *)

(* Of the accounts on a wipe's list, those that are still there are still  *)
(* to be deleted or are spared, as long as no delete has failed.           *)
ListDone(q) ==
  q.op = "wipe" /\ q.at = "write" /\ ~q.missed =>
    \A u \in q.list \cap DOMAIN users : u \in q.todo \/ Spared(u)

WipeInv == \A r \in Request : ListDone(req[r])

(* Accounts keep their names, and ids that were given out do not return. *)
NamesKept ==
  \A u \in DOMAIN users' : u \in 1 .. lastId =>
    u \in DOMAIN users /\ users'[u].name = users[u].name

(* The other wipes go by what they have listed: an account that appears    *)
(* under them has an id of its own (db.go:68-86, api.go:291-298).          *)
LEMMA ListsStand ==
  ASSUME AdminInv, WipeInv, NamesKept, NEW r \in Request,
         \A s \in Request \ {r} : req'[s] = req[s], ListDone(req[r])'
  PROVE  WipeInv'
  <1>1. ASSUME NEW s \in Request, s # r PROVE ListDone(req[s])'
    <2>1. req'[s] = req[s] /\ req[s] \in Requests /\ ListDone(req[s])
      BY <1>1, Zenon DEF AdminInv, AdminTypeOK, WipeInv
    <2>2. req[s].list \subseteq 1 .. lastId
      BY <2>1, Zenon DEF Requests
    <2> QED BY <2>1, <2>2, Zenon DEF ListDone, NamesKept, Spared
  <1> QED BY <1>1, Zenon DEF WipeInv

(* Every statement of the store keeps the names.                           *)
LEMMA StatementsKeepNames ==
  ASSUME AdminInv,
         \/ users' = users
         \/ \E id : DropUser(id)
         \/ \E r \in Request : ReissueWrites(r)
         \/ \E r \in Request : CreateInserts(r)
  PROVE  NamesKept
  <1>1. CASE users' = users \/ \E id : DropUser(id)
    BY <1>1, Zenon DEF NamesKept, DropUser
  <1>2. ASSUME NEW r \in Request, ReissueWrites(r) PROVE NamesKept
    <2>1. /\ DOMAIN users' = DOMAIN users
          /\ \A u \in DOMAIN users : users'[u] = users[u] \/ users'[u] = Reissued(r, users[u])
      BY <1>2, Zenon DEF ReissueWrites
    <2>2. \A u \in DOMAIN users : users[u] \in Rows
      BY Zenon DEF AdminInv, AdminTypeOK
    <2>3. ASSUME NEW row \in Rows PROVE Reissued(r, row).name = row.name
      BY Zenon DEF Reissued, Rows
    <2> QED BY <2>1, <2>2, <2>3, Zenon DEF NamesKept
  <1>3. ASSUME NEW r \in Request, CreateInserts(r) PROVE NamesKept
    <2>1. /\ DOMAIN users' = DOMAIN users \cup {NewId}
          /\ \A u \in DOMAIN users : u # NewId => users'[u] = users[u]
      BY <1>3, Zenon DEF CreateInserts, InsertUser
    <2>2. NewId \notin 1 .. lastId
      BY DEF NewId, AdminInv, AdminTypeOK
    <2> QED BY <2>1, <2>2, Zenon DEF NamesKept
  <1> QED BY <1>1, <1>2, <1>3

(* A request that is over, or is not a wipe, has no list.                  *)
LEMMA NoList ==
  ASSUME AdminInv, WipeInv, NamesKept, NEW r \in Request, NEW q, Now(r, q),
         q.op # "wipe" \/ q.at # "write" \/ q.missed
  PROVE  WipeInv'
  <1>1. req'[r] = q /\ \A s \in Request \ {r} : req'[s] = req[s]
    BY Zenon DEF Now, AdminInv, AdminTypeOK
  <1>2. ListDone(req[r])'
    BY <1>1, Zenon DEF ListDone
  <1> QED BY <1>1, <1>2, ListsStand, Zenon

(* The list of a wipe, and the end of one delete (api.go:291-298).         *)
LEMMA WipeStepLists ==
  ASSUME AdminInv, WipeInv, NEW r \in Request,
         \/ WipeLists(r) \/ WipeListFails(r)
         \/ \E u \in req[r].todo : WipeDeletes(r, u) \/ WipeMisses(r, u)
  PROVE  WipeInv'
  <1>1. req[r] \in Requests /\ ListDone(req[r])
    BY Zenon DEF AdminInv, AdminTypeOK, WipeInv
  <1>2. CASE WipeLists(r)
    <2> PICK rows \in ListUsers : Now(r, [req[r] EXCEPT !.at = "write", !.list = rows, !.todo = rows])
      BY <1>2, Zenon DEF WipeLists
    <2> DEFINE q == [req[r] EXCEPT !.at = "write", !.list = rows, !.todo = rows]
    <2>1. Now(r, q) /\ users' = users
      BY <1>2, Zenon DEF WipeLists
    <2>2. q.list = rows /\ q.todo = rows
      BY <1>1, Zenon DEF Requests
    <2> HIDE DEF q
    <2>3. req'[r] = q /\ \A s \in Request \ {r} : req'[s] = req[s]
      BY <2>1, Zenon DEF Now, AdminInv, AdminTypeOK
    <2>4. ListDone(req[r])'
      BY <2>2, <2>3, Zenon DEF ListDone
    <2> QED BY <2>1, <2>3, <2>4, ListsStand, StatementsKeepNames, Zenon
  <1>3. CASE WipeListFails(r)
    <2> DEFINE q == [req[r] EXCEPT !.at = "write", !.list = DOMAIN users, !.missed = TRUE]
    <2>1. Now(r, q) /\ users' = users
      BY <1>3, Zenon DEF WipeListFails
    <2>2. q.missed
      BY <1>1, Zenon DEF Requests
    <2> HIDE DEF q
    <2> QED BY <2>1, <2>2, NoList, StatementsKeepNames, Zenon
  <1>4. ASSUME NEW u \in req[r].todo, WipeMisses(r, u) PROVE WipeInv'
    <2> DEFINE q == [req[r] EXCEPT !.todo = Remaining(r, u), !.missed = TRUE]
    <2>1. Now(r, q) /\ users' = users
      BY <1>4, Zenon DEF WipeMisses
    <2>2. q.missed
      BY <1>1, Zenon DEF Requests
    <2> HIDE DEF q
    <2> QED BY <2>1, <2>2, NoList, StatementsKeepNames, Zenon
  <1>5. ASSUME NEW u \in req[r].todo, WipeDeletes(r, u) PROVE WipeInv'
    <2> DEFINE q == [req[r] EXCEPT !.todo = Remaining(r, u)]
    <2>1. /\ Now(r, q) /\ Op(r, "wipe", "write")
          /\ (Spared(u) /\ users' = users) \/ (~Spared(u) /\ DropUser(u))
      <3>1. IF Spared(u) THEN UNCHANGED <<users, lastId>> ELSE DropUser(u)
        BY <1>5, Zenon DEF WipeDeletes
      <3>2. (UNCHANGED <<users, lastId>>) => users' = users
        OBVIOUS
      <3> QED BY <1>5, <3>1, <3>2, Zenon DEF WipeDeletes
    <2>2. /\ q.op = req[r].op /\ q.at = req[r].at /\ q.missed = req[r].missed
          /\ q.list = req[r].list /\ q.todo = req[r].todo \ {u}
      BY <1>1, Zenon DEF Requests, Remaining
    <2> HIDE DEF q
    <2>3. req'[r] = q /\ \A s \in Request \ {r} : req'[s] = req[s]
      BY <2>1, Zenon DEF Now, AdminInv, AdminTypeOK
    <2>4. ASSUME ~req[r].missed, NEW v \in req[r].list, v \in DOMAIN users', v \notin q.todo
          PROVE  v \in DOMAIN users' /\ users'[v].name = "default_owner"
      <3>1. CASE v = u
        BY <2>1, <2>4, <3>1, Zenon DEF DropUser, Spared
      <3>2. CASE v # u
        <4>1. v \in DOMAIN users /\ users'[v] = users[v]
          BY <2>1, <2>4, <3>2, Zenon DEF DropUser
        <4>2. v \notin req[r].todo
          BY <2>2, <2>4, <3>2, Zenon
        <4> QED BY <1>1, <2>1, <2>4, <4>1, <4>2, Zenon DEF ListDone, Op, Spared
      <3> QED BY <3>1, <3>2
    <2>5. ListDone(req[r])'
      BY <2>2, <2>3, <2>4, Zenon DEF ListDone, Spared
    <2> QED BY <2>1, <2>3, <2>5, ListsStand, StatementsKeepNames, Zenon
  <1> QED BY <1>2, <1>3, <1>4, <1>5

(* Every step of a handler keeps what a wipe has done of its list.         *)
LEMMA WipeStepInv == AdminInv /\ WipeInv /\ [AdminNext]_adminVars => WipeInv'
  <1> SUFFICES ASSUME AdminInv, WipeInv, [AdminNext]_adminVars PROVE WipeInv'
    OBVIOUS
  <1>d. ASSUME NEW r \in Request, Done(r), NamesKept PROVE WipeInv'
    <2>1. NoReq.op # "wipe"
      BY Zenon DEF NoReq
    <2> QED BY <1>d, <2>1, NoList, Zenon DEF Done
  <1>1. ASSUME NEW r \in Request, CreateInserts(r) \/ DeleteWrites(r) \/ ReissueWrites(r)
        PROVE  WipeInv'
    BY <1>1, <1>d, StatementsKeepNames, Zenon DEF CreateInserts, DeleteWrites, ReissueWrites
  <1>2. ASSUME NEW r \in Request, StoreFails(r) \/ Reset(r) \/ WipeAnswers(r) PROVE WipeInv'
    BY <1>2, <1>d, StatementsKeepNames, Zenon DEF StoreFails, Reset, WipeAnswers
  <1>3. ASSUME NEW r \in Request, CreateChecks(r) \/ ReadTarget(r) PROVE WipeInv'
    <2>1. /\ req[r] \in Requests /\ users' = users
          /\ req[r].op # "wipe"
          /\ \/ Done(r)
             \/ Now(r, [req[r] EXCEPT !.at = "write"])
             \/ \E k : Now(r, [req[r] EXCEPT !.at = "write", !.kind = k])
      <3>1. req[r].op # "wipe"
        BY <1>3 DEF CreateChecks, ReadTarget, Op, Targeted
      <3> QED BY <1>3, <3>1, Zenon DEF CreateChecks, ReadTarget, AdminInv, AdminTypeOK
    <2>2. CASE Done(r)
      BY <2>1, <2>2, <1>d, StatementsKeepNames, Zenon
    <2>3. CASE Now(r, [req[r] EXCEPT !.at = "write"])
      <3>1. [req[r] EXCEPT !.at = "write"].op # "wipe"
        BY <2>1, Zenon DEF Requests
      <3> QED BY <2>1, <2>3, <3>1, NoList, StatementsKeepNames, Zenon
    <2>4. ASSUME NEW k, Now(r, [req[r] EXCEPT !.at = "write", !.kind = k]) PROVE WipeInv'
      <3>1. [req[r] EXCEPT !.at = "write", !.kind = k].op # "wipe"
        BY <2>1, Zenon DEF Requests
      <3> QED BY <2>1, <2>4, <3>1, NoList, StatementsKeepNames, Zenon
    <2> QED BY <2>1, <2>2, <2>3, <2>4
  <1>4. ASSUME NEW r \in Request, NEW op, NEW token, NEW id, NEW kind, Begin(r, op, token, id, kind)
        PROVE  WipeInv'
    <2>1. PICK role : Now(r, [at |-> "begun", op |-> op,
                              token |-> IF op = "create" THEN token ELSE NoKey,
                              role |-> role, target |-> id, kind |-> kind,
                              list |-> {}, todo |-> {}, missed |-> FALSE])
      BY <1>4, Zenon DEF Begin
    <2>2. [at |-> "begun", op |-> op, token |-> IF op = "create" THEN token ELSE NoKey,
           role |-> role, target |-> id, kind |-> kind,
           list |-> {}, todo |-> {}, missed |-> FALSE].at # "write"
      BY Zenon
    <2>3. NamesKept
      BY <1>4, StatementsKeepNames, Zenon DEF Begin
    <2> QED BY <2>1, <2>2, <2>3, NoList, Zenon
  <1>5. ASSUME UNCHANGED adminVars PROVE WipeInv'
    BY <1>5, Zenon DEF adminVars, WipeInv, ListDone, Spared
  <1>6. ASSUME NEW r \in Request, Handler(r) PROVE WipeInv'
    BY <1>1, <1>2, <1>3, <1>6, WipeStepLists, Zenon DEF Handler
  <1> QED BY <1>4, <1>5, <1>6, Zenon DEF AdminNext

(* When serverWipe answers and no delete has failed, every account of its  *)
(* list is gone, or is default_owner, whatever was created, deleted or     *)
(* wiped beside it (api.go:280-305).                                       *)
THEOREM WipesFinish == AdminSpec => WipeRemovesListed
  <1>1. AdminInit => WipeInv
    <2>1. NoReq.op # "wipe"
      BY Zenon DEF NoReq
    <2> QED BY <2>1, Zenon DEF AdminInit, WipeInv, ListDone
  <1>2. AdminInv /\ WipeInv /\ [AdminNext]_adminVars =>
          [\A r \in Request :
             Op(r, "wipe", "write") /\ req'[r] = NoReq /\ ~req[r].missed
               => \A u \in req[r].list \cap DOMAIN users : Spared(u)]_adminVars
    <2> SUFFICES ASSUME AdminInv, WipeInv, AdminNext, NEW r \in Request,
                        Op(r, "wipe", "write"), req'[r] = NoReq, ~req[r].missed
                 PROVE  \A u \in req[r].list \cap DOMAIN users : Spared(u)
      BY Zenon
    <2>1. /\ req[r] \in Requests /\ req[r].op = "wipe" /\ req[r].at = "write"
          /\ ListDone(req[r])
      BY Zenon DEF Op, AdminInv, AdminTypeOK, WipeInv
    <2>2. NoReq.op # "wipe" /\ "wipe" \notin Targeted /\ "wipe" # "create" /\ "wipe" # "reset"
      BY DEF NoReq, Targeted
    <2>3. ASSUME NEW s \in Request, NEW q, Now(s, q) PROVE s = r /\ q = NoReq
      BY <2>1, <2>2, <2>3, Zenon DEF Now, AdminInv, AdminTypeOK
    <2>4. ASSUME NEW s \in Request, NEW op, NEW token, NEW id, NEW kind,
                 Begin(s, op, token, id, kind)
          PROVE  FALSE
      <3>1. s = r
        BY <2>3, <2>4, Zenon DEF Begin
      <3>2. "write" # "idle"
        OBVIOUS
      <3> QED BY <2>1, <2>4, <3>1, <3>2, Zenon DEF Begin
    <2>5. ASSUME NEW s \in Request, Handler(s) PROVE s = r /\ WipeAnswers(s)
      <3>1. s = r
        BY <2>3, <2>5, Zenon
        DEF Handler, Done, CreateChecks, CreateInserts, ReadTarget, DeleteWrites, ReissueWrites,
            StoreFails, Reset, WipeLists, WipeListFails, WipeAnswers, WipeDeletes, WipeMisses
      <3>2. ~ \E u \in req[s].todo : WipeDeletes(s, u) \/ WipeMisses(s, u)
        <4>1. \A u : /\ [req[r] EXCEPT !.todo = Remaining(r, u)].op = "wipe"
                     /\ [req[r] EXCEPT !.todo = Remaining(r, u), !.missed = TRUE].op = "wipe"
          BY <2>1, Zenon DEF Requests
        <4> QED BY <2>2, <2>3, <3>1, <4>1, Zenon DEF WipeDeletes, WipeMisses
      <3>3. "write" # "begun" /\ "wipe" # "delete"
        OBVIOUS
      <3>4. ~(WipeLists(s) \/ WipeListFails(s) \/ Reset(s) \/ CreateChecks(s) \/ CreateInserts(s))
        BY <2>1, <2>2, <3>1, <3>3, Zenon
        DEF WipeLists, WipeListFails, Reset, CreateChecks, CreateInserts, Op
      <3>5. ~(ReadTarget(s) \/ DeleteWrites(s) \/ StoreFails(s) \/ ReissueWrites(s))
        BY <2>1, <3>1 DEF ReadTarget, DeleteWrites, StoreFails, ReissueWrites, Op, Targeted
      <3> QED BY <2>5, <3>1, <3>2, <3>4, <3>5, Zenon DEF Handler
    <2>6. WipeAnswers(r)
      BY <2>4, <2>5, Zenon DEF AdminNext
    <2>7. req[r].todo = {}
      BY <2>6, Zenon DEF WipeAnswers
    <2> QED BY <2>1, <2>7, Zenon DEF ListDone
  <1> QED BY <1>1, <1>2, AdminInvariant, WipeStepInv, PTL DEF AdminSpec, WipeRemovesListed
=============================================================================
