------------------------------ MODULE AdminAPI ------------------------------
(***************************************************************************)
(* The administrative REST API, server/api/api.go, over the accounts of    *)
(* server/db/db.go.  net/http serves requests at the same time; between    *)
(* two statements of one handler the statements of others may run.  A      *)
(* request carries the role that the middleware found for its key, and     *)
(* what the handler has read so far.  The store's locks and the devices    *)
(* that deleting an account or resetDevices removes are in Accounts; here  *)
(* a statement either takes effect or fails.                               *)
(*                                                                         *)
(* listUsers and serverReboot change nothing and are left out, and so are  *)
(* requests that are refused before they have read anything.               *)
(***************************************************************************)
EXTENDS Integers, FiniteSets

CONSTANTS
  Request,   \* requests served at the same time
  MaxUsers,  \* accounts ever created (bound)
  MaxKeys    \* keys ever generated (bound)

ASSUME AdminAssumption == MaxUsers \in Nat \ {0} /\ MaxKeys \in Nat \ {0, 1}

VARIABLES
  users,    \* table users: id -> [name, role, api, access]
  lastId,   \* the AUTOINCREMENT counter
  lastKey,  \* keys are random, so every new one is fresh
  req       \* the requests

adminVars == <<users, lastId, lastKey, req>>

Roles     == {"owner", "admin", "user"}
NoKey     == 0
SystemKey == 1  \* s.apiKey, from the environment

NoReq == [at |-> "idle", op |-> "none", token |-> NoKey, role |-> "none", target |-> 0,
          kind |-> "none", list |-> {}, todo |-> {}, missed |-> FALSE]

(* The account that main provisions in an empty database. *)
AdminInit ==
  /\ users = [id \in {1} |-> [name |-> "default_owner", role |-> "owner",
                              api |-> SystemKey, access |-> 2]]
  /\ lastId = 1 /\ lastKey = 2
  /\ req = [r \in Request |-> NoReq]

-----------------------------------------------------------------------------
(* Statements of the store *)

(* Faulty variant: an id is free again once its account is deleted. *)
NewIdReused == IF lastId \in DOMAIN users THEN lastId + 1 ELSE lastId

NewId == lastId + 1

InsertUser(name, role, api, access) ==
  /\ NewId <= MaxUsers
  /\ users' = [id \in DOMAIN users \cup {NewId} |->
                 IF id = NewId THEN [name |-> name, role |-> role, api |-> api, access |-> access]
                               ELSE users[id]]
  /\ lastId' = NewId

GetUserByID(id) == {users[u] : u \in DOMAIN users \cap {id}}

(* The rows read so far, if reading them fails: rows.Err() is not asked. *)
ListUsers == SUBSET DOMAIN users

DropUser(id) == users' = [u \in DOMAIN users \ {id} |-> users[u]] /\ UNCHANGED lastId

-----------------------------------------------------------------------------
(* The middleware *)

Now(r, rec) == req' = [req EXCEPT ![r] = rec]

Done(r) == Now(r, NoReq)

Holders(token) == {u \in DOMAIN users : users[u].api = token}

(* The roles under which a key is let in. *)
RolesOf(token) ==
  IF token = SystemKey THEN {"owner"}
  ELSE {users[u].role : u \in Holders(token)} \cap {"owner", "admin"}

(* 401 or 403 otherwise.  Where a handler begins: createUser with its      *)
(* second look at the caller, serverWipe with its own check of the role.   *)
Begin(r, op, token, target, kind) ==
  /\ req[r].at = "idle"
  /\ \E role \in RolesOf(token) :
       /\ op = "wipe" => role = "owner"
       /\ Now(r, [at |-> "begun", op |-> op, token |-> IF op = "create" THEN token ELSE NoKey,
                  role |-> role, target |-> target, kind |-> kind,
                  list |-> {}, todo |-> {}, missed |-> FALSE])
  /\ UNCHANGED <<users, lastId, lastKey>>

Op(r, op, at) == req[r].op = op /\ req[r].at = at

-----------------------------------------------------------------------------
(* createUser *)

MayCreate(r) == req[r].kind = "owner" => "owner" \in RolesOf(req[r].token)

CreateChecks(r) ==
  /\ Op(r, "create", "begun")
  /\ IF MayCreate(r) THEN Now(r, [req[r] EXCEPT !.at = "write"]) ELSE Done(r)
  /\ UNCHANGED <<users, lastId, lastKey>>

(* Faulty variant: every account gets an API key. *)
KeyForAll(role, key) == key

KeyFor(role, key) == IF role \in {"owner", "admin"} THEN key ELSE NoKey

(* Usernames are not unique: a second default_owner is possible. *)
CreateInserts(r) ==
  /\ Op(r, "create", "write")
  /\ lastKey + 2 <= MaxKeys
  /\ \E name \in {"default_owner", "other"} :
       InsertUser(name, req[r].kind, KeyFor(req[r].kind, lastKey + 1), lastKey + 2)
  /\ lastKey' = lastKey + 2
  /\ Done(r)

-----------------------------------------------------------------------------
(* deleteUser, reissueAPIKey, reissueAccessKey: read the target, then write *)

Targeted == {"delete", "apikey", "accesskey"}

MayTouch(r, role) == role = "owner" => req[r].role = "owner"

(* 404 and 403 end the request. *)
ReadTarget(r) ==
  /\ req[r].op \in Targeted /\ req[r].at = "begun"
  /\ \/ \E u \in GetUserByID(req[r].target) :
          MayTouch(r, u.role) /\ Now(r, [req[r] EXCEPT !.at = "write", !.kind = u.role])
     \/ (\A u \in GetUserByID(req[r].target) : ~MayTouch(r, u.role)) /\ Done(r)
  /\ UNCHANGED <<users, lastId, lastKey>>

DeleteWrites(r) ==
  /\ Op(r, "delete", "write")
  /\ DropUser(req[r].target)
  /\ Done(r)
  /\ UNCHANGED lastKey

(* The new API key depends on the role that was read. *)
Reissued(r, row) ==
  IF req[r].op = "apikey" THEN [row EXCEPT !.api = KeyFor(req[r].kind, lastKey + 1)]
                          ELSE [row EXCEPT !.access = lastKey + 1]

(* The UPDATE of an account deleted since changes nothing. *)
ReissueWrites(r) ==
  /\ req[r].op \in {"apikey", "accesskey"} /\ req[r].at = "write"
  /\ lastKey < MaxKeys
  /\ users' = [u \in DOMAIN users |-> IF u = req[r].target THEN Reissued(r, users[u]) ELSE users[u]]
  /\ lastKey' = lastKey + 1
  /\ UNCHANGED lastId
  /\ Done(r)

(* The store returns an error: 404, 500, or 403 where createUser takes the *)
(* caller for somebody unknown.                                            *)
StoreFails(r) ==
  /\ \/ req[r].at = "write" /\ req[r].op # "wipe"
     \/ req[r].at = "begun" /\ (req[r].op \in Targeted \/ req[r].kind = "owner")
  /\ Done(r)
  /\ UNCHANGED <<users, lastId, lastKey>>

-----------------------------------------------------------------------------
(* resetDevices, which looks at neither the account nor the role.  What it *)
(* does to the devices is in Accounts.                                     *)

Reset(r) ==
  /\ Op(r, "reset", "begun")
  /\ Done(r)
  /\ UNCHANGED <<users, lastId, lastKey>>

-----------------------------------------------------------------------------
(* serverWipe *)

WipeLists(r) ==
  /\ Op(r, "wipe", "begun")
  /\ \E rows \in ListUsers : Now(r, [req[r] EXCEPT !.at = "write", !.list = rows, !.todo = rows])
  /\ UNCHANGED <<users, lastId, lastKey>>

(* ListUsers fails: there is nothing to delete, and the answer is "wiped". *)
WipeListFails(r) ==
  /\ Op(r, "wipe", "begun")
  /\ Now(r, [req[r] EXCEPT !.at = "write", !.list = DOMAIN users, !.missed = TRUE])
  /\ UNCHANGED <<users, lastId, lastKey>>

(* An account keeps its name, so the list's copy of it is good. *)
Spared(u) == u \in DOMAIN users /\ users[u].name = "default_owner"

(* Faulty variant: only the first account of the list is deleted. *)
WipedAll(r, u) == {}

Remaining(r, u) == req[r].todo \ {u}

WipeDeletes(r, u) ==
  /\ Op(r, "wipe", "write") /\ u \in req[r].todo
  /\ IF Spared(u) THEN UNCHANGED <<users, lastId>> ELSE DropUser(u)
  /\ Now(r, [req[r] EXCEPT !.todo = Remaining(r, u)])
  /\ UNCHANGED lastKey

(* The error of a delete is not looked at. *)
WipeMisses(r, u) ==
  /\ Op(r, "wipe", "write") /\ u \in req[r].todo
  /\ Now(r, [req[r] EXCEPT !.todo = Remaining(r, u), !.missed = TRUE])
  /\ UNCHANGED <<users, lastId, lastKey>>

(* "wiped" *)
WipeAnswers(r) ==
  /\ Op(r, "wipe", "write") /\ req[r].todo = {}
  /\ Done(r)
  /\ UNCHANGED <<users, lastId, lastKey>>

-----------------------------------------------------------------------------
Handler(r) ==
  \/ CreateChecks(r) \/ CreateInserts(r) \/ ReadTarget(r) \/ DeleteWrites(r) \/ ReissueWrites(r)
  \/ StoreFails(r) \/ Reset(r) \/ WipeLists(r) \/ WipeListFails(r) \/ WipeAnswers(r)
  \/ \E u \in req[r].todo : WipeDeletes(r, u) \/ WipeMisses(r, u)

AdminNext ==
  \/ \E r \in Request, token \in 1 .. lastKey :
       \/ \E role \in Roles : Begin(r, "create", token, 0, role)
       \/ \E op \in Targeted \cup {"reset"}, id \in 1 .. lastId : Begin(r, op, token, id, "none")
       \/ Begin(r, "wipe", token, 0, "none")
  \/ \E r \in Request : Handler(r)

AdminSpec == AdminInit /\ [][AdminNext]_adminVars

-----------------------------------------------------------------------------
(* Properties *)

Rows == [name : {"default_owner", "other"}, role : Roles, api : 0 .. lastKey,
         access : 1 .. lastKey]

Requests == [at : {"idle", "begun", "write"},
             op : Targeted \cup {"none", "create", "reset", "wipe"},
             token : 0 .. lastKey, role : {"none", "owner", "admin"},
             target : 0 .. lastId, kind : Roles \cup {"none"},
             list : SUBSET (1 .. lastId), todo : SUBSET (1 .. lastId), missed : BOOLEAN]

(* Type invariant: rows satisfy the CHECK constraints, and every key and   *)
(* target that a row or a request has was given out (db.go:68-86).         *)
AdminTypeOK ==
  /\ lastId \in 1 .. MaxUsers /\ lastKey \in 2 .. MaxKeys
  /\ DOMAIN users \subseteq 1 .. lastId
  /\ \A u \in DOMAIN users : users[u] \in Rows
  /\ req \in [Request -> Requests]

(* An account of an owner is created, changed or deleted only by a request *)
(* that the middleware let in as an owner, although the target is checked  *)
(* in one statement and written in another, and the caller is looked up    *)
(* twice (api.go:66-79, 137-152, 182-199, 218-236, 252-265).               *)
RoleSeparation ==
  [][\A u \in 1 .. MaxUsers :
       /\ \/ u \in DOMAIN users /\ users[u].role = "owner"
          \/ u \in DOMAIN users' /\ users'[u].role = "owner"
       /\ ~(u \in DOMAIN users /\ u \in DOMAIN users' /\ users'[u] = users[u])
       => \E r \in Request : req[r].role = "owner" /\ req'[r] # req[r]]_adminVars

(* An ordinary account never holds an API key, although reissueAPIKey      *)
(* decides on a role that it read earlier; and two accounts never share a  *)
(* key (api.go:157-162, 230-236).                                          *)
KeysGuarded ==
  /\ \A u \in DOMAIN users : users[u].role = "user" => users[u].api = NoKey
  /\ \A u, v \in DOMAIN users : u # v /\ users[u].api # NoKey => users[u].api # users[v].api

(* When serverWipe answers and no delete failed, no account that was on    *)
(* its list is left except default_owner (api.go:291-298).                 *)
WipeRemovesListed ==
  [][\A r \in Request :
       Op(r, "wipe", "write") /\ req'[r] = NoReq /\ ~req[r].missed
         => \A u \in req[r].list \cap DOMAIN users : Spared(u)]_adminVars

(* "wiped" (api.go:301): when serverWipe answers so, the accounts there    *)
(* were when it began are gone, except default_owner.                      *)
(* The code does not keep this: README, "Disagreements".                   *)
WipedMeansGone ==
  [][\A r \in Request :
       Op(r, "wipe", "write") /\ req'[r] = NoReq
         => \A u \in req[r].list \cap DOMAIN users : Spared(u)]_adminVars

(* "Regenerating will revoke previous admin access."                       *)
(* (server_administration_screen.dart:412): a key that no account has any  *)
(* more is not let in.                                                     *)
(* The code does not keep this: README, "Disagreements".                   *)
ReissueRevokes ==
  \A token \in 1 .. lastKey : Holders(token) = {} => RolesOf(token) = {}
=============================================================================
