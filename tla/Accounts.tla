------------------------------ MODULE Accounts ------------------------------
(***************************************************************************)
(* Users, apps, their permissions and their API keys (api/user, api/app,   *)
(* api/auth, api/permission, api/admin).                                   *)
(*                                                                         *)
(*  - POST /user gets or creates the user of an address;                   *)
(*  - POST /app creates the app of a user who may have one;                *)
(*  - POST /auth/{client_type} makes a new key for a user or for its app:  *)
(*    it saves it in the Auth row of the client, or creates that row when  *)
(*    the client may have a key;                                           *)
(*  - GET /user/info tells a user of its key, its app and the key of it;    *)
(*  - POST /admin/permissions/user/{id} sets both permissions of a user.   *)
(*                                                                         *)
(* A user or an app is created together with its Permission row in one     *)
(* transaction. Everything else is one query after the other. Addresses and*)
(* owners are not unique; Auth.user and Auth.app are. PATCH /app saves the *)
(* row it read with another name and is left out: names are not modelled.  *)
(***************************************************************************)
EXTENDS Naturals, FiniteSets

CONSTANTS
    Calls,      \* the calls of the API; also the ids of the rows they create
    Known,      \* the users there are at the start
    Addresses,  \* the addresses of users
    Home,       \* the address of a known user
    MaxFailures,\* bound of the model: calls that fail
    MaxUpdates  \* bound of the model: updates of permissions

None == "none"
Ids  == Known \cup Calls

ASSUME IdsAssumption == Known \cap Calls = {} /\ None \notin Ids \cup Addresses
\* Users that exist at the start have different addresses.
ASSUME HomeAssumption == /\ Home \in [Known -> Addresses]
                         /\ \A u, v \in Known : Home[u] = Home[v] => u = v
ASSUME BoundsAssumption == MaxFailures \in Nat /\ MaxUpdates \in Nat

VARIABLES
    address,  \* User.address, "none" where there is no such user
    owner,    \* App.owner, "none" where there is no such app
    perm,     \* the Permission rows, of users and of apps
    key,      \* the key in the Auth row of a user or an app: the call that
              \* made it, or "none" where there is no row
    stage,    \* how far a call is
    body,     \* what a call asks for
    client,   \* the user or the app a call makes a key for
    answer,   \* the user a call returns
    told,     \* what a call of get_info has read: whether the user has an Auth
              \* row, its app, and whether that has one
    failures, \* how many calls failed
    updates,  \* how often permissions were updated
    before,   \* history: the calls that were over when a call began
    could     \* history: the permissions there were at some time of a call

tables  == <<address, owner, perm, key>>
work    == <<body, client, answer, told>>
history == <<before, could>>
bounds  == <<failures, updates>>
vars    == <<tables, stage, work, bounds, history>>

Kinds   == {"user", "app", "user_key", "app_key", "info"}
KeyKinds == {"user_key", "app_key"}
Running == {"look", "auth", "check", "create", "save", "stored",
            "info_auth", "info_app", "info_permission"}
\* "refused": 401. "missing": 404. "error": an exception nobody handles.
\* "failed": a fault.
Over    == {"done", "refused", "missing", "error", "failed"}
NoInfo  == [auth |-> FALSE, app |-> None, key |-> FALSE]
NoBody  == [kind |-> None, address |-> None, user |-> None]
PermissionNames == {"can_create_api_key", "can_create_app"}
Permissions  == [PermissionNames -> BOOLEAN]
NoPermission == [p \in PermissionNames |-> FALSE]

Users == {i \in Ids : address[i] # None}
Apps  == {i \in Ids : owner[i] # None}

Init ==
    /\ address  = [i \in Ids |-> IF i \in Known THEN Home[i] ELSE None]
    /\ owner    = [i \in Ids |-> None]
    /\ perm     = [u \in Known |-> NoPermission]
    /\ key      = [i \in Ids |-> None]
    /\ stage    = [c \in Calls |-> "none"]
    /\ body     = [c \in Calls |-> NoBody]
    /\ client   = [c \in Calls |-> None]
    /\ answer   = [c \in Calls |-> None]
    /\ told     = [c \in Calls |-> NoInfo]
    /\ failures = 0
    /\ updates  = 0
    /\ before   = [c \in Calls |-> {}]
    /\ could    = [c \in Calls |-> {}]

\* Who has which permission.
Holders == {h \in (DOMAIN perm) \X PermissionNames : perm[h[1]][h[2]]}

\* PermissionService.has_permission and create.
has_permission(i, p) == perm[i][p]

CreatePermission(i, p) ==
    perm' = [j \in DOMAIN perm \cup {i} |-> IF j = i THEN p ELSE perm[j]]

\* The calls that run see the permissions as they now become.
NotePermissions ==
    could' = [c \in Calls |-> IF stage[c] \in Running THEN could[c] \cup Holders' ELSE could[c]]

GoTo(c, to) == stage' = [stage EXCEPT ![c] = to]

Bodies ==
    [kind : {"user"}, address : Addresses, user : {None}]
        \cup [kind : Kinds \ {"user"}, address : {None}, user : Users]
        \cup [kind : {"info"}, address : {None}, user : {None}]

\* A call begins: Authentication has found the user it is made for. There is
\* none, for get_info, when an app asks for itself.
Receive(c) ==
    /\ stage[c] = "none"
    /\ \E b \in Bodies : body' = [body EXCEPT ![c] = b]
    /\ GoTo(c, "look")
    /\ before' = [before EXCEPT ![c] = {d \in Calls : stage[d] \in Over}]
    /\ could' = [could EXCEPT ![c] = Holders]
    /\ UNCHANGED <<tables, client, answer, told, bounds>>

(***************************************************************************)
(* UserService.get_or_create                                               *)
(***************************************************************************)

\* The users of an address; first() returns any of them.
UsersAt(a) == {u \in Users : address[u] = a}

FindUser(c) ==
    /\ stage[c] = "look" /\ body[c].kind = "user"
    /\ \/ /\ \E u \in UsersAt(body[c].address) : answer' = [answer EXCEPT ![c] = u]
          /\ GoTo(c, "done")
       \/ /\ UsersAt(body[c].address) = {}
          /\ GoTo(c, "create")
          /\ UNCHANGED answer
    /\ UNCHANGED <<tables, body, client, told, bounds, history>>

\* Mutant of CreateUser: its Permission row is not created.
CreateUserOnly(c) ==
    /\ stage[c] = "create" /\ body[c].kind = "user"
    /\ address' = [address EXCEPT ![c] = body[c].address]
    /\ answer' = [answer EXCEPT ![c] = c]
    /\ GoTo(c, "done")
    /\ UNCHANGED <<owner, perm, key, body, client, told, bounds, history>>

\* The transaction that creates the user and its Permission row.
CreateUser(c) ==
    /\ stage[c] = "create" /\ body[c].kind = "user"
    /\ address' = [address EXCEPT ![c] = body[c].address]
    /\ CreatePermission(c, NoPermission)
    /\ answer' = [answer EXCEPT ![c] = c]
    /\ GoTo(c, "done")
    /\ UNCHANGED <<owner, key, body, client, told, bounds, history>>

(***************************************************************************)
(* AppService.create                                                       *)
(***************************************************************************)

\* Mutant of AppsOf: the apps are looked up by their own id.
AppsNamed(u) == {a \in Apps : a = u}

AppsOf(u) == {a \in Apps : owner[a] = u}

FindApp(c) ==
    /\ stage[c] = "look" /\ body[c].kind = "app"
    /\ GoTo(c, IF AppsOf(body[c].user) # {} THEN "done" ELSE "check")
    /\ UNCHANGED <<tables, work, bounds, history>>

CheckApp(c) ==
    /\ stage[c] = "check" /\ body[c].kind = "app"
    /\ GoTo(c, IF has_permission(body[c].user, "can_create_app") THEN "create" ELSE "refused")
    /\ UNCHANGED <<tables, work, bounds, history>>

\* The transaction that creates the app and its Permission row.
CreateApp(c) ==
    /\ stage[c] = "create" /\ body[c].kind = "app"
    /\ owner' = [owner EXCEPT ![c] = body[c].user]
    /\ CreatePermission(c, [NoPermission EXCEPT !["can_create_api_key"] = TRUE])
    /\ NotePermissions
    /\ GoTo(c, "done")
    /\ UNCHANGED <<address, key, work, bounds, before>>

(***************************************************************************)
(* AuthService.generate                                                    *)
(***************************************************************************)

\* User.get, or App.get, which raises unless the user has exactly one app.
FindClient(c) ==
    /\ stage[c] = "look" /\ body[c].kind \in KeyKinds
    /\ \/ /\ body[c].kind = "user_key"
          /\ client' = [client EXCEPT ![c] = body[c].user]
          /\ GoTo(c, "auth")
       \/ /\ body[c].kind = "app_key"
          /\ \E a \in AppsOf(body[c].user) :
                /\ AppsOf(body[c].user) = {a}
                /\ client' = [client EXCEPT ![c] = a]
          /\ GoTo(c, "auth")
       \/ /\ body[c].kind = "app_key"
          /\ \A a \in Apps : AppsOf(body[c].user) # {a}
          /\ GoTo(c, "error")
          /\ UNCHANGED client
    /\ UNCHANGED <<tables, body, answer, told, bounds, history>>

\* Mutant of FindAuth: there is no look for a row.
FindAuthNever(c) ==
    /\ stage[c] = "auth"
    /\ GoTo(c, "check")
    /\ UNCHANGED <<tables, work, bounds, history>>

\* Auth.filter(...).first(), and a new key.
FindAuth(c) ==
    /\ stage[c] = "auth"
    /\ GoTo(c, IF key[client[c]] # None THEN "save" ELSE "check")
    /\ UNCHANGED <<tables, work, bounds, history>>

\* Mutant of SaveKey: the row is saved as it was read.
SaveKeyOld(c) ==
    /\ stage[c] = "save"
    /\ GoTo(c, "stored")
    /\ UNCHANGED <<tables, work, bounds, history>>

\* "regenerate": the new key replaces the one of the row. (The save writes every
\* column as FindAuth read it. Of the columns, this module has the key alone: what
\* becomes of the scope and of is_revoked is in Access, ReadRow and ReplaceKey.)
SaveKey(c) ==
    /\ stage[c] = "save"
    /\ key' = [key EXCEPT ![client[c]] = c]
    /\ GoTo(c, "stored")
    /\ UNCHANGED <<address, owner, perm, work, bounds, history>>

\* Mutant of MayHaveKey: everybody may.
MayHaveKeyAlways(c) == TRUE

\* has_permission, of the user or the app.
MayHaveKey(c) == has_permission(client[c], "can_create_api_key")

CheckKey(c) ==
    /\ stage[c] = "check" /\ body[c].kind \in KeyKinds
    /\ GoTo(c, IF MayHaveKey(c) THEN "create" ELSE "refused")
    /\ UNCHANGED <<tables, work, bounds, history>>

\* Auth.create, which raises where another call created the row meanwhile.
CreateKey(c) ==
    /\ stage[c] = "create" /\ body[c].kind \in KeyKinds
    /\ \/ /\ key[client[c]] = None
          /\ key' = [key EXCEPT ![client[c]] = c]
          /\ GoTo(c, "stored")
       \/ /\ key[client[c]] # None
          /\ GoTo(c, "error")
          /\ UNCHANGED key
    /\ UNCHANGED <<address, owner, perm, work, bounds, history>>

\* The caller is given the key.
DeliverKey(c) ==
    /\ stage[c] = "stored"
    /\ GoTo(c, "done")
    /\ UNCHANGED <<tables, work, bounds, history>>

(***************************************************************************)
(* UserService.get_info: one query after the other. Its query of the       *)
(* audits, which are only counted, and its columns of credits are left out.*)
(***************************************************************************)

\* User.get, which raises where there is no such user.
InfoUser(c) ==
    /\ stage[c] = "look" /\ body[c].kind = "info"
    /\ GoTo(c, IF body[c].user \in Users THEN "info_auth" ELSE "missing")
    /\ UNCHANGED <<tables, work, bounds, history>>

\* Auth.filter(...).first().
InfoAuth(c) ==
    /\ stage[c] = "info_auth"
    /\ told' = [told EXCEPT ![c].auth = key[body[c].user] # None]
    /\ GoTo(c, "info_app")
    /\ UNCHANGED <<tables, body, client, answer, bounds, history>>

\* App.filter(...).select_related("permissions", "auth").first().
InfoApp(c) ==
    /\ stage[c] = "info_app"
    /\ \/ \E a \in AppsOf(body[c].user) :
            told' = [told EXCEPT ![c].app = a, ![c].key = key[a] # None]
       \/ AppsOf(body[c].user) = {} /\ UNCHANGED told
    /\ GoTo(c, "info_permission")
    /\ UNCHANGED <<tables, body, client, answer, bounds, history>>

\* Permission.get, which raises where there is no row, and the answer.
InfoPermission(c) ==
    /\ stage[c] = "info_permission"
    /\ GoTo(c, IF body[c].user \in DOMAIN perm THEN "done" ELSE "missing")
    /\ UNCHANGED <<tables, work, bounds, history>>

get_info(c) == InfoUser(c) \/ InfoAuth(c) \/ InfoApp(c) \/ InfoPermission(c)

(***************************************************************************)
(* AdminService.update_permissions. It only ever finds the row of a user:  *)
(* `type` in it is the builtin, so app_id is never looked at.              *)
(***************************************************************************)
UpdatePermissions(u) ==
    /\ u \in Users
    /\ updates < MaxUpdates
    /\ updates' = updates + 1
    /\ \E p \in Permissions : perm' = [perm EXCEPT ![u] = p]
    /\ NotePermissions
    /\ UNCHANGED <<address, owner, key, stage, work, failures, before>>

\* The database raises or the API stops; a transaction that runs is undone.
Fail(c) ==
    /\ stage[c] \in Running
    /\ failures < MaxFailures
    /\ failures' = failures + 1
    /\ GoTo(c, "failed")
    /\ UNCHANGED <<tables, work, updates, history>>
-----------------------------------------------------------------------------
Next ==
    \/ \E c \in Calls :
        \/ Receive(c) \/ Fail(c)
        \/ FindUser(c) \/ CreateUser(c)
        \/ FindApp(c) \/ CheckApp(c) \/ CreateApp(c)
        \/ FindClient(c) \/ FindAuth(c) \/ SaveKey(c)
        \/ CheckKey(c) \/ CreateKey(c) \/ DeliverKey(c)
        \/ get_info(c)
    \/ \E u \in Ids : UpdatePermissions(u)

Spec == Init /\ [][Next]_vars
-----------------------------------------------------------------------------
TypeOK ==
    /\ address \in [Ids -> Addresses \cup {None}]
    /\ owner \in [Ids -> Ids \cup {None}]
    /\ perm \in [Users \cup Apps -> Permissions]
    /\ key \in [Ids -> Calls \cup {None}]
    /\ stage \in [Calls -> {"none"} \cup Running \cup Over]
    /\ body \in [Calls -> [kind : Kinds \cup {None}, address : Addresses \cup {None},
                           user : Ids \cup {None}]]
    /\ client \in [Calls -> Ids \cup {None}]
    /\ answer \in [Calls -> Ids \cup {None}]
    /\ told \in [Calls -> [auth : BOOLEAN, app : Ids \cup {None}, key : BOOLEAN]]
    /\ failures \in 0 .. MaxFailures
    /\ updates \in 0 .. MaxUpdates
    /\ before \in [Calls -> SUBSET Calls]
    /\ could \in [Calls -> SUBSET (Ids \X PermissionNames)]

\* One of c and d was over when the other began.
Sequential(c, d) == c \in before[d] \/ d \in before[c]

\* Two users have one address, or two apps one owner, only when two calls
\* that overlapped created them (get_or_create and AppService.create look
\* first; no index stops the second).
TwinsOnlyByOverlap ==
    \A i, j \in Ids :
        /\ i # j
        /\ \/ i \in Users /\ address[i] = address[j]
           \/ i \in Apps /\ owner[i] = owner[j]
        => i \in Calls /\ j \in Calls /\ ~Sequential(i, j)

\* Once a caller was given a key, the key of that client that works is this
\* one or one of a call that ended later: never an older one, and never none.
OldKeysStayDead ==
    \A c \in Calls : stage[c] = "done" /\ client[c] # None =>
        key[client[c]] \in Calls \ before[c]

\* Of two calls that both create the Auth row of a client the second fails,
\* and only because the first made a key meanwhile: the key that works is of a
\* call that was not over when the second began.
CollisionHasWinner ==
    \A c \in Calls : stage[c] = "error" /\ client[c] # None =>
        key[client[c]] \in Calls \ (before[c] \cup {c})

\* get_info, which reads one table after the other, is never behind: it tells
\* of the key, and of the app, that a call was given that was over before, and,
\* of the app it tells of (one of two, where they are twins), of its key. It
\* finds every user, and its permissions with it.
InfoTellsWhatIsDone ==
    \A c \in Calls : body[c].kind = "info" =>
        /\ stage[c] = "missing" => body[c].user = None
        /\ stage[c] = "done" =>
            \A d \in before[c] : stage[d] = "done" /\ body[d].user = body[c].user =>
                /\ body[d].kind = "user_key" => told[c].auth
                /\ body[d].kind = "app" => told[c].app # None
                /\ body[d].kind = "app_key" /\ client[d] = told[c].app => told[c].key

\* An app, or the first key of a client, comes only from a call during which
\* the permission was there: one that was withdrawn before never counts
\* (has_permission, then create).
CreatedWithPermission ==
    [][\A i \in Ids :
        /\ owner[i] = None /\ owner'[i] # None
            => <<owner'[i], "can_create_app">> \in could[i]
        /\ key[i] = None /\ key'[i] # None
            => <<i, "can_create_api_key">> \in could[key'[i]]]_vars

\* "A user is denoted by their address" (api/user/router.py): no two users
\* have one address. (Calls that overlap create two, and later calls for the
\* address are answered with any of them.)
UserDenotedByAddress ==
    \A u, v \in Users : address[u] = address[v] => u = v
=============================================================================
