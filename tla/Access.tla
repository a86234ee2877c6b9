------------------------------- MODULE Access -------------------------------
(***************************************************************************)
(* Requests on their way through the API: the key is authenticated, role   *)
(* and scope are checked, the user in the Bevor-User-Identifier header is  *)
(* looked up, the payer's credits are looked at (api/dependencies.py), and *)
(* the handler of the route runs with the AuthState that came out of this. *)
(* The routes of BaseRouter have no dependency, and run for anyone.        *)
(* The handlers modelled are those that create, list and show audits, take *)
(* feedback and ask for the admin status; what others do is in the modules *)
(* of their components.                                                    *)
(*                                                                         *)
(* Keys, scopes and revocations change while requests are under way, and a *)
(* client that walks the list of audits sends a request for every page.    *)
(***************************************************************************)
EXTENDS Naturals, Sequences, FiniteSets

CONSTANTS
    Users, Apps,    \* the ids of the users and of the apps
    FirstParty,     \* the apps of type first_party
    Owner,          \* the owner of every other app
    Free,           \* the clients whose Auth row has consumes_credits False
    FirstAuth,      \* what the Auth table may be at the start
    Stored,         \* the audits that are there at the start
    Requests,       \* what clients send
    Traffic,        \* the routes the requests may be for, and (bound of the model) how often
                    \* the Auth table may change meanwhile
    Strangers,      \* what a header may name that is no user
    PageSize,       \* page_size of GET /audit/list
    None

Clients == Users \cup Apps
Headers == Users \cup Strangers
Scopes  == {"read", "write", "admin"}
AuthRow == [key : Nat, scope : Scopes, revoked : BOOLEAN]   \* key 0: no row

ASSUME PartiesAssumption == /\ FirstParty \subseteq Apps
                            /\ Owner \in [Apps \ FirstParty -> Users]
                            /\ Free \subseteq Clients
                            /\ Users \cap (Apps \cup Strangers) = {}
                            /\ None \notin Clients \cup Strangers
ASSUME FirstAssumption == /\ FirstAuth \subseteq [Clients -> AuthRow]
                          /\ Stored \in Seq([user : Users, app : Apps \cup {None}])
ASSUME PageAssumption == PageSize \in Nat \ {0}

(***************************************************************************)
(* The routes: what their dependencies require of a request.               *)
(***************************************************************************)

\* Authentication, for a method and a role.
Open(method, role) == [key |-> TRUE, method |-> method, role |-> role, header |-> TRUE,
                       delegated |-> "none", credits |-> FALSE]
\* AuthenticationWithoutDelegation: the header is not read.
Undelegated(method, role) == [Open(method, role) EXCEPT !.header = FALSE]
\* Authentication with delegated_scope=ADMIN.
Admin(method) == [Open(method, "first_party") EXCEPT !.delegated = "admin"]
\* No dependency at all.
Public == [Open("GET", "user") EXCEPT !.key = FALSE, !.header = FALSE]
\* With RequireCredits.
Paid(route) == [route EXCEPT !.credits = TRUE]

AuditRoutes ==
    [create_audit |-> Paid(Open("POST", "user")), list_audits      |-> Open("GET", "user"),
     get_audit    |-> Open("GET", "user"),        get_audit_status |-> Open("GET", "user"),
     submit_feedback |-> Open("POST", "user")]
AdminRoutes ==
    [is_admin    |-> Open("GET", "first_party"),  search_apps        |-> Admin("GET"),
     search_users |-> Admin("GET"),               update_permissions |-> Admin("POST"),
     get_prompts |-> Admin("GET"),                update_prompt      |-> Admin("PATCH"),
     add_prompt  |-> Admin("POST"),               get_audit_children |-> Admin("GET")]
ContractRoutes ==
    [upload_contract |-> Undelegated("POST", "user"),
     get_contract    |-> Undelegated("GET", "user"),
     process_token   |-> Paid(Undelegated("POST", "user"))]
AppRoutes ==
    [create_app   |-> Open("POST", "first_party"), update_app |-> Open("PATCH", "first_party"),
     get_app_info |-> Undelegated("GET", "app"),   get_stats  |-> Undelegated("GET", "first_party")]
UserRoutes ==
    [get_or_create_user |-> Undelegated("POST", "app"), get_user_info |-> Open("GET", "user")]
AuthRoutes ==
    [generate_api_key |-> Open("POST", "first_party"), sync_credits |-> Open("POST", "user")]
PlatformRoutes   == [get_credit_estimate |-> Undelegated("GET", "user")]
BlockchainRoutes == [get_gas |-> Open("GET", "user")]
BaseRoutes ==
    [read_root |-> Public, health_check |-> Public, get_metrics |-> Public,
     test      |-> Public, redoc        |-> Public, redirect_to_docs |-> Public]

Tables == {AuditRoutes, AdminRoutes, ContractRoutes, AppRoutes, UserRoutes, AuthRoutes,
           PlatformRoutes, BlockchainRoutes, BaseRoutes}
Routes == [name \in UNION {DOMAIN table : table \in Tables} |->
             (CHOOSE table \in Tables : name \in DOMAIN table)[name]]

ASSUME TrafficAssumption ==
    \A t \in Traffic : /\ DOMAIN t.routes \subseteq Requests
                       /\ \A r \in DOMAIN t.routes : t.routes[r] \in DOMAIN Routes
                       /\ t.changes \in Nat

VARIABLES
    auth,      \* the Auth table: a client has one row at most
    held,      \* the row of a client as the call that generates a key has read it
    audits,    \* the Audit table in the order of created_at, and who created it
    req,       \* what the API knows of a request
    changes,   \* bound of the model: how often auth may change yet
    could      \* history: what was true of a request's keys while it ran

vars == <<auth, held, audits, req, changes, could>>
Ids  == DOMAIN audits

NoRow   == [key |-> 0, scope |-> "write", revoked |-> FALSE]
NoState == [role |-> "none", consumes |-> FALSE, payer |-> None, user |-> None, app |-> None]
\* A request that has not been received. `begun` is the number of audits there
\* were when it was, `asked` the audit it is about, `shown` the audits that the
\* answers so far have shown.
NoRequest == [at |-> "none", route |-> "none", client |-> None, key |-> 0, header |-> None,
              query |-> None, state |-> NoState, page |-> 0, begun |-> 0, asked |-> 0,
              shown |-> {}, answer |-> "none"]

Init ==
    /\ auth \in FirstAuth
    /\ held = [c \in Clients |-> NoRow]
    /\ audits = [i \in DOMAIN Stored |->
                   [user |-> Stored[i].user, app |-> Stored[i].app, checked |-> None,
                    by |-> IF Stored[i].app # None THEN Stored[i].app ELSE Stored[i].user,
                    header |-> IF Stored[i].app # None THEN Stored[i].user ELSE None]]
    /\ \E t \in Traffic :
        /\ req = [r \in Requests |->
                    [NoRequest EXCEPT !.route = IF r \in DOMAIN t.routes THEN t.routes[r] ELSE "none"]]
        /\ changes = t.changes
    /\ could = [r \in Requests |-> {}]

(***************************************************************************)
(* What may be said for a request while the Auth table is as in `rows`.    *)
(***************************************************************************)
Facts(r, q, rows) ==
    (IF q.client # None /\ rows[q.client].key = q.key /\ ~rows[q.client].revoked
        THEN {"reads"} \cup (IF rows[q.client].scope # "read" THEN {"writes"} ELSE {})
        ELSE {})
    \cup (IF q.header \in Users /\ rows[q.header].key # 0 /\ rows[q.header].scope = "admin"
            THEN {"admin"} ELSE {})

InFlight(r) == req[r].at \notin {"none", "over"}

Note(rows) ==
    could' = [r \in Requests |-> IF InFlight(r) THEN could[r] \cup Facts(r, req[r], rows)
                                                ELSE could[r]]

-----------------------------------------------------------------------------
\* Request r as client c sends it, with key k, header h and query q.
Sent(r, c, k, h, q) ==
    [req EXCEPT ![r].at = "authenticate", ![r].client = c, ![r].key = k, ![r].header = h,
                ![r].query = q, ![r].begun = Len(audits)]

\* A client sends its key, or the one it had before, and a header or none.
Receive(r) ==
    /\ req[r].at = "none" /\ req[r].route # "none" /\ Routes[req[r].route].key
    /\ \E c \in Clients, h \in Headers \cup {None}, q \in Users \cup {None} :
        \E k \in {auth[c].key, auth[c].key - 1} \ {0} :
            /\ q # None => req[r].route = "list_audits"
            /\ req' = Sent(r, c, k, h, q)
            /\ could' = [could EXCEPT ![r] = Facts(r, req'[r], auth)]
    /\ UNCHANGED <<auth, held, audits, changes>>

Answer(r, a) == [req EXCEPT ![r].at = "over", ![r].answer = a]

\* Anyone asks for a route of BaseRouter, with whatever headers: nothing reads
\* them, and the handler runs. (What it does is outside these tables: test
\* enqueues the job `mock`.)
Visit(r) ==
    /\ req[r].at = "none" /\ req[r].route # "none" /\ ~Routes[req[r].route].key
    /\ req' = Answer(r, "ok")
    /\ UNCHANGED <<auth, held, audits, changes, could>>

\* Mutant of StateOf: the header wins over the key of a user.
StateOfHeaderFirst(c, h) ==
    [role |-> IF c \in Users THEN "user" ELSE IF c \in FirstParty THEN "first_party" ELSE "app",
     consumes |-> c \notin Free \cup FirstParty,
     payer |-> IF c \in Users THEN c ELSE IF c \in FirstParty THEN None ELSE Owner[c],
     user |-> IF h # None THEN h
              ELSE IF c \in Users THEN c ELSE IF c \in FirstParty THEN None ELSE Owner[c],
     app |-> IF c \in Apps THEN c ELSE None]

\* The AuthState of client c with header h (None where the header is not read).
StateOf(c, h) ==
    CASE c \in Users ->
           [role |-> "user", consumes |-> c \notin Free, payer |-> c, user |-> c, app |-> None]
      [] c \in FirstParty ->
           [role |-> "first_party", consumes |-> FALSE, payer |-> None, user |-> h, app |-> c]
      [] c \in Apps \ FirstParty ->
           [role |-> "app", consumes |-> c \notin Free, payer |-> Owner[c],
            user |-> IF h = None THEN Owner[c] ELSE h, app |-> c]

\* required_role, which has no case of its own for USER.
HasRole(c, role) ==
    /\ role = "first_party" => c \in FirstParty
    /\ role = "app" => c \in Apps

\* Mutant of InScope: PATCH is no POST.
InScopeOfPost(scope, method) == method = "POST" => scope \in {"write", "admin"}

\* check_authorization: no route overrides the scope its method requires.
InScope(scope, method) == method # "GET" => scope \in {"write", "admin"}

\* The key works, and its client has the role and the scope for the route.
AdmitsKey(r) ==
    LET route == Routes[req[r].route]
        row   == auth[req[r].client]
    IN  /\ row.key = req[r].key
        /\ ~row.revoked
        /\ HasRole(req[r].client, route.role)
        /\ InScope(row.scope, route.method)

\* Mutant of Admits: the user in the header need not exist.
AdmitsStrangers(r) == AdmitsKey(r)

\* And so does the header, if there is one.
Admits(r) == AdmitsKey(r) /\ req[r].header \in Users \cup {None}

\* Where a request goes once it is authenticated, and its delegation checked.
AfterDelegation(r) == IF Routes[req[r].route].credits THEN "credits" ELSE "handle"
AfterAuthentication(r) ==
    IF Routes[req[r].route].delegated = "none" THEN AfterDelegation(r) ELSE "delegate"

\* Authentication reads the row of the key. What check_authentication and
\* check_authorization decide, they decide on that row.
Authenticate(r) ==
    /\ req[r].at = "authenticate"
    /\ Routes[req[r].route].header
    /\ req' = IF Admits(r)
                THEN [req EXCEPT ![r].at = AfterAuthentication(r),
                                 ![r].state = StateOf(req[r].client, req[r].header)]
                ELSE Answer(r, "unauthorized")
    /\ UNCHANGED <<auth, held, audits, changes, could>>

\* AuthenticationWithoutDelegation: a class of its own, which reads no header.
AuthenticateKey(r) ==
    /\ req[r].at = "authenticate"
    /\ ~Routes[req[r].route].header
    /\ req' = IF AdmitsKey(r)
                THEN [req EXCEPT ![r].at = AfterAuthentication(r),
                                 ![r].state = StateOf(req[r].client, None)]
                ELSE Answer(r, "unauthorized")
    /\ UNCHANGED <<auth, held, audits, changes, could>>

\* check_delegated_scope reads the row of the user in the header: it must be
\* there and its scope at least ADMIN. (Whether it is revoked is not asked.)
Delegate(r) ==
    /\ req[r].at = "delegate"
    /\ LET h == req[r].header IN
        req' = IF h # None /\ auth[h].key # 0 /\ auth[h].scope = "admin"
                 THEN [req EXCEPT ![r].at = AfterDelegation(r)]
                 ELSE Answer(r, "unauthorized")
    /\ UNCHANGED <<auth, held, audits, changes, could>>

\* RequireCredits reads the payer's row, if the client consumes credits. How
\* many credits there are is in Credits: they suffice or they do not.
RequireCredits(r) ==
    /\ req[r].at = "credits"
    /\ \/ req' = [req EXCEPT ![r].at = "handle"]
       \/ req[r].state.consumes /\ req' = Answer(r, "payment")
    /\ UNCHANGED <<auth, held, audits, changes, could>>

(***************************************************************************)
(* The handlers.                                                           *)
(***************************************************************************)

\* Handling a request for a route, with the AuthState it has.
Handles(r, route) == req[r].at = "handle" /\ req[r].route = route

\* process_evaluation: the audit belongs to the user and the app of the state,
\* if there is such a contract.
CreateAudit(r) ==
    /\ Handles(r, "create_audit")
    /\ LET s == req[r].state IN
        \/ /\ audits' = Append(audits,
                 [user |-> s.user, app |-> s.app, by |-> req[r].client,
                  header |-> req[r].header, checked |-> IF s.consumes THEN s.payer ELSE None])
           /\ req' = Answer(r, "ok")
        \/ audits' = audits /\ req' = Answer(r, "missing")
    /\ UNCHANGED <<auth, held, changes, could>>

\* The filter of get_audit, get_status and get_audits.
Sees(s, i) ==
    /\ s.role = "app" => audits[i].app = s.app
    /\ s.role = "user" => audits[i].user = s.user

\* Whether submit_feedback takes feedback on a finding of audit i.
MayAttest(s, i) ==
    /\ s.role = "user" => audits[i].user # None /\ audits[i].user = s.user
    /\ s.role = "app" => audits[i].app # None /\ audits[i].app = s.app

\* Rendering an audit needs its user: from_tortoise(None) raises.
Renders(S) == \A i \in S : audits[i].user # None

\* The answer to a request about audit i, and one that shows the audits of S.
About(r, i, a) == [req EXCEPT ![r].at = "over", ![r].answer = a, ![r].asked = i]
Show(r, S)     == [req EXCEPT ![r].at = "over", ![r].answer = "ok", ![r].shown = @ \cup S]

GetAudit(r) ==
    /\ Handles(r, "get_audit")
    /\ \E i \in Ids :
        req' = About(r, i, IF ~Sees(req[r].state, i) THEN "missing"
                           ELSE IF Renders({i}) THEN "ok" ELSE "error")
    /\ UNCHANGED <<auth, held, audits, changes, could>>

GetStatus(r) ==
    /\ Handles(r, "get_audit_status")
    /\ \E i \in Ids : req' = About(r, i, IF Sees(req[r].state, i) THEN "ok" ELSE "missing")
    /\ UNCHANGED <<auth, held, audits, changes, could>>

SubmitFeedback(r) ==
    /\ Handles(r, "submit_feedback")
    /\ \E i \in Ids :
        req' = About(r, i, IF MayAttest(req[r].state, i) THEN "ok" ELSE "refused")
    /\ UNCHANGED <<auth, held, audits, changes, could>>

\* Auth.get(user_id=...): the row of the user the request acts for. Where it
\* acts for none, user_id=None is IS NULL, and the rows are those of the apps.
RowsOf(user) == {c \in IF user = None THEN Apps ELSE {user} : auth[c].key # 0}

\* AdminService.is_admin: no row is a no, several raise MultipleObjectsReturned,
\* which nobody catches.
IsAdmin(r) ==
    /\ Handles(r, "is_admin")
    /\ LET rows == RowsOf(req[r].state.user) IN
        req' = Answer(r, IF \E c, d \in rows : c # d THEN "error"
                         ELSE IF \E c \in rows : auth[c].scope = "admin" THEN "ok" ELSE "no")
    /\ UNCHANGED <<auth, held, audits, changes, could>>

\* A handler of another component: see its module.
Elsewhere(r) ==
    /\ req[r].at = "handle"
    /\ req[r].route \notin {"is_admin"} \cup DOMAIN AuditRoutes
    /\ req' = Answer(r, "ok")
    /\ UNCHANGED <<auth, held, audits, changes, could>>

(***************************************************************************)
(* get_audits: a count, then the page. The client asks for the next page   *)
(* as long as it is told that there is more.                               *)
(***************************************************************************)
Listed(r) ==
    {i \in Ids : /\ Sees(req[r].state, i)
                 /\ req[r].query # None /\ req[r].state.role # "user" =>
                        audits[i].user = req[r].query}

\* Mutant of Offset: the row that is fetched to see if there is more counts.
OffsetOfFetched(r) == req[r].page * (PageSize + 1)

Offset(r) == req[r].page * PageSize

\* order_by("-created_at"), offset and limit.
Window(S, offset, limit) ==
    {i \in S : LET newer == Cardinality({j \in S : j > i})
               IN  offset <= newer /\ newer < offset + limit}

Count(r) ==
    /\ Handles(r, "list_audits")
    /\ req' = IF Cardinality(Listed(r)) <= Offset(r) THEN Show(r, {})
                                                     ELSE [req EXCEPT ![r].at = "page"]
    /\ UNCHANGED <<auth, held, audits, changes, could>>

\* The client has the audits of S, and asks for the next page.
Continue(r, S) ==
    [req EXCEPT ![r].at = "authenticate", ![r].page = @ + 1, ![r].shown = @ \cup S]

ReadPage(r) ==
    /\ req[r].at = "page"
    /\ LET results == Window(Listed(r), Offset(r), PageSize + 1)
           trimmed == Window(Listed(r), Offset(r), PageSize)
       IN  req' = IF ~Renders(trimmed) THEN Answer(r, "error")
                  ELSE IF Cardinality(results) > PageSize
                    THEN Continue(r, trimmed)
                    ELSE Show(r, trimmed)
    /\ UNCHANGED <<auth, held, audits, changes, could>>

(***************************************************************************)
(* The worker: whom handle_eval charges for an audit.                      *)
(***************************************************************************)

\* Mutant of CallerOf: the user is looked up first.
CallerOfUserFirst(i) == IF audits[i].user # None THEN audits[i].user ELSE audits[i].app

\* The client whose Auth row handle_eval reads.
CallerOf(i) == IF audits[i].app # None THEN audits[i].app ELSE audits[i].user

\* The user it charges, or None.
ChargedTo(i) ==
    LET c == CallerOf(i)
    IN  IF c \in Free \cup FirstParty THEN None ELSE IF c \in Apps THEN Owner[c] ELSE c

(***************************************************************************)
(* The Auth table changes: AuthService.generate gives a row a new key; a   *)
(* row is revoked, or given another scope, in the database.                *)
(***************************************************************************)

\* generate reads the row.
ReadRow(c) ==
    /\ changes > 0 /\ changes' = changes - 1
    /\ auth[c].key # 0 /\ held[c] = NoRow
    /\ held' = [held EXCEPT ![c] = auth[c]]
    /\ UNCHANGED <<auth, audits, req, could>>

\* auth.hashed_key = hash_key; auth.save(): the key is new, and every other
\* column is written back as it was read.
ReplaceKey(c) ==
    /\ held[c] # NoRow
    /\ auth' = [auth EXCEPT ![c] = [held[c] EXCEPT !.key = auth[c].key + 1]]
    /\ held' = [held EXCEPT ![c] = NoRow]
    /\ Note(auth')
    /\ UNCHANGED <<audits, req, changes>>

\* A column is changed in the database.
SetColumns(c, new) ==
    /\ changes > 0 /\ changes' = changes - 1
    /\ auth[c].key # 0 /\ new # auth[c]
    /\ auth' = [auth EXCEPT ![c] = new]
    /\ Note(auth')
    /\ UNCHANGED <<held, audits, req>>

Revoke(c)   == SetColumns(c, [auth[c] EXCEPT !.revoked = TRUE])
SetScope(c) == \E scope \in Scopes : SetColumns(c, [auth[c] EXCEPT !.scope = scope])

-----------------------------------------------------------------------------
Handle(r) ==
    \/ CreateAudit(r) \/ GetAudit(r) \/ GetStatus(r) \/ SubmitFeedback(r)
    \/ IsAdmin(r) \/ Elsewhere(r) \/ Count(r) \/ ReadPage(r)

Next ==
    \/ \E r \in Requests :
        \/ Receive(r) \/ Visit(r) \/ Authenticate(r) \/ AuthenticateKey(r) \/ Delegate(r)
        \/ RequireCredits(r) \/ Handle(r)
    \/ \E c \in Clients : ReadRow(c) \/ ReplaceKey(c) \/ Revoke(c) \/ SetScope(c)

Spec == Init /\ [][Next]_vars
-----------------------------------------------------------------------------
State == [role : {"none", "user", "app", "first_party"}, consumes : BOOLEAN,
          payer : Users \cup {None}, user : Users \cup {None}, app : Apps \cup {None}]

TypeOK ==
    /\ auth \in [Clients -> AuthRow] /\ held \in [Clients -> AuthRow]
    /\ audits \in Seq([user : Users \cup {None}, app : Apps \cup {None}, by : Clients,
                       header : Headers \cup {None}, checked : Users \cup {None}])
    /\ \A r \in Requests :
        /\ req[r].at \in {"none", "authenticate", "delegate", "credits", "handle", "page", "over"}
        /\ req[r].client \in Clients \cup {None} /\ req[r].header \in Headers \cup {None}
        /\ req[r].state \in State
        /\ req[r].asked \in Ids \cup {0} /\ req[r].shown \subseteq Ids
    /\ could \in [Requests -> SUBSET {"reads", "writes", "admin"}]

\* Whose audit it is: that of the app that created it, and that of the user
\* with whose key, on whose behalf, or by whose app it was created.
Owns(c, i) ==
    LET a == audits[i] IN
    \/ c \in FirstParty
    \/ c = a.by
    \/ a.by \in Apps /\ c \in Users /\ c = a.header
    \/ a.by \in Apps \ FirstParty /\ a.header = None /\ c = Owner[a.by]

\* Who created it: the client that sends the request now, and, if that is an
\* app, with the header that the request has now.
Created(r, i) ==
    LET a == audits[i] IN
    req[r].client = a.by /\ (a.by \in Apps => req[r].header = a.header)

\* "FIRST_PARTY apps can view all. THIRD_PARTY apps can only view those created
\* through their app. Users can only view their own audits" (get_audits): this
\* holds for the list, an audit and its status, and for feedback on a finding;
\* and a client is never denied what it created itself, with the same header.
\* (The rule is written down once for what is stored, in the AuthState, and four
\* times for what is asked.)
EachSeesItsOwn ==
    \A r \in Requests :
        /\ \A i \in req[r].shown : Owns(req[r].client, i)
        /\ req[r].asked # 0 =>
             IF req[r].answer \in {"missing", "refused"}
               THEN ~Created(r, req[r].asked)
               ELSE Owns(req[r].client, req[r].asked)

\* Whoever handle_eval charges for an audit is the payer whose credits were
\* looked at before it was created, and nobody is charged unchecked. (One is
\* found from the key and the header, the other from the row of the audit.)
ChargedIsChecked ==
    \A i \in Ids : i > Len(Stored) => audits[i].checked = ChargedTo(i)

Changing == {"create_audit", "submit_feedback", "update_permissions", "update_prompt",
             "add_prompt", "upload_contract", "process_token", "create_app", "update_app",
             "get_or_create_user", "generate_api_key", "sync_credits"}
ForAdmins == DOMAIN AdminRoutes \ {"is_admin"}
ForOperators == ForAdmins \cup {"is_admin", "create_app", "update_app", "get_stats",
                                "generate_api_key"}
ForApps == ForOperators \cup {"get_app_info", "get_or_create_user"}

Handled(r) ==
    \/ req[r].at \in {"handle", "page"}
    \/ req[r].at = "over" /\ req[r].answer \notin {"unauthorized", "payment"}

ForAnyone == {"read_root", "health_check", "get_metrics", "test", "redoc", "redirect_to_docs"}

\* But for the six routes of BaseRouter, a handler runs only for a request whose
\* key was valid at some time since it was received, with WRITE scope if the
\* handler changes anything; the handlers of the admin API only for the
\* first-party app and a user who was an admin at some time since then, and the
\* user in a header is called an admin only if that user was one. (The rows are
\* read one after the other, and nothing holds them still. Whether the row of
\* the user is revoked nobody asks; and without a header is_admin speaks of the
\* apps.)
HandledIsAuthorized ==
    \A r \in Requests : Handled(r) /\ req[r].route \notin ForAnyone =>
        /\ "reads" \in could[r]
        /\ req[r].route \in Changing => "writes" \in could[r]
        /\ req[r].route \in ForAdmins => "admin" \in could[r]
        /\ req[r].route = "is_admin" /\ req[r].answer = "ok" /\ req[r].header # None =>
              "admin" \in could[r]
        /\ req[r].route \in ForOperators => req[r].client \in FirstParty
        /\ req[r].route \in ForApps => req[r].client \in Apps

\* A client that asks for page after page until there are no more has seen every
\* audit of its own that was there when it began, however many are created
\* meanwhile (each of which moves the others to later pages).
WalkMissesNothing ==
    \A r \in Requests :
        req[r].route = "list_audits" /\ req[r].at = "over" /\ req[r].answer = "ok" =>
            {i \in Listed(r) : i <= req[r].begun} \subseteq req[r].shown

\* An app that excluded the header when it created an audit can exclude it when
\* it asks for the audit (openapi.py). (It cannot if it is the first-party app:
\* the audit has no user then, and get_audit raises on it.)
HeaderMayBeExcluded ==
    \A r \in Requests :
        req[r].route = "get_audit" /\ req[r].asked # 0 =>
            LET a == audits[req[r].asked] IN
            req[r].client = a.by /\ req[r].header = None /\ a.header = None
                => req[r].answer = "ok"

=============================================================================
