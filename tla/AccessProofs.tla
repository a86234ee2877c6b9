---------------------------- MODULE AccessProofs ----------------------------
(***************************************************************************)
(* Proofs about Access, for any clients, requests, stored audits and page  *)
(* size: type correctness, that a handler runs for an authorized request   *)
(* only, that whoever is charged for an audit was looked at before, that a *)
(* client sees what is its own and is not denied it, and that the walk     *)
(* through the list misses nothing. The lemmas say what each step does to  *)
(* a request; the invariants are argued from these.                        *)
(***************************************************************************)
EXTENDS Access, Integers, FiniteSetTheorems, SequenceTheorems, TLAPS

(***************************************************************************)
(* The table of routes: what the properties say of a route by its name is  *)
(* what its dependencies require.                                          *)
(***************************************************************************)
AuditNames == {"create_audit", "list_audits", "get_audit", "get_audit_status", "submit_feedback"}

Fits(name, route) ==
    /\ name \in ForAnyone \/ route.key
    /\ route.delegated # "none" => route.header
    /\ name \in AuditNames \cup {"is_admin"} => route.header
    /\ name \in Changing => route.method # "GET"
    /\ name \in ForAdmins => route.delegated # "none"
    /\ name \in ForOperators => route.role = "first_party"
    /\ name \in ForApps => route.role \in {"app", "first_party"}

AllFit(table) == \A name \in DOMAIN table : Fits(name, table[name])

\* What the makers of routes make.
LEMMA Made ==
    /\ \A m, o : /\ Open(m, o).key = TRUE /\ Open(m, o).method = m
                 /\ Open(m, o).role = o
                 /\ Open(m, o).header = TRUE /\ Open(m, o).delegated = "none"
    /\ \A m, o : /\ Undelegated(m, o).key = TRUE /\ Undelegated(m, o).method = m
                 /\ Undelegated(m, o).role = o
                 /\ Undelegated(m, o).header = FALSE /\ Undelegated(m, o).delegated = "none"
    /\ \A m : /\ Admin(m).key = TRUE /\ Admin(m).method = m
                 /\ Admin(m).role = "first_party"
                 /\ Admin(m).header = TRUE /\ Admin(m).delegated = "admin"
    /\ \A m, o : /\ Paid(Open(m, o)).key = TRUE /\ Paid(Open(m, o)).method = m
                 /\ Paid(Open(m, o)).role = o
                 /\ Paid(Open(m, o)).header = TRUE /\ Paid(Open(m, o)).delegated = "none"
    /\ \A m, o : /\ Paid(Undelegated(m, o)).key = TRUE /\ Paid(Undelegated(m, o)).method = m
                 /\ Paid(Undelegated(m, o)).role = o
                 /\ Paid(Undelegated(m, o)).header = FALSE /\ Paid(Undelegated(m, o)).delegated = "none"
    /\ Public.key = FALSE /\ Public.method = "GET" /\ Public.role = "user"
    /\ Public.header = FALSE /\ Public.delegated = "none"
<1>1. \A m, o : /\ Open(m, o).key = TRUE /\ Open(m, o).method = m
                 /\ Open(m, o).role = o
                 /\ Open(m, o).header = TRUE /\ Open(m, o).delegated = "none"
  BY DEF Open
<1>2. \A m, o : /\ Undelegated(m, o).key = TRUE /\ Undelegated(m, o).method = m
                 /\ Undelegated(m, o).role = o
                 /\ Undelegated(m, o).header = FALSE /\ Undelegated(m, o).delegated = "none"
  BY Zenon DEF Open, Undelegated
<1>3. \A m : /\ Admin(m).key = TRUE /\ Admin(m).method = m
                 /\ Admin(m).role = "first_party"
                 /\ Admin(m).header = TRUE /\ Admin(m).delegated = "admin"
  BY Zenon DEF Open, Admin
<1>4. \A m, o : /\ Paid(Open(m, o)).key = TRUE /\ Paid(Open(m, o)).method = m
                 /\ Paid(Open(m, o)).role = o
                 /\ Paid(Open(m, o)).header = TRUE /\ Paid(Open(m, o)).delegated = "none"
  BY Zenon DEF Open, Paid
<1>5. \A m, o : /\ Paid(Undelegated(m, o)).key = TRUE /\ Paid(Undelegated(m, o)).method = m
                 /\ Paid(Undelegated(m, o)).role = o
                 /\ Paid(Undelegated(m, o)).header = FALSE /\ Paid(Undelegated(m, o)).delegated = "none"
  BY Zenon DEF Open, Undelegated, Paid
<1>6. /\ Public.key = FALSE /\ Public.method = "GET" /\ Public.role = "user"
      /\ Public.header = FALSE /\ Public.delegated = "none"
  BY Zenon DEF Open, Public
<1> QED
  BY <1>1, <1>2, <1>3, <1>4, <1>5, <1>6

\* Every route requires what its name stands for.
LEMMA RoutesFit == AllFit(Routes)
<1> USE Made DEF AllFit, Fits, AuditNames, Changing, ForAdmins, ForOperators, ForApps,
                ForAnyone, AdminRoutes
<1>1. AllFit(AuditRoutes)
  BY DEF AuditRoutes
<1>2. AllFit(AdminRoutes)
  OBVIOUS
<1>3. AllFit(ContractRoutes)
  BY DEF ContractRoutes
<1>4. AllFit(AppRoutes)
  BY DEF AppRoutes
<1>5. AllFit(UserRoutes)
  BY DEF UserRoutes
<1>6. AllFit(AuthRoutes)
  BY DEF AuthRoutes
<1>7. AllFit(PlatformRoutes)
  BY DEF PlatformRoutes
<1>8. AllFit(BlockchainRoutes)
  BY DEF BlockchainRoutes
<1>9. AllFit(BaseRoutes)
  BY DEF BaseRoutes
<1> HIDE Made DEF Fits, AuditNames, Changing, ForAdmins, ForOperators, ForApps, ForAnyone,
                  AdminRoutes
<1>10. \A table \in Tables : AllFit(table)
  BY <1>1, <1>2, <1>3, <1>4, <1>5, <1>6, <1>7, <1>8, <1>9 DEF Tables
<1> QED
  BY <1>10 DEF Routes

(***************************************************************************)
(* The AuthState of a client.                                              *)
(***************************************************************************)
LEMMA StateIs ==
    ASSUME NEW c \in Clients, NEW h
    PROVE  /\ c \in Users => StateOf(c, h) =
                [role |-> "user", consumes |-> c \notin Free, payer |-> c, user |-> c, app |-> None]
           /\ c \in FirstParty => StateOf(c, h) =
                [role |-> "first_party", consumes |-> FALSE, payer |-> None, user |-> h, app |-> c]
           /\ c \in Apps \ FirstParty => StateOf(c, h) =
                [role |-> "app", consumes |-> c \notin Free, payer |-> Owner[c],
                 user |-> IF h = None THEN Owner[c] ELSE h, app |-> c]
<1>1. \/ c \in Users /\ c \notin FirstParty /\ c \notin Apps \ FirstParty
      \/ c \notin Users /\ c \in FirstParty /\ c \notin Apps \ FirstParty
      \/ c \notin Users /\ c \notin FirstParty /\ c \in Apps \ FirstParty
  BY PartiesAssumption DEF Clients
<1>2. c \in Users => StateOf(c, h) =
          [role |-> "user", consumes |-> c \notin Free, payer |-> c, user |-> c, app |-> None]
  BY <1>1, Zenon DEF StateOf
<1>3. c \in FirstParty => StateOf(c, h) =
          [role |-> "first_party", consumes |-> FALSE, payer |-> None, user |-> h, app |-> c]
  BY <1>1, Zenon DEF StateOf
<1>4. c \in Apps \ FirstParty => StateOf(c, h) =
          [role |-> "app", consumes |-> c \notin Free, payer |-> Owner[c],
           user |-> IF h = None THEN Owner[c] ELSE h, app |-> c]
  BY <1>1, Zenon DEF StateOf
<1> QED
  BY <1>2, <1>3, <1>4

\* It is one.
LEMMA StateType ==
    ASSUME NEW c \in Clients, NEW h \in Users \cup {None}
    PROVE  StateOf(c, h) \in State
<1>1. CASE c \in Users
  <2>1. [role |-> "user", consumes |-> c \notin Free, payer |-> c, user |-> c, app |-> None] \in State
    BY <1>1 DEF State
  <2> QED
    BY <1>1, <2>1, StateIs
<1>2. CASE c \in FirstParty
  <2>1. [role |-> "first_party", consumes |-> FALSE, payer |-> None, user |-> h, app |-> c] \in State
    BY <1>2, PartiesAssumption DEF State
  <2> QED
    BY <1>2, <2>1, StateIs
<1>3. CASE c \in Apps \ FirstParty
  <2>1. Owner[c] \in Users
    BY <1>3, PartiesAssumption
  <2>2. [role |-> "app", consumes |-> c \notin Free, payer |-> Owner[c],
         user |-> IF h = None THEN Owner[c] ELSE h, app |-> c] \in State
    BY <1>3, <2>1 DEF State
  <2> QED
    BY <1>3, <2>2, StateIs
<1> QED
  BY <1>1, <1>2, <1>3 DEF Clients
(***************************************************************************)
(* What a step does to a request: who sent it, and for what, stays.        *)
(***************************************************************************)
Verdicts == {"none", "ok", "no", "missing", "refused", "error", "payment", "unauthorized"}
Request == [at : {"none", "authenticate", "delegate", "credits", "handle", "page", "over"},
            route : DOMAIN Routes \cup {"none"}, client : Clients \cup {None}, key : Int,
            header : Headers \cup {None}, query : Users \cup {None}, state : State,
            page : Nat, begun : Nat, asked : Nat, shown : SUBSET Nat, answer : Verdicts]
Audit == [user : Users \cup {None}, app : Apps \cup {None}, by : Clients,
          header : Headers \cup {None}, checked : Users \cup {None}]

RouteOf(r) == Routes[req[r].route]

TypeInv ==
    /\ auth \in [Clients -> AuthRow] /\ held \in [Clients -> AuthRow]
    /\ audits \in Seq(Audit)
    /\ req \in [Requests -> Request]
    /\ could \in [Requests -> SUBSET {"reads", "writes", "admin"}]
    /\ \A r \in Requests :
        /\ req[r].asked \in Ids \cup {0} /\ req[r].shown \subseteq Ids
        /\ req[r].at # "none" => /\ req[r].route \in DOMAIN Routes
                                 /\ RouteOf(r).key => req[r].client \in Clients
        /\ InFlight(r) => RouteOf(r).key

Same(q, p) == /\ q.route = p.route /\ q.client = p.client /\ q.key = p.key
              /\ q.header = p.header /\ q.query = p.query /\ q.begun = p.begun

Touches(r) ==
    /\ \A s \in Requests \ {r} : req'[s] = req[s]
    /\ Same(req'[r], req[r])

\* A request that is over.
LEMMA Answered ==
    ASSUME TypeInv, NEW r \in Requests, NEW a \in Verdicts, req' = Answer(r, a)
    PROVE  /\ req' \in [Requests -> Request] /\ Touches(r)
           /\ req'[r].at = "over" /\ req'[r].answer = a
           /\ req'[r].state = req[r].state /\ req'[r].page = req[r].page
           /\ req'[r].asked = req[r].asked /\ req'[r].shown = req[r].shown
<1> DEFINE q == [req[r] EXCEPT !.at = "over", !.answer = a]
<1>1. req \in [Requests -> Request] /\ req[r] \in Request
  BY DEF TypeInv
<1>2. req' = [req EXCEPT ![r] = q]
  BY Zenon, <1>1 DEF Answer
<1>3. q \in Request
  BY <1>1 DEF Request, Verdicts
<1>4. /\ q.at = "over" /\ q.answer = a
      /\ q.route = req[r].route /\ q.client = req[r].client /\ q.key = req[r].key
      /\ q.header = req[r].header /\ q.query = req[r].query /\ q.begun = req[r].begun
      /\ q.state = req[r].state /\ q.page = req[r].page
      /\ q.asked = req[r].asked /\ q.shown = req[r].shown
  BY <1>1 DEF Request
<1> HIDE DEF q
<1> QED
  BY <1>1, <1>2, <1>3, <1>4 DEF Touches, Same

\* And one about an audit.
LEMMA AnsweredAbout ==
    ASSUME TypeInv, NEW r \in Requests, NEW i \in Ids, NEW a \in Verdicts, req' = About(r, i, a)
    PROVE  /\ req' \in [Requests -> Request] /\ Touches(r)
           /\ req'[r].at = "over" /\ req'[r].answer = a
           /\ req'[r].state = req[r].state /\ req'[r].page = req[r].page
           /\ req'[r].asked = i /\ req'[r].shown = req[r].shown
<1>0. i \in Nat
  BY DEF Ids, TypeInv
<1> DEFINE q == [req[r] EXCEPT !.at = "over", !.answer = a, !.asked = i]
<1>1. req \in [Requests -> Request] /\ req[r] \in Request
  BY DEF TypeInv
<1>2. req' = [req EXCEPT ![r] = q]
  BY Zenon, <1>1 DEF About
<1>3. q \in Request
  BY <1>0, <1>1 DEF Request, Verdicts
<1>4. /\ q.at = "over" /\ q.answer = a /\ q.asked = i
      /\ q.route = req[r].route /\ q.client = req[r].client /\ q.key = req[r].key
      /\ q.header = req[r].header /\ q.query = req[r].query /\ q.begun = req[r].begun
      /\ q.state = req[r].state /\ q.page = req[r].page /\ q.shown = req[r].shown
  BY <1>1 DEF Request
<1> HIDE DEF q
<1> QED
  BY <1>1, <1>2, <1>3, <1>4 DEF Touches, Same

\* And the last page of a list.
LEMMA Shown ==
    ASSUME TypeInv, NEW r \in Requests, NEW S \in SUBSET Ids, req' = Show(r, S)
    PROVE  /\ req' \in [Requests -> Request] /\ Touches(r)
           /\ req'[r].at = "over" /\ req'[r].answer = "ok"
           /\ req'[r].state = req[r].state /\ req'[r].page = req[r].page
           /\ req'[r].asked = req[r].asked /\ req'[r].shown = req[r].shown \cup S
<1>0. S \in SUBSET Nat
  BY DEF Ids, TypeInv
<1> DEFINE q == [req[r] EXCEPT !.at = "over", !.answer = "ok", !.shown = @ \cup S]
<1>1. req \in [Requests -> Request] /\ req[r] \in Request
  BY DEF TypeInv
<1>2. req' = [req EXCEPT ![r] = q]
  BY Zenon, <1>1 DEF Show
<1>3. q \in Request
  BY <1>0, <1>1 DEF Request, Verdicts
<1>4. /\ q.at = "over" /\ q.answer = "ok" /\ q.shown = req[r].shown \cup S
      /\ q.route = req[r].route /\ q.client = req[r].client /\ q.key = req[r].key
      /\ q.header = req[r].header /\ q.query = req[r].query /\ q.begun = req[r].begun
      /\ q.state = req[r].state /\ q.page = req[r].page /\ q.asked = req[r].asked
  BY <1>1 DEF Request
<1> HIDE DEF q
<1> QED
  BY <1>1, <1>2, <1>3, <1>4 DEF Touches, Same

\* The next page is asked for.
LEMMA Continued ==
    ASSUME TypeInv, NEW r \in Requests, NEW S \in SUBSET Ids, req' = Continue(r, S)
    PROVE  /\ req' \in [Requests -> Request] /\ Touches(r)
           /\ req'[r].at = "authenticate" /\ req'[r].answer = req[r].answer
           /\ req'[r].state = req[r].state /\ req'[r].page = req[r].page + 1
           /\ req'[r].asked = req[r].asked /\ req'[r].shown = req[r].shown \cup S
<1>0. S \in SUBSET Nat
  BY DEF Ids, TypeInv
<1> DEFINE q == [req[r] EXCEPT !.at = "authenticate", !.page = @ + 1, !.shown = @ \cup S]
<1>1. req \in [Requests -> Request] /\ req[r] \in Request
  BY DEF TypeInv
<1>2. req' = [req EXCEPT ![r] = q]
  BY Zenon, <1>1 DEF Continue
<1>3. q \in Request
  <2>0. req[r].page \in Nat /\ req[r].shown \in SUBSET Nat
    BY Zenon, <1>1 DEF Request
  <2>1. req[r].page + 1 \in Nat
    BY <2>0
  <2>2. req[r].shown \cup S \in SUBSET Nat
    BY <1>0, <2>0
  <2> QED
    BY Zenon, <1>1, <2>1, <2>2 DEF Request, Verdicts
<1>4. /\ q.at = "authenticate" /\ q.page = req[r].page + 1 /\ q.shown = req[r].shown \cup S
      /\ q.route = req[r].route /\ q.client = req[r].client /\ q.key = req[r].key
      /\ q.header = req[r].header /\ q.query = req[r].query /\ q.begun = req[r].begun
      /\ q.state = req[r].state /\ q.answer = req[r].answer /\ q.asked = req[r].asked
  BY <1>1 DEF Request
<1> HIDE DEF q
<1> QED
  BY <1>1, <1>2, <1>3, <1>4 DEF Touches, Same

Stops == {"delegate", "credits", "handle", "page"}

\* A request goes on to the next dependency, or to its handler.
LEMMA Moved ==
    ASSUME TypeInv, NEW r \in Requests, NEW a \in Stops, req' = [req EXCEPT ![r].at = a]
    PROVE  /\ req' \in [Requests -> Request] /\ Touches(r)
           /\ req'[r].at = a /\ req'[r].answer = req[r].answer
           /\ req'[r].state = req[r].state /\ req'[r].page = req[r].page
           /\ req'[r].asked = req[r].asked /\ req'[r].shown = req[r].shown
<1>1. req \in [Requests -> Request]
  BY DEF TypeInv
<1> QED
  BY <1>1 DEF Request, Touches, Same, Stops

\* A request is authenticated.
LEMMA Entered ==
    ASSUME TypeInv, NEW r \in Requests, NEW a \in Stops, NEW st \in State,
           req' = [req EXCEPT ![r].at = a, ![r].state = st]
    PROVE  /\ req' \in [Requests -> Request] /\ Touches(r)
           /\ req'[r].at = a /\ req'[r].answer = req[r].answer
           /\ req'[r].state = st /\ req'[r].page = req[r].page
           /\ req'[r].asked = req[r].asked /\ req'[r].shown = req[r].shown
<1> DEFINE q == [req[r] EXCEPT !.at = a, !.state = st]
<1>1. req \in [Requests -> Request] /\ req[r] \in Request
  BY DEF TypeInv
<1>2. req' = [req EXCEPT ![r] = q]
  BY Zenon, <1>1
<1>3. q \in Request
  BY <1>1 DEF Request, Stops
<1>4. /\ q.at = a /\ q.answer = req[r].answer
      /\ q.route = req[r].route /\ q.client = req[r].client /\ q.key = req[r].key
      /\ q.header = req[r].header /\ q.query = req[r].query /\ q.begun = req[r].begun
      /\ q.state = st /\ q.page = req[r].page
      /\ q.asked = req[r].asked /\ q.shown = req[r].shown
  BY <1>1 DEF Request
<1> HIDE DEF q
<1> QED
  BY <1>1, <1>2, <1>3, <1>4 DEF Touches, Same

\* A request is received.
LEMMA Received ==
    ASSUME TypeInv, NEW r \in Requests, NEW c \in Clients, NEW h \in Headers \cup {None},
           NEW q0 \in Users \cup {None}, NEW k \in Int, 
           req' = Sent(r, c, k, h, q0)
    PROVE  /\ req' \in [Requests -> Request]
           /\ \A s \in Requests \ {r} : req'[s] = req[s]
           /\ req'[r].at = "authenticate" /\ req'[r].answer = req[r].answer
           /\ req'[r].client = c /\ req'[r].key = k /\ req'[r].header = h
           /\ req'[r].query = q0 /\ req'[r].begun = Len(audits) /\ req'[r].route = req[r].route
           /\ req'[r].state = req[r].state /\ req'[r].page = req[r].page
           /\ req'[r].asked = req[r].asked /\ req'[r].shown = req[r].shown
<1> DEFINE q == [req[r] EXCEPT !.at = "authenticate", !.client = c, !.key = k,
                                 !.header = h, !.query = q0, !.begun = Len(audits)]
<1>1. req \in [Requests -> Request] /\ req[r] \in Request
  BY DEF TypeInv
<1>0. Len(audits) \in Nat
  BY DEF TypeInv
<1>2. req' = [req EXCEPT ![r] = q]
  BY Zenon, <1>1 DEF Sent
<1>3. q \in Request
  BY <1>0, <1>1 DEF Request, Verdicts
<1>4. /\ q.at = "authenticate" /\ q.client = c /\ q.key = k /\ q.header = h
      /\ q.query = q0 /\ q.begun = Len(audits) /\ q.route = req[r].route /\ q.answer = req[r].answer
      /\ q.state = req[r].state /\ q.page = req[r].page
      /\ q.asked = req[r].asked /\ q.shown = req[r].shown
  BY <1>1 DEF Request
<1> HIDE DEF q
<1> QED
  BY <1>1, <1>2, <1>3, <1>4

(***************************************************************************)
(* The steps, by what they do.                                             *)
(***************************************************************************)
Like(q, p) == q.state = p.state /\ q.page = p.page /\ q.asked = p.asked /\ q.shown = p.shown

\* Receive.
LEMMA ReceiveDoes ==
    ASSUME TypeInv, NEW r \in Requests, Receive(r)
    PROVE  /\ req' \in [Requests -> Request] /\ UNCHANGED <<auth, held, audits>>
           /\ \A s \in Requests \ {r} : req'[s] = req[s]
           /\ req[r].at = "none" /\ req'[r].at = "authenticate"
           /\ req'[r].route = req[r].route /\ req[r].route \in DOMAIN Routes /\ RouteOf(r).key
           /\ req'[r].client \in Clients /\ req'[r].begun = Len(audits)
           /\ Like(req'[r], req[r]) /\ req'[r].answer = req[r].answer
           /\ could' = [could EXCEPT ![r] = Facts(r, req'[r], auth)]
<1>1. PICK c \in Clients, h \in Headers \cup {None}, q \in Users \cup {None} :
           \E k \in {auth[c].key, auth[c].key - 1} \ {0} : req' = Sent(r, c, k, h, q)
  BY DEF Receive
<1>2. PICK k \in {auth[c].key, auth[c].key - 1} \ {0} : req' = Sent(r, c, k, h, q)
  BY <1>1
<1>3. k \in Int
  <2>1. auth[c].key \in Nat
    BY DEF TypeInv, AuthRow
  <2> QED
    BY <2>1
<1>4. req[r].route \in DOMAIN Routes /\ RouteOf(r).key
  BY DEF TypeInv, Request, Receive, RouteOf
<1>5. req[r].at = "none" /\ UNCHANGED <<auth, held, audits>>
      /\ could' = [could EXCEPT ![r] = Facts(r, req'[r], auth)]
  BY DEF Receive
<1>6. /\ req' \in [Requests -> Request]
      /\ \A s \in Requests \ {r} : req'[s] = req[s]
      /\ req'[r].at = "authenticate" /\ req'[r].answer = req[r].answer
      /\ req'[r].client = c /\ req'[r].begun = Len(audits) /\ req'[r].route = req[r].route
      /\ req'[r].state = req[r].state /\ req'[r].page = req[r].page
      /\ req'[r].asked = req[r].asked /\ req'[r].shown = req[r].shown
  BY <1>2, <1>3, Received
<1> QED
  BY <1>4, <1>5, <1>6 DEF Like

\* Visit.
LEMMA VisitDoes ==
    ASSUME TypeInv, NEW r \in Requests, Visit(r)
    PROVE  /\ req' \in [Requests -> Request] /\ UNCHANGED <<auth, held, audits, could>> /\ Touches(r)
           /\ req[r].at = "none" /\ req'[r].at = "over" /\ req'[r].answer = "ok"
           /\ req[r].route \in DOMAIN Routes /\ ~RouteOf(r).key /\ Like(req'[r], req[r])
<1>1. /\ req[r].at = "none" /\ req' = Answer(r, "ok") /\ UNCHANGED <<auth, held, audits, could>>
      /\ req[r].route \in DOMAIN Routes /\ ~RouteOf(r).key
  BY DEF Visit, TypeInv, Request, RouteOf
<1> QED
  BY <1>1, Answered DEF Verdicts, Like

\* Authenticate and AuthenticateKey.
LEMMA AuthenticateDoes ==
    ASSUME TypeInv, NEW r \in Requests, Authenticate(r) \/ AuthenticateKey(r)
    PROVE  /\ req' \in [Requests -> Request] /\ UNCHANGED <<auth, held, audits, could>> /\ Touches(r)
           /\ req[r].at = "authenticate"
           /\ req'[r].page = req[r].page /\ req'[r].asked = req[r].asked
           /\ req'[r].shown = req[r].shown
           /\ \/ req'[r].at = "over" /\ req'[r].answer = "unauthorized"
              \/ /\ AdmitsKey(r)
                 /\ Routes[req[r].route].header => req[r].header \in Users \cup {None}
                 /\ req'[r].at = AfterAuthentication(r) /\ req'[r].answer = req[r].answer
                 /\ req'[r].state = StateOf(req[r].client,
                        IF Routes[req[r].route].header THEN req[r].header ELSE None)
<1>0. AfterAuthentication(r) \in Stops
  BY DEF AfterAuthentication, AfterDelegation, Stops
<1>c. req[r].at = "authenticate" => req[r].client \in Clients
  BY DEF TypeInv, InFlight
<1>1. CASE req' = Answer(r, "unauthorized")
  <2>1. UNCHANGED <<auth, held, audits, could>> /\ req[r].at = "authenticate"
    BY DEF Authenticate, AuthenticateKey
  <2> QED
    BY <1>1, <2>1, Answered DEF Verdicts
<1>2. CASE Authenticate(r) /\ Admits(r)
  <2>1. /\ Routes[req[r].route].header /\ req[r].header \in Users \cup {None} /\ AdmitsKey(r)
        /\ req[r].at = "authenticate" /\ UNCHANGED <<auth, held, audits, could>>
        /\ req' = [req EXCEPT ![r].at = AfterAuthentication(r),
                              ![r].state = StateOf(req[r].client, req[r].header)]
    BY Zenon, <1>2 DEF Authenticate, Admits
  <2>2. StateOf(req[r].client, req[r].header) \in State
    BY <1>c, <2>1, StateType
  <2>3. /\ req' \in [Requests -> Request] /\ Touches(r)
        /\ req'[r].at = AfterAuthentication(r) /\ req'[r].answer = req[r].answer
        /\ req'[r].state = StateOf(req[r].client, req[r].header) /\ req'[r].page = req[r].page
        /\ req'[r].asked = req[r].asked /\ req'[r].shown = req[r].shown
    BY Zenon, <1>0, <2>1, <2>2, Entered
  <2> QED
    BY Zenon, <2>1, <2>3
<1>3. CASE AuthenticateKey(r) /\ AdmitsKey(r)
  <2>1. /\ ~Routes[req[r].route].header
        /\ req[r].at = "authenticate" /\ UNCHANGED <<auth, held, audits, could>>
        /\ req' = [req EXCEPT ![r].at = AfterAuthentication(r),
                              ![r].state = StateOf(req[r].client, None)]
    BY Zenon, <1>3 DEF AuthenticateKey
  <2>2. StateOf(req[r].client, None) \in State
    BY <1>c, <2>1, StateType
  <2>3. /\ req' \in [Requests -> Request] /\ Touches(r)
        /\ req'[r].at = AfterAuthentication(r) /\ req'[r].answer = req[r].answer
        /\ req'[r].state = StateOf(req[r].client, None) /\ req'[r].page = req[r].page
        /\ req'[r].asked = req[r].asked /\ req'[r].shown = req[r].shown
    BY Zenon, <1>0, <2>1, <2>2, Entered
  <2> QED
    BY Zenon, <1>3, <2>1, <2>3
<1> QED
  BY Zenon, <1>1, <1>2, <1>3 DEF Authenticate, AuthenticateKey

\* Delegate.
LEMMA DelegateDoes ==
    ASSUME TypeInv, NEW r \in Requests, Delegate(r)
    PROVE  /\ req' \in [Requests -> Request] /\ UNCHANGED <<auth, held, audits, could>> /\ Touches(r)
           /\ req[r].at = "delegate" /\ Like(req'[r], req[r])
           /\ \/ req'[r].at = "over" /\ req'[r].answer = "unauthorized"
              \/ /\ req[r].header # None /\ auth[req[r].header].key # 0
                 /\ auth[req[r].header].scope = "admin"
                 /\ req'[r].at = AfterDelegation(r) /\ req'[r].answer = req[r].answer
<1>0. AfterDelegation(r) \in Stops
  BY DEF AfterDelegation, Stops
<1>1. UNCHANGED <<auth, held, audits, could>> /\ req[r].at = "delegate"
  BY DEF Delegate
<1>2. CASE req' = Answer(r, "unauthorized")
  BY <1>1, <1>2, Answered DEF Verdicts, Like
<1>3. CASE /\ req[r].header # None /\ auth[req[r].header].key # 0
           /\ auth[req[r].header].scope = "admin"
           /\ req' = [req EXCEPT ![r].at = AfterDelegation(r)]
  BY <1>0, <1>1, <1>3, Moved DEF Like
<1> QED
  BY Zenon, <1>2, <1>3 DEF Delegate

\* RequireCredits.
LEMMA CreditsDo ==
    ASSUME TypeInv, NEW r \in Requests, RequireCredits(r)
    PROVE  /\ req' \in [Requests -> Request] /\ UNCHANGED <<auth, held, audits, could>> /\ Touches(r)
           /\ req[r].at = "credits" /\ Like(req'[r], req[r])
           /\ \/ req'[r].at = "over" /\ req'[r].answer = "payment"
              \/ req'[r].at = "handle" /\ req'[r].answer = req[r].answer
<1>1. UNCHANGED <<auth, held, audits, could>> /\ req[r].at = "credits"
  BY DEF RequireCredits
<1>2. CASE req' = Answer(r, "payment")
  BY <1>1, <1>2, Answered DEF Verdicts, Like
<1>3. CASE req' = [req EXCEPT ![r].at = "handle"]
  BY <1>1, <1>3, Moved DEF Like, Stops
<1> QED
  BY Zenon, <1>2, <1>3 DEF RequireCredits

NewAudit(r) == [user |-> req[r].state.user, app |-> req[r].state.app, by |-> req[r].client,
                header |-> req[r].header,
                checked |-> IF req[r].state.consumes THEN req[r].state.payer ELSE None]

\* CreateAudit.
LEMMA CreateDoes ==
    ASSUME TypeInv, NEW r \in Requests, CreateAudit(r)
    PROVE  /\ req' \in [Requests -> Request] /\ UNCHANGED <<auth, held, could>> /\ Touches(r)
           /\ req[r].at = "handle" /\ req[r].route = "create_audit"
           /\ Like(req'[r], req[r]) /\ req'[r].at = "over"
           /\ \/ audits' = Append(audits, NewAudit(r)) /\ req'[r].answer = "ok"
              \/ audits' = audits /\ req'[r].answer = "missing"
<1>1. req[r].at = "handle" /\ req[r].route = "create_audit" /\ UNCHANGED <<auth, held, could>>
  BY DEF CreateAudit, Handles
<1>2. \/ audits' = Append(audits, NewAudit(r)) /\ req' = Answer(r, "ok")
      \/ audits' = audits /\ req' = Answer(r, "missing")
  BY DEF CreateAudit, NewAudit
<1> QED
  BY <1>1, <1>2, Answered DEF Verdicts, Like

Denied(r, i) == IF req[r].route = "submit_feedback" THEN ~MayAttest(req[r].state, i)
                                                   ELSE ~Sees(req[r].state, i)

\* GetAudit, GetStatus and SubmitFeedback.
LEMMA AskDoes ==
    ASSUME TypeInv, NEW r \in Requests, GetAudit(r) \/ GetStatus(r) \/ SubmitFeedback(r)
    PROVE  /\ req' \in [Requests -> Request] /\ UNCHANGED <<auth, held, audits, could>> /\ Touches(r)
           /\ req[r].at = "handle"
           /\ req[r].route \in {"get_audit", "get_audit_status", "submit_feedback"}
           /\ req'[r].at = "over" /\ req'[r].state = req[r].state
           /\ req'[r].page = req[r].page /\ req'[r].shown = req[r].shown
           /\ req'[r].answer \in {"ok", "error", "missing", "refused"}
           /\ req'[r].asked \in Ids
           /\ req'[r].answer \in {"missing", "refused"} <=> Denied(r, req'[r].asked)
<1>1. /\ req[r].at = "handle" /\ UNCHANGED <<auth, held, audits, could>>
      /\ req[r].route \in {"get_audit", "get_audit_status", "submit_feedback"}
  BY DEF GetAudit, GetStatus, SubmitFeedback, Handles
<1>2. PICK i \in Ids, a \in {"ok", "error", "missing", "refused"} :
        req' = About(r, i, a) /\ (a \in {"missing", "refused"} <=> Denied(r, i))
  <2>1. CASE GetAudit(r)
    BY <2>1 DEF GetAudit, Handles, Denied
  <2>2. CASE GetStatus(r)
    BY <2>2 DEF GetStatus, Handles, Denied
  <2>3. CASE SubmitFeedback(r)
    BY <2>3 DEF SubmitFeedback, Handles, Denied
  <2> QED
    BY <2>1, <2>2, <2>3
<1> QED
  BY <1>1, <1>2, AnsweredAbout DEF Verdicts

\* IsAdmin and Elsewhere.
LEMMA PlainDoes ==
    ASSUME TypeInv, NEW r \in Requests, IsAdmin(r) \/ Elsewhere(r)
    PROVE  /\ req' \in [Requests -> Request] /\ UNCHANGED <<auth, held, audits, could>> /\ Touches(r)
           /\ req[r].at = "handle" /\ req[r].route \notin AuditNames
           /\ Like(req'[r], req[r]) /\ req'[r].at = "over" /\ req'[r].answer \in {"ok", "no", "error"}
           /\ req[r].route = "is_admin" /\ req'[r].answer = "ok" /\ req[r].state.user # None =>
                auth[req[r].state.user].key # 0 /\ auth[req[r].state.user].scope = "admin"
<1>1. CASE IsAdmin(r)
  <2>1. /\ req[r].at = "handle" /\ req[r].route = "is_admin"
        /\ UNCHANGED <<auth, held, audits, could>>
    BY <1>1 DEF IsAdmin, Handles
  <2>2. PICK a \in {"ok", "no", "error"} :
          /\ req' = Answer(r, a)
          /\ a = "ok" => \E c \in RowsOf(req[r].state.user) : auth[c].scope = "admin"
    BY <1>1 DEF IsAdmin
  <2>3. req[r].state.user # None =>
            \A c \in RowsOf(req[r].state.user) : c = req[r].state.user /\ auth[c].key # 0
    BY DEF RowsOf
  <2> QED
    BY <2>1, <2>2, <2>3, Answered DEF Verdicts, Like, AuditNames
<1>2. CASE Elsewhere(r)
  <2>1. /\ req[r].at = "handle" /\ UNCHANGED <<auth, held, audits, could>>
        /\ req' = Answer(r, "ok") /\ req[r].route \notin {"is_admin"} \cup AuditNames
    BY <1>2 DEF Elsewhere, AuditRoutes, AuditNames
  <2> QED
    BY <2>1, Answered DEF Verdicts, Like
<1> QED
  BY <1>1, <1>2

\* Count.
LEMMA CountDoes ==
    ASSUME TypeInv, NEW r \in Requests, Count(r)
    PROVE  /\ req' \in [Requests -> Request] /\ UNCHANGED <<auth, held, audits, could>> /\ Touches(r)
           /\ req[r].at = "handle" /\ req[r].route = "list_audits" /\ Like(req'[r], req[r])
           /\ \/ /\ Cardinality(Listed(r)) <= Offset(r)
                 /\ req'[r].at = "over" /\ req'[r].answer = "ok"
              \/ req'[r].at = "page" /\ req'[r].answer = req[r].answer
<1>1. /\ req[r].at = "handle" /\ req[r].route = "list_audits" /\ UNCHANGED <<auth, held, audits, could>>
  BY DEF Count, Handles
<1>2. CASE Cardinality(Listed(r)) <= Offset(r) /\ req' = Show(r, {})
  <2>1. {} \in SUBSET Ids /\ req[r].shown \cup {} = req[r].shown
    OBVIOUS
  <2> QED
    BY <1>1, <1>2, <2>1, Shown DEF Like
<1>3. CASE req' = [req EXCEPT ![r].at = "page"]
  BY <1>1, <1>3, Moved DEF Like, Stops
<1> QED
  BY Zenon, <1>2, <1>3 DEF Count

Page(r) == Window(Listed(r), Offset(r), PageSize)
Fetched(r) == Window(Listed(r), Offset(r), PageSize + 1)

\* ReadPage.
LEMMA PageDoes ==
    ASSUME TypeInv, NEW r \in Requests, ReadPage(r)
    PROVE  /\ req' \in [Requests -> Request] /\ UNCHANGED <<auth, held, audits, could>> /\ Touches(r)
           /\ req[r].at = "page"
           /\ req'[r].state = req[r].state /\ req'[r].asked = req[r].asked
           /\ \/ /\ req'[r].at = "over" /\ req'[r].answer = "error"
                 /\ req'[r].page = req[r].page /\ req'[r].shown = req[r].shown
              \/ /\ req'[r].at = "over" /\ req'[r].answer = "ok" /\ req'[r].page = req[r].page
                 /\ req'[r].shown = req[r].shown \cup Page(r)
                 /\ ~(Cardinality(Fetched(r)) > PageSize)
              \/ /\ req'[r].at = "authenticate" /\ req'[r].answer = req[r].answer
                 /\ req'[r].page = req[r].page + 1
                 /\ req'[r].shown = req[r].shown \cup Page(r)
<1>1. req[r].at = "page" /\ UNCHANGED <<auth, held, audits, could>>
  BY DEF ReadPage
<1>2. Page(r) \in SUBSET Ids
  BY DEF Page, Window, Listed
<1>3. CASE req' = Answer(r, "error")
  BY <1>1, <1>3, Answered DEF Verdicts
<1>4. CASE Cardinality(Fetched(r)) > PageSize /\ req' = Continue(r, Page(r))
  BY <1>1, <1>2, <1>4, Continued
<1>5. CASE ~(Cardinality(Fetched(r)) > PageSize) /\ req' = Show(r, Page(r))
  BY <1>1, <1>2, <1>5, Shown
<1> QED
  BY Zenon, <1>3, <1>4, <1>5 DEF ReadPage, Page, Fetched

Changes(c) == ReadRow(c) \/ ReplaceKey(c) \/ Revoke(c) \/ SetScope(c)

\* ReadRow, ReplaceKey, Revoke and SetScope.
LEMMA ChangeDoes ==
    ASSUME TypeInv, NEW c \in Clients, Changes(c)
    PROVE  /\ auth' \in [Clients -> AuthRow] /\ held' \in [Clients -> AuthRow]
           /\ UNCHANGED <<audits, req>> /\ (Note(auth') \/ UNCHANGED <<auth, could>>)
<1>1. /\ auth \in [Clients -> AuthRow] /\ held \in [Clients -> AuthRow]
      /\ auth[c] \in AuthRow /\ held[c] \in AuthRow /\ NoRow \in AuthRow
  BY DEF TypeInv, AuthRow, NoRow, Scopes
<1>2. CASE ReadRow(c)
  BY <1>1, <1>2 DEF ReadRow
<1>3. CASE ReplaceKey(c)
  <2>1. [held[c] EXCEPT !.key = auth[c].key + 1] \in AuthRow
    BY <1>1 DEF AuthRow
  <2> QED
    BY <1>1, <1>3, <2>1 DEF ReplaceKey
<1>4. CASE Revoke(c) \/ SetScope(c)
  <2>1. [auth[c] EXCEPT !.revoked = TRUE] \in AuthRow
    BY <1>1 DEF AuthRow
  <2>2. \A scope \in Scopes : [auth[c] EXCEPT !.scope = scope] \in AuthRow
    BY <1>1 DEF AuthRow
  <2>3. PICK new \in AuthRow : SetColumns(c, new)
    BY Zenon, <1>4, <2>1, <2>2 DEF Revoke, SetScope
  <2> QED
    BY <1>1, <2>3 DEF SetColumns
<1> QED
  BY <1>2, <1>3, <1>4 DEF Changes

\* The types are kept by a step that leaves the tables alone.
LEMMA TypeKept ==
    ASSUME TypeInv, NEW r \in Requests, UNCHANGED <<auth, held, audits>>,
           req' \in [Requests -> Request], \A s \in Requests \ {r} : req'[s] = req[s],
           could' \in [Requests -> SUBSET {"reads", "writes", "admin"}],
           req'[r].asked \in Ids \cup {0}, req'[r].shown \subseteq Ids,
           req'[r].route \in DOMAIN Routes,
           RouteOf(r)'.key => req'[r].client \in Clients, InFlight(r)' => RouteOf(r)'.key
    PROVE  TypeInv'
BY DEF TypeInv, Ids, RouteOf, InFlight

\* What may be said for a request is one of three things.
LEMMA FactsType ==
    ASSUME NEW r, NEW q, NEW t
    PROVE  Facts(r, q, t) \in SUBSET {"reads", "writes", "admin"}
BY DEF Facts

\* The table after an audit was created.
LEMMA AuditAdded ==
    ASSUME NEW S, NEW s \in Seq(S), NEW e \in S
    PROVE  /\ Append(s, e) \in Seq(S)
           /\ DOMAIN Append(s, e) = DOMAIN s \cup {Len(s) + 1}
           /\ Len(s) + 1 \notin DOMAIN s
           /\ \A i \in DOMAIN s : Append(s, e)[i] = s[i]
           /\ Append(s, e)[Len(s) + 1] = e
           /\ Len(Append(s, e)) = Len(s) + 1
OBVIOUS

\* An entry of a table is one of its rows.
LEMMA RowOf == ASSUME NEW S, NEW s \in Seq(S), NEW i \in DOMAIN s PROVE s[i] \in S
OBVIOUS

\* The audit that is created is one.
LEMMA NewAuditType ==
    ASSUME TypeInv, NEW r \in Requests, InFlight(r)
    PROVE  NewAudit(r) \in Audit
<1>1. req[r].client \in Clients
  BY DEF TypeInv, InFlight
<1>2. req[r].header \in Headers \cup {None} /\ req[r].state \in State
  BY DEF TypeInv, Request
<1>3. /\ req[r].state.user \in Users \cup {None} /\ req[r].state.payer \in Users \cup {None}
      /\ req[r].state.app \in Apps \cup {None}
  BY <1>2 DEF State
<1> QED
  BY <1>1, <1>2, <1>3 DEF NewAudit, Audit

\* Every step keeps the types.
LEMMA TypeStep == TypeInv /\ [Next]_vars => TypeInv'
<1> SUFFICES ASSUME TypeInv, [Next]_vars PROVE TypeInv'
  OBVIOUS
<1>c. could \in [Requests -> SUBSET {"reads", "writes", "admin"}]
  BY DEF TypeInv
<1>t. \A r \in Requests :
        /\ req[r].asked \in Ids \cup {0} /\ req[r].shown \subseteq Ids
        /\ req[r].at # "none" => /\ req[r].route \in DOMAIN Routes
                                 /\ RouteOf(r).key => req[r].client \in Clients
        /\ InFlight(r) => RouteOf(r).key
  BY DEF TypeInv
<1>k. ASSUME NEW r \in Requests, InFlight(r), UNCHANGED <<auth, held, audits, could>>,
             req' \in [Requests -> Request], Touches(r),
             req'[r].asked \in Ids \cup {0}, req'[r].shown \subseteq Ids
      PROVE  TypeInv'
  <2>1. /\ req[r].route \in DOMAIN Routes /\ RouteOf(r).key /\ req[r].client \in Clients
        /\ req'[r].route = req[r].route /\ req'[r].client = req[r].client
        /\ \A s \in Requests \ {r} : req'[s] = req[s]
    BY <1>t, <1>k DEF InFlight, Touches, Same
  <2>2. RouteOf(r)' = RouteOf(r)
    BY <2>1 DEF RouteOf
  <2> QED
    BY <1>c, <1>k, <2>1, <2>2, TypeKept
<1>1. ASSUME NEW r \in Requests, Receive(r) PROVE TypeInv'
  <2>1. could' \in [Requests -> SUBSET {"reads", "writes", "admin"}]
    BY <1>1, <1>c, ReceiveDoes, FactsType
  <2>2. /\ req' \in [Requests -> Request] /\ UNCHANGED <<auth, held, audits>>
        /\ \A s \in Requests \ {r} : req'[s] = req[s]
        /\ req'[r].route = req[r].route /\ req[r].route \in DOMAIN Routes /\ RouteOf(r).key
        /\ req'[r].client \in Clients /\ Like(req'[r], req[r])
    BY <1>1, ReceiveDoes
  <2>3. RouteOf(r)' = RouteOf(r)
    BY <2>2 DEF RouteOf
  <2> QED
    BY <1>t, <2>1, <2>2, <2>3, TypeKept DEF Like
<1>v. ASSUME NEW r \in Requests, Visit(r) PROVE TypeInv'
  <2>1. /\ req' \in [Requests -> Request] /\ UNCHANGED <<auth, held, audits, could>>
        /\ \A s \in Requests \ {r} : req'[s] = req[s]
        /\ req'[r].route = req[r].route /\ req[r].route \in DOMAIN Routes /\ ~RouteOf(r).key
        /\ req'[r].at = "over" /\ Like(req'[r], req[r])
    BY <1>v, VisitDoes DEF Touches, Same
  <2>2. RouteOf(r)' = RouteOf(r) /\ ~InFlight(r)'
    BY <2>1 DEF RouteOf, InFlight
  <2> QED
    BY <1>c, <1>t, <2>1, <2>2, TypeKept DEF Like
<1>2. ASSUME NEW r \in Requests, Authenticate(r) \/ AuthenticateKey(r) PROVE TypeInv'
  BY <1>2, <1>t, <1>k, AuthenticateDoes DEF InFlight
<1>3. ASSUME NEW r \in Requests, Delegate(r) PROVE TypeInv'
  BY <1>3, <1>t, <1>k, DelegateDoes DEF Like, InFlight
<1>4. ASSUME NEW r \in Requests, RequireCredits(r) PROVE TypeInv'
  BY <1>4, <1>t, <1>k, CreditsDo DEF Like, InFlight
<1>5. ASSUME NEW r \in Requests, CreateAudit(r) PROVE TypeInv'
  <2>1. NewAudit(r) \in Audit
    BY <1>5, CreateDoes, NewAuditType DEF InFlight
  <2>a. audits \in Seq(Audit) /\ (audits' = Append(audits, NewAudit(r)) \/ audits' = audits)
    BY <1>5, CreateDoes DEF TypeInv
  <2>2. audits' \in Seq(Audit) /\ Ids \subseteq Ids'
    BY <2>1, <2>a, AuditAdded DEF Ids
  <2>3. /\ req' \in [Requests -> Request] /\ \A s \in Requests \ {r} : req'[s] = req[s]
        /\ UNCHANGED <<auth, held, could>> /\ req[r].at = "handle"
        /\ req'[r].client = req[r].client /\ req'[r].route = req[r].route
        /\ req'[r].asked = req[r].asked /\ req'[r].shown = req[r].shown
    BY <1>5, CreateDoes DEF Touches, Same, Like
  <2>4. ASSUME NEW s \in Requests
        PROVE  /\ req'[s].asked \in Ids' \cup {0} /\ req'[s].shown \subseteq Ids'
               /\ req'[s].at # "none" => /\ req'[s].route \in DOMAIN Routes
                                         /\ RouteOf(s)'.key => req'[s].client \in Clients
               /\ InFlight(s)' => RouteOf(s)'.key
    BY <1>t, <2>2, <2>3 DEF InFlight, RouteOf
  <2> QED
    BY <2>2, <2>3, <2>4 DEF TypeInv
<1>6. ASSUME NEW r \in Requests, GetAudit(r) \/ GetStatus(r) \/ SubmitFeedback(r) PROVE TypeInv'
  BY <1>6, <1>t, <1>k, AskDoes DEF Like, InFlight
<1>7. ASSUME NEW r \in Requests, IsAdmin(r) \/ Elsewhere(r) PROVE TypeInv'
  BY <1>7, <1>t, <1>k, PlainDoes DEF Like, InFlight
<1>8. ASSUME NEW r \in Requests, Count(r) PROVE TypeInv'
  BY <1>8, <1>t, <1>k, CountDoes DEF Like, InFlight
<1>9. ASSUME NEW r \in Requests, ReadPage(r) PROVE TypeInv'
  <2>1. Page(r) \subseteq Ids
    BY DEF Page, Window, Listed
  <2>2. req'[r].shown \subseteq Ids /\ req'[r].asked \in Ids \cup {0}
    BY <1>9, <1>t, <2>1, PageDoes
  <2> QED
    BY <1>9, <1>k, <2>2, PageDoes DEF InFlight
<1>10. ASSUME NEW c \in Clients, Changes(c) PROVE TypeInv'
  <2>1. /\ auth' \in [Clients -> AuthRow] /\ held' \in [Clients -> AuthRow]
        /\ UNCHANGED <<audits, req>> /\ (Note(auth') \/ UNCHANGED <<auth, could>>)
    BY <1>10, ChangeDoes
  <2>2. could' \in [Requests -> SUBSET {"reads", "writes", "admin"}]
    BY <1>c, <2>1, FactsType DEF Note
  <2> QED
    BY <2>1, <2>2 DEF TypeInv, Ids, RouteOf, InFlight
<1>11. CASE UNCHANGED vars
  BY <1>11 DEF vars, TypeInv, Ids, RouteOf, InFlight
<1> QED
  BY <1>1, <1>v, <1>2, <1>3, <1>4, <1>5, <1>6, <1>7, <1>8, <1>9, <1>10, <1>11 DEF Next, Handle, Changes

\* The types hold at the start.
LEMMA TypeInit == Init => TypeInv
<1> SUFFICES ASSUME Init PROVE TypeInv
  OBVIOUS
<1>1. auth \in [Clients -> AuthRow] /\ held \in [Clients -> AuthRow]
  BY FirstAssumption DEF Init, NoRow, AuthRow, Scopes
<1>2. audits \in Seq(Audit)
  <2>1. ASSUME NEW i \in DOMAIN Stored
        PROVE  audits[i] \in Audit
    <3>0. Stored[i] \in [user : Users, app : Apps \cup {None}]
      BY FirstAssumption, RowOf
    <3>1. Stored[i].user \in Users /\ Stored[i].app \in Apps \cup {None}
      BY <3>0
    <3> QED
      BY <3>1 DEF Init, Audit, Clients, Headers
  <2>2. DOMAIN Stored = 1 .. Len(Stored) /\ Len(Stored) \in Nat
    BY FirstAssumption
  <2>3. audits \in [DOMAIN Stored -> Audit]
    BY <2>1 DEF Init
  <2> QED
    BY <2>2, <2>3, SeqDef
<1>3. PICK t \in Traffic :
        req = [r \in Requests |->
                 [NoRequest EXCEPT !.route = IF r \in DOMAIN t.routes THEN t.routes[r] ELSE "none"]]
  BY DEF Init
<1>4. NoState \in State
  BY DEF NoState, State
<1>5. ASSUME NEW r \in Requests
      PROVE  /\ req[r] \in Request /\ req[r].at = "none"
             /\ req[r].asked = 0 /\ req[r].shown = {}
  <2>1. PICK route \in DOMAIN Routes \cup {"none"} : req[r] = [NoRequest EXCEPT !.route = route]
    BY <1>3, TrafficAssumption
  <2>2. NoRequest \in Request /\ NoRequest.at = "none" /\ NoRequest.asked = 0
        /\ NoRequest.shown = {}
    BY <1>4 DEF NoRequest, Request, Verdicts
  <2> QED
    BY <2>1, <2>2 DEF Request
<1> QED
  BY <1>1, <1>2, <1>3, <1>5 DEF Init, TypeInv, InFlight

(***************************************************************************)
(* Every variable keeps its type.                                          *)
(***************************************************************************)
THEOREM TypeCorrect == Spec => []TypeOK
<1>1. TypeInv => TypeOK
  BY DEF TypeInv, TypeOK, Request, Audit
<1> QED
  BY <1>1, TypeInit, TypeStep, PTL DEF Spec

(***************************************************************************)
(* The way of a request: what was true of its keys is remembered while it  *)
(* is under way, and what its dependencies have decided by then is part    *)
(* of it.                                                                  *)
(***************************************************************************)
Admitted(r) ==
    /\ "reads" \in could[r]
    /\ RouteOf(r).method # "GET" => "writes" \in could[r]
    /\ HasRole(req[r].client, RouteOf(r).role)
    /\ RouteOf(r).header => req[r].header \in Users \cup {None}
    /\ req[r].state = StateOf(req[r].client, IF RouteOf(r).header THEN req[r].header ELSE None)

Vouched(r) == RouteOf(r).delegated # "none" => "admin" \in could[r]

\* The handler of a route that wants a key has run, or runs.
Served(r) == Handled(r) /\ RouteOf(r).key

Way(r) ==
    /\ req[r].at # "over" => req[r].answer = "none" /\ req[r].asked = 0
    /\ InFlight(r) => Facts(r, req[r], auth) \subseteq could[r]
    /\ req[r].at \in {"delegate", "credits"} \/ Served(r) => Admitted(r)
    /\ req[r].at = "credits" \/ Served(r) => Vouched(r)
    /\ req[r].route = "is_admin" /\ req[r].answer = "ok" /\ req[r].header # None =>
          "admin" \in could[r]
    /\ req[r].at = "page" => req[r].route = "list_audits"

WayInv == TypeInv /\ \A r \in Requests : Way(r)

\* What the facts about a request say.
LEMMA FactsSay ==
    ASSUME NEW r, NEW q, NEW t
    PROVE  /\ q.client # None /\ t[q.client].key = q.key /\ ~t[q.client].revoked =>
                /\ "reads" \in Facts(r, q, t)
                /\ t[q.client].scope # "read" => "writes" \in Facts(r, q, t)
           /\ q.header \in Users /\ t[q.header].key # 0 /\ t[q.header].scope = "admin" =>
                "admin" \in Facts(r, q, t)
BY DEF Facts

\* They change with the Auth table only.
LEMMA FactsKept ==
    ASSUME NEW r \in Requests, Touches(r), auth' = auth
    PROVE  Facts(r, req'[r], auth') = Facts(r, req[r], auth)
BY DEF Facts, Touches, Same

\* What was decided about a request stands.
LEMMA DecidedStands ==
    ASSUME NEW r \in Requests, Touches(r), could' = could
    PROVE  /\ Admitted(r) /\ req'[r].state = req[r].state => Admitted(r)'
           /\ Vouched(r) => Vouched(r)'
BY DEF Touches, Same, Admitted, Vouched, RouteOf

\* A step of another request leaves a request where it is.
LEMMA WayElsewhere ==
    ASSUME WayInv, NEW s \in Requests, req'[s] = req[s], auth' = auth, could'[s] = could[s]
    PROVE  Way(s)'
BY DEF WayInv, Way, Admitted, Vouched, RouteOf, Served, Handled, InFlight

\* So a step keeps WayInv if it brings its own request further on its way.
LEMMA WayOn ==
    ASSUME WayInv, TypeInv', NEW r \in Requests, Touches(r), auth' = auth, could' = could,
           InFlight(r), Way(r)'
    PROVE  WayInv'
BY WayElsewhere DEF Touches, WayInv

\* Every step keeps WayInv.
LEMMA WayStep == WayInv /\ [Next]_vars => WayInv'
<1> SUFFICES ASSUME WayInv, [Next]_vars PROVE WayInv'
  OBVIOUS
<1>0. TypeInv /\ TypeInv'
  BY TypeStep DEF WayInv
<1>1. ASSUME NEW r \in Requests, Receive(r) PROVE WayInv'
  <2>1. could'[r] = Facts(r, req'[r], auth) /\ \A s \in Requests \ {r} : could'[s] = could[s]
    BY <1>0, <1>1, ReceiveDoes DEF TypeInv
  <2>2. Way(r)
    BY DEF WayInv
  <2>3. Way(r)'
    BY <1>0, <1>1, <2>1, <2>2, ReceiveDoes DEF Way, Served, Handled, Like
  <2> QED
    BY <1>0, <1>1, <2>1, <2>3, ReceiveDoes, WayElsewhere DEF WayInv
<1>v. ASSUME NEW r \in Requests, Visit(r) PROVE WayInv'
  <2>1. /\ \A s \in Requests \ {r} : req'[s] = req[s]
        /\ req'[r].route = req[r].route /\ req[r].route \in DOMAIN Routes /\ ~RouteOf(r).key
        /\ req'[r].at = "over" /\ UNCHANGED <<auth, could>>
    BY <1>0, <1>v, VisitDoes DEF Touches, Same
  <2>2. req[r].route # "is_admin"
    BY <2>1, RoutesFit DEF AllFit, Fits, RouteOf, ForAnyone
  <2>3. Way(r)'
    BY <2>1, <2>2 DEF Way, Served, InFlight, RouteOf
  <2> QED
    BY <1>0, <2>1, <2>3, WayElsewhere DEF WayInv
<1>2. ASSUME NEW r \in Requests, Authenticate(r) \/ AuthenticateKey(r) PROVE WayInv'
  <2>0. /\ Touches(r) /\ UNCHANGED <<auth, could>> /\ InFlight(r)
        /\ req'[r].answer = "unauthorized" \/ req'[r].answer = "none"
        /\ req'[r].asked = 0 /\ Facts(r, req[r], auth) \subseteq could[r]
    BY <1>0, <1>2, AuthenticateDoes DEF InFlight, WayInv, Way
  <2>1. CASE req'[r].at = "over" /\ req'[r].answer = "unauthorized"
    <3>1. Way(r)'
      BY <2>1 DEF Way, Served, Handled, InFlight
    <3> QED
      BY <1>0, <2>0, <3>1, WayOn
  <2>2. CASE /\ AdmitsKey(r)
             /\ RouteOf(r).header => req[r].header \in Users \cup {None}
             /\ req'[r].at = AfterAuthentication(r) /\ req'[r].answer = req[r].answer
             /\ req'[r].state = StateOf(req[r].client,
                    IF RouteOf(r).header THEN req[r].header ELSE None)
    <3>1. req[r].client \in Clients /\ req[r].client # None
      BY <1>0, <2>0, PartiesAssumption DEF TypeInv, InFlight
    <3>2. /\ "reads" \in could[r]
          /\ RouteOf(r).method # "GET" => "writes" \in could[r]
          /\ HasRole(req[r].client, RouteOf(r).role)
      BY <2>0, <2>2, <3>1, FactsSay DEF AdmitsKey, InScope, RouteOf
    <3>3. Admitted(r)'
      BY <2>0, <2>2, <3>2 DEF Admitted, Touches, Same, RouteOf
    <3>4. Vouched(r)' \/ req'[r].at = "delegate"
      BY <2>0, <2>2 DEF AfterAuthentication, Vouched, RouteOf, Touches, Same
    <3>5. req'[r].at \in {"delegate", "credits", "handle"}
      BY <2>2 DEF AfterAuthentication, AfterDelegation
    <3>6. req'[r].answer = "none"
      BY <1>0, <1>2, <2>2, AuthenticateDoes DEF WayInv, Way
    <3>7. Way(r)'
      BY <2>0, <3>3, <3>4, <3>5, <3>6, FactsKept DEF Way, Served, Handled
    <3> QED
      BY <1>0, <2>0, <3>7, WayOn
  <2> QED
    BY <1>0, <1>2, <2>1, <2>2, AuthenticateDoes DEF RouteOf
<1>r. \A r \in Requests : req[r].at # "none" => Fits(req[r].route, RouteOf(r))
  BY <1>0, RoutesFit DEF TypeInv, AllFit, RouteOf
<1>3. ASSUME NEW r \in Requests, Delegate(r) PROVE WayInv'
  <2>0. /\ Touches(r) /\ UNCHANGED <<auth, could>> /\ InFlight(r) /\ Admitted(r)
        /\ req'[r].asked = 0 /\ Facts(r, req[r], auth) \subseteq could[r]
        /\ req'[r].state = req[r].state /\ req[r].answer = "none"
    BY <1>0, <1>3, DelegateDoes DEF InFlight, WayInv, Way, Like
  <2>1. Admitted(r)'
    BY <2>0, DecidedStands
  <2>2. CASE req'[r].at = "over" /\ req'[r].answer = "unauthorized"
    <3>1. Way(r)'
      BY <2>2 DEF Way, Served, Handled, InFlight
    <3> QED
      BY <1>0, <2>0, <3>1, WayOn
  <2>3. CASE /\ req[r].header # None /\ auth[req[r].header].key # 0
             /\ auth[req[r].header].scope = "admin"
             /\ req'[r].at = AfterDelegation(r) /\ req'[r].answer = req[r].answer
    <3>1. RouteOf(r).delegated # "none" => req[r].header \in Users
      BY <1>r, <2>0, <2>3 DEF Admitted, Fits, InFlight
    <3>2. Vouched(r)
      BY <2>0, <2>3, <3>1, FactsSay DEF Vouched
    <3>3. Vouched(r)'
      BY <2>0, <3>2, DecidedStands
    <3>4. req'[r].at \in {"credits", "handle"}
      BY <2>3 DEF AfterDelegation
    <3>5. Way(r)'
      BY <2>0, <2>1, <2>3, <3>3, <3>4, FactsKept DEF Way, Served, Handled
    <3> QED
      BY <1>0, <2>0, <3>5, WayOn
  <2> QED
    BY <1>0, <1>3, <2>2, <2>3, DelegateDoes
<1>4. ASSUME NEW r \in Requests, RequireCredits(r) PROVE WayInv'
  <2>0. /\ Touches(r) /\ UNCHANGED <<auth, could>> /\ InFlight(r) /\ Admitted(r) /\ Vouched(r)
        /\ req'[r].asked = 0 /\ Facts(r, req[r], auth) \subseteq could[r]
        /\ req'[r].state = req[r].state /\ req[r].answer = "none"
        /\ \/ req'[r].at = "over" /\ req'[r].answer = "payment"
           \/ req'[r].at = "handle" /\ req'[r].answer = "none"
    BY <1>0, <1>4, CreditsDo DEF InFlight, WayInv, Way, Like
  <2>1. Admitted(r)' /\ Vouched(r)'
    BY <2>0, DecidedStands
  <2>2. Way(r)'
    BY <2>0, <2>1, FactsKept DEF Way, Served, Handled, InFlight
  <2> QED
    BY <1>0, <2>0, <2>2, WayOn
<1>5. ASSUME NEW r \in Requests, req[r].at \in {"handle", "page"}, Touches(r), auth' = auth,
             could' = could, req'[r].state = req[r].state,
             \/ req'[r].at = "over"
             \/ /\ req'[r].at = "authenticate" \/ (req'[r].at = "page" /\ req'[r].route = "list_audits")
                /\ req'[r].answer = req[r].answer
                /\ req'[r].asked = req[r].asked,
             req'[r].route = "is_admin" /\ req'[r].answer = "ok" /\ req'[r].header # None =>
                "admin" \in could[r]
      PROVE  WayInv'
  <2>0. /\ InFlight(r) /\ Admitted(r) /\ Vouched(r) /\ Facts(r, req[r], auth) \subseteq could[r]
        /\ req[r].answer = "none" /\ req[r].asked = 0
    BY <1>0, <1>5 DEF InFlight, WayInv, TypeInv, Way, Served, Handled
  <2>1. Admitted(r)' /\ Vouched(r)'
    BY <1>5, <2>0, DecidedStands
  <2>2. Way(r)'
    BY <1>5, <2>0, <2>1, FactsKept DEF Way, Served, Handled, InFlight
  <2> QED
    BY <1>0, <1>5, <2>0, <2>2, WayOn
<1>6. ASSUME NEW r \in Requests, CreateAudit(r) PROVE WayInv'
  BY <1>0, <1>5, <1>6, CreateDoes DEF Like, Touches, Same
<1>7. ASSUME NEW r \in Requests, GetAudit(r) \/ GetStatus(r) \/ SubmitFeedback(r) PROVE WayInv'
  BY <1>0, <1>5, <1>7, AskDoes DEF Touches, Same
<1>8. ASSUME NEW r \in Requests, IsAdmin(r) \/ Elsewhere(r) PROVE WayInv'
  <2>1. /\ req[r].at = "handle" /\ Touches(r) /\ UNCHANGED <<auth, could>>
        /\ req'[r].at = "over" /\ req'[r].state = req[r].state /\ req'[r].route = req[r].route
        /\ req'[r].header = req[r].header
        /\ req[r].route = "is_admin" /\ req'[r].answer = "ok" /\ req[r].state.user # None =>
                auth[req[r].state.user].key # 0 /\ auth[req[r].state.user].scope = "admin"
    BY <1>0, <1>8, PlainDoes DEF Like, Touches, Same
  <2>2. ASSUME req[r].route = "is_admin", req'[r].answer = "ok", req[r].header # None
        PROVE  "admin" \in could[r]
    <3>1. Admitted(r) /\ Facts(r, req[r], auth) \subseteq could[r]
      BY <1>0, <2>1 DEF WayInv, TypeInv, Way, Served, Handled, InFlight
    <3>2. RouteOf(r).header /\ req[r].client \in FirstParty
      BY <1>r, <2>1, <2>2, <3>1 DEF Fits, Admitted, HasRole, ForOperators
    <3>3. req[r].state.user = req[r].header /\ req[r].header \in Users \cup {None}
      BY <3>1, <3>2, StateIs, PartiesAssumption DEF Admitted, Clients
    <3>4. req[r].header \in Users /\ auth[req[r].header].key # 0
          /\ auth[req[r].header].scope = "admin"
      BY <2>1, <2>2, <3>3
    <3> QED
      BY <3>1, <3>4, FactsSay
  <2> QED
    BY <1>5, <2>1, <2>2
<1>9. ASSUME NEW r \in Requests, Count(r) PROVE WayInv'
  BY <1>0, <1>5, <1>9, CountDoes DEF Like, Touches, Same
<1>10. ASSUME NEW r \in Requests, ReadPage(r) PROVE WayInv'
  <2>1. req[r].route # "is_admin"
    BY <1>0, <1>10, PageDoes DEF WayInv, Way
  <2> QED
    BY <1>0, <1>5, <1>10, <2>1, PageDoes DEF Touches, Same
<1>11. ASSUME NEW c \in Clients, Changes(c) PROVE WayInv'
  <2>1. UNCHANGED <<audits, req>> /\ (Note(auth') \/ UNCHANGED <<auth, could>>)
    BY <1>0, <1>11, ChangeDoes
  <2>2. ASSUME NEW r \in Requests
        PROVE  /\ could[r] \subseteq could'[r]
               /\ InFlight(r) => Facts(r, req[r], auth') \subseteq could'[r]
    BY <2>1 DEF Note, WayInv, Way
  <2>3. ASSUME NEW r \in Requests PROVE Way(r)'
    BY <2>1, <2>2 DEF WayInv, Way, Admitted, Vouched, RouteOf, Served, Handled, InFlight
  <2> QED
    BY <1>0, <2>3 DEF WayInv
<1>12. CASE UNCHANGED vars
  BY <1>0, <1>12, WayElsewhere DEF vars, WayInv
<1> QED
  BY <1>1, <1>v, <1>2, <1>3, <1>4, <1>6, <1>7, <1>8, <1>9, <1>10, <1>11, <1>12 DEF Next, Handle, Changes

\* At the start no request is on its way.
LEMMA NotBegun ==
    ASSUME Init, NEW r \in Requests
    PROVE  /\ req[r].at = "none" /\ req[r].answer = "none"
           /\ req[r].asked = 0 /\ req[r].shown = {} /\ req[r].page = 0 /\ req[r].begun = 0
<1>1. PICK t \in Traffic :
        req = [s \in Requests |->
                 [NoRequest EXCEPT !.route = IF s \in DOMAIN t.routes THEN t.routes[s] ELSE "none"]]
  BY DEF Init
<1> QED
  BY <1>1 DEF NoRequest

\* WayInv holds then.
LEMMA WayInit == Init => WayInv
BY TypeInit, NotBegun DEF WayInv, Way, InFlight, Served, Handled

\* WayInv is an invariant.
LEMMA WayInvariant == Spec => []WayInv
BY WayInit, WayStep, PTL DEF Spec

(***************************************************************************)
(* But for the routes of BaseRouter, a handler runs only for a request     *)
(* whose key was valid, and had the scope, at some time since it was       *)
(* received; the admin API only for the first-party app and a user who was *)
(* an admin at some time since then.                                       *)
(***************************************************************************)
THEOREM HandledAuthorized == Spec => []HandledIsAuthorized
<1>1. WayInv => HandledIsAuthorized
  <2> SUFFICES ASSUME WayInv, NEW r \in Requests, Handled(r), req[r].route \notin ForAnyone
               PROVE  /\ "reads" \in could[r]
                      /\ req[r].route \in Changing => "writes" \in could[r]
                      /\ req[r].route \in ForAdmins => "admin" \in could[r]
                      /\ req[r].route = "is_admin" /\ req[r].answer = "ok"
                           /\ req[r].header # None => "admin" \in could[r]
                      /\ req[r].route \in ForOperators => req[r].client \in FirstParty
                      /\ req[r].route \in ForApps => req[r].client \in Apps
    BY DEF HandledIsAuthorized
  <2>1. Fits(req[r].route, RouteOf(r))
    BY RoutesFit DEF WayInv, TypeInv, AllFit, RouteOf, Handled
  <2>2. Way(r) /\ Admitted(r) /\ Vouched(r)
    BY <2>1 DEF WayInv, Way, Served, Fits
  <2> QED
    BY <2>1, <2>2, PartiesAssumption DEF Way, Admitted, Vouched, Fits, HasRole
<1> QED
  BY <1>1, WayInvariant, PTL

(***************************************************************************)
(* Whose audit it is: the user and the app of an audit, and the payer that *)
(* was looked at, are those of the AuthState of the client that created it.*)
(***************************************************************************)
MadeBy(a) ==
    /\ a.by \in Clients /\ a.header \in Users \cup {None}
    /\ a.user = StateOf(a.by, a.header).user /\ a.app = StateOf(a.by, a.header).app

CheckedBy(a) ==
    a.checked = IF StateOf(a.by, a.header).consumes THEN StateOf(a.by, a.header).payer ELSE None

MadeInv ==
    /\ WayInv
    /\ Len(Stored) <= Len(audits)
    /\ \A i \in Ids : MadeBy(audits[i]) /\ (i > Len(Stored) => CheckedBy(audits[i]))

\* The audit that CreateAudit creates is made by its client.
LEMMA NewAuditIsMade ==
    ASSUME WayInv, NEW r \in Requests, CreateAudit(r)
    PROVE  MadeBy(NewAudit(r)) /\ CheckedBy(NewAudit(r))
<1>1. req[r].at = "handle" /\ req[r].route = "create_audit"
  BY CreateDoes DEF WayInv
<1>2. req[r].client \in Clients /\ Admitted(r)
  BY <1>1 DEF WayInv, TypeInv, Way, Served, Handled, InFlight
<1>3. RouteOf(r).header
  BY <1>1, RoutesFit DEF WayInv, TypeInv, AllFit, RouteOf, Fits, AuditNames
<1>4. /\ req[r].state = StateOf(req[r].client, req[r].header)
      /\ req[r].header \in Users \cup {None}
  BY <1>2, <1>3 DEF Admitted
<1> QED
  BY <1>2, <1>4 DEF NewAudit, MadeBy, CheckedBy

\* A step leaves the audits as they are, or adds one to them.
LEMMA AuditsGrow ==
    ASSUME WayInv, [Next]_vars
    PROVE  \/ audits' = audits
           \/ \E r \in Requests : CreateAudit(r) /\ audits' = Append(audits, NewAudit(r))
<1> USE DEF WayInv
<1>1. ASSUME NEW r \in Requests, Receive(r) \/ Visit(r) PROVE audits' = audits
  BY <1>1 DEF Receive, Visit
<1>2. ASSUME NEW r \in Requests, Authenticate(r) \/ AuthenticateKey(r) PROVE audits' = audits
  BY <1>2 DEF Authenticate, AuthenticateKey
<1>3. ASSUME NEW r \in Requests, Delegate(r) \/ RequireCredits(r) PROVE audits' = audits
  BY <1>3 DEF Delegate, RequireCredits
<1>4. ASSUME NEW r \in Requests, Handle(r), ~CreateAudit(r) PROVE audits' = audits
  BY <1>4, AskDoes, PlainDoes, CountDoes, PageDoes DEF Handle
<1>5. ASSUME NEW c \in Clients, Changes(c) PROVE audits' = audits
  BY <1>5, ChangeDoes
<1>6. ASSUME NEW r \in Requests, CreateAudit(r)
      PROVE  audits' = audits \/ audits' = Append(audits, NewAudit(r))
  BY <1>6, CreateDoes
<1> QED
  BY <1>1, <1>2, <1>3, <1>4, <1>5, <1>6 DEF Next, Changes, vars

\* Every step keeps MadeInv.
LEMMA MadeStep == MadeInv /\ [Next]_vars => MadeInv'
<1> SUFFICES ASSUME MadeInv, [Next]_vars PROVE MadeInv'
  OBVIOUS
<1>0. WayInv /\ WayInv'
  BY WayStep DEF MadeInv
<1>1. CASE audits' = audits
  BY <1>0, <1>1 DEF MadeInv, Ids
<1>2. ASSUME NEW r \in Requests, CreateAudit(r), audits' = Append(audits, NewAudit(r))
      PROVE  MadeInv'
  <2>1. NewAudit(r) \in Audit
    BY <1>0, <1>2, CreateDoes, NewAuditType DEF WayInv, InFlight
  <2>2. PICK k : k = Len(audits) + 1
    OBVIOUS
  <2>3. /\ Ids' = Ids \cup {k} /\ \A i \in Ids : audits'[i] = audits[i]
        /\ audits'[k] = NewAudit(r) /\ Len(audits') = Len(audits) + 1
    BY <1>0, <1>2, <2>1, <2>2, AuditAdded DEF WayInv, TypeInv, Ids
  <2>4. MadeBy(audits'[k]) /\ CheckedBy(audits'[k])
    BY <1>0, <1>2, <2>3, NewAuditIsMade
  <2>5. Len(Stored) <= Len(audits')
    <3>1. Len(Stored) \in Nat /\ Len(audits) \in Nat
      BY <1>0, FirstAssumption DEF WayInv, TypeInv
    <3> QED
      BY <2>3, <3>1 DEF MadeInv
  <2> QED
    BY <1>0, <2>3, <2>4, <2>5 DEF MadeInv
<1> QED
  BY <1>0, <1>1, <1>2, AuditsGrow

\* MadeInv holds at the start, whoever created the audits that are there then.
LEMMA MadeInit == Init => MadeInv
<1> SUFFICES ASSUME Init PROVE MadeInv
  OBVIOUS
<1>1. DOMAIN Stored = 1 .. Len(Stored) /\ Len(Stored) \in Nat
  BY FirstAssumption
<1>2. Ids = 1 .. Len(Stored) /\ Len(audits) = Len(Stored)
  <2>1. audits \in Seq(Audit) /\ DOMAIN audits = DOMAIN Stored
    BY TypeInit DEF TypeInv, Init
  <2> QED
    BY <1>1, <2>1 DEF Ids
<1>3. ASSUME NEW i \in Ids PROVE MadeBy(audits[i])
  <2>1. Stored[i].user \in Users /\ Stored[i].app \in Apps \cup {None}
    <3>1. Stored[i] \in [user : Users, app : Apps \cup {None}]
      BY <1>1, <1>2, FirstAssumption, RowOf
    <3> QED
      BY <3>1
  <2>2. /\ audits[i].user = Stored[i].user /\ audits[i].app = Stored[i].app
        /\ audits[i].by = IF Stored[i].app # None THEN Stored[i].app ELSE Stored[i].user
        /\ audits[i].header = IF Stored[i].app # None THEN Stored[i].user ELSE None
    BY <1>1, <1>2 DEF Init
  <2>3. CASE Stored[i].app = None
    BY <2>1, <2>2, <2>3, StateIs DEF MadeBy, Clients
  <2>4. CASE Stored[i].app \in FirstParty
    BY <2>1, <2>2, <2>4, StateIs, PartiesAssumption DEF MadeBy, Clients
  <2>5. CASE Stored[i].app \in Apps \ FirstParty
    BY <2>1, <2>2, <2>5, StateIs, PartiesAssumption DEF MadeBy, Clients
  <2> QED
    BY <2>1, <2>3, <2>4, <2>5
<1>4. WayInv
  BY WayInit
<1> QED
  BY <1>1, <1>2, <1>3, <1>4 DEF MadeInv

\* MadeInv is an invariant.
LEMMA MadeInvariant == Spec => []MadeInv
BY MadeInit, MadeStep, PTL DEF Spec

\* The payer of a client that consumes credits, by the kind of the client.
LEMMA PayerIs ==
    ASSUME NEW c \in Clients, NEW h
    PROVE  (IF StateOf(c, h).consumes THEN StateOf(c, h).payer ELSE None) =
              IF c \in Free \cup FirstParty THEN None ELSE IF c \in Apps THEN Owner[c] ELSE c
<1>1. CASE c \in Users
  <2>1. c \notin Apps /\ c \notin FirstParty
    BY <1>1, PartiesAssumption
  <2>2. PICK s : s = StateOf(c, h)
    OBVIOUS
  <2>3. s = [role |-> "user", consumes |-> c \notin Free, payer |-> c,
             user |-> c, app |-> None]
    BY <1>1, <2>2, StateIs
  <2>4. s.consumes <=> c \notin Free
    BY Zenon, <2>3
  <2>5. s.payer = c
    BY Zenon, <2>3
  <2> QED
    BY Zenon, <2>1, <2>2, <2>4, <2>5
<1>2. CASE c \in FirstParty
  <2>0. StateOf(c, h) = [role |-> "first_party", consumes |-> FALSE, payer |-> None,
                         user |-> h, app |-> c]
    BY <1>2, StateIs
  <2>1. StateOf(c, h).consumes = FALSE
    BY <2>0
  <2> QED
    BY Zenon, <1>2, <2>1
<1>3. CASE c \in Apps \ FirstParty
  <2>2. PICK s : s = StateOf(c, h)
    OBVIOUS
  <2>3. s = [role |-> "app", consumes |-> c \notin Free, payer |-> Owner[c],
             user |-> IF h = None THEN Owner[c] ELSE h, app |-> c]
    BY <1>3, <2>2, StateIs
  <2>4. s.consumes <=> c \notin Free
    BY Zenon, <2>3
  <2>5. s.payer = Owner[c]
    BY Zenon, <2>3
  <2> QED
    BY Zenon, <1>3, <2>2, <2>4, <2>5
<1> QED
  BY <1>1, <1>2, <1>3 DEF Clients

(***************************************************************************)
(* The payer whose credits are looked at before an audit is created is the *)
(* one whom handle_eval charges for it.                                    *)
(***************************************************************************)
THEOREM ChargedChecked == Spec => []ChargedIsChecked
<1>1. ASSUME MadeInv, NEW i \in Ids, i > Len(Stored) PROVE audits[i].checked = ChargedTo(i)
  <2>1. MadeBy(audits[i]) /\ CheckedBy(audits[i])
    BY <1>1 DEF MadeInv
  <2>2. audits[i].app = IF audits[i].by \in Apps THEN audits[i].by ELSE None
    BY <2>1, StateIs, PartiesAssumption DEF MadeBy, Clients
  <2>3. audits[i].by \in Users => audits[i].user = audits[i].by
    BY <2>1, StateIs DEF MadeBy
  <2>4. CallerOf(i) = audits[i].by
    BY <2>1, <2>2, <2>3, PartiesAssumption DEF CallerOf, MadeBy, Clients
  <2>5. audits[i].checked =
            IF audits[i].by \in Free \cup FirstParty THEN None
            ELSE IF audits[i].by \in Apps THEN Owner[audits[i].by] ELSE audits[i].by
    BY <2>1, PayerIs DEF CheckedBy, MadeBy
  <2> QED
    BY <2>4, <2>5 DEF ChargedTo
<1>2. MadeInv => ChargedIsChecked
  BY <1>1 DEF ChargedIsChecked
<1> QED
  BY <1>2, MadeInvariant, PTL

(***************************************************************************)
(* Who sees an audit: what the filters and submit_feedback ask of the      *)
(* AuthState of a client comes to whether the audit is its own.            *)
(***************************************************************************)
LEMMA OwnsIsSees ==
    ASSUME MadeInv, NEW i \in Ids, NEW c \in Clients, NEW h \in Users \cup {None}
    PROVE  /\ Sees(StateOf(c, h), i) <=> Owns(c, i)
           /\ MayAttest(StateOf(c, h), i) <=> Owns(c, i)
<1> DEFINE b == audits[i].by
           g == audits[i].header
<1>1. b \in Clients /\ g \in Users \cup {None}
  BY DEF MadeInv, MadeBy
<1>2. /\ audits[i].app = IF b \in Apps THEN b ELSE None
      /\ audits[i].user = IF b \in Users THEN b
                          ELSE IF b \in FirstParty THEN g
                          ELSE IF g = None THEN Owner[b] ELSE g
  <2>1. MadeBy(audits[i])
    BY DEF MadeInv
  <2>2. CASE b \in Users
    BY <2>1, <2>2, StateIs, PartiesAssumption DEF MadeBy, Clients
  <2>3. CASE b \in FirstParty
    BY <2>1, <2>3, StateIs, PartiesAssumption DEF MadeBy, Clients
  <2>4. CASE b \in Apps \ FirstParty
    BY <2>1, <2>4, StateIs, PartiesAssumption DEF MadeBy, Clients
  <2> QED
    BY <1>1, <2>2, <2>3, <2>4 DEF Clients
<1>3. Owns(c, i) <=> \/ c \in FirstParty
                     \/ c = b
                     \/ b \in Apps /\ c \in Users /\ c = g
                     \/ b \in Apps \ FirstParty /\ g = None /\ c = Owner[b]
  BY DEF Owns
<1>4. b \in Apps \ FirstParty => Owner[b] \in Users
  BY PartiesAssumption
<1> HIDE DEF b, g
<1>5. CASE c \in Users
  <2>1. StateOf(c, h).role = "user" /\ StateOf(c, h).user = c
    BY <1>5, StateIs
  <2>2. c # None /\ c \notin Apps
    BY <1>5, PartiesAssumption DEF Clients
  <2>3. Owns(c, i) <=> audits[i].user = c
    BY <1>1, <1>2, <1>3, <1>4, <1>5, <2>2, PartiesAssumption DEF Clients
  <2> QED
    BY <2>1, <2>2, <2>3 DEF Sees, MayAttest
<1>6. CASE c \in FirstParty
  <2>1. StateOf(c, h).role = "first_party"
    BY <1>6, StateIs
  <2> QED
    BY <1>3, <1>6, <2>1 DEF Sees, MayAttest
<1>7. CASE c \in Apps \ FirstParty
  <2>1. StateOf(c, h).role = "app" /\ StateOf(c, h).app = c
    BY <1>7, StateIs
  <2>2. c # None /\ c \notin Users
    BY <1>7, PartiesAssumption DEF Clients
  <2>3. Owns(c, i) <=> audits[i].app = c
    BY <1>1, <1>2, <1>3, <1>4, <1>7, <2>2
  <2> QED
    BY <2>1, <2>2, <2>3 DEF Sees, MayAttest
<1> QED
  BY <1>5, <1>6, <1>7 DEF Clients

\* What a client was shown is its own, and what it was denied is not.
Own(r) ==
    /\ req[r].at = "none" => req[r].shown = {}
    /\ \A i \in req[r].shown : Owns(req[r].client, i)
    /\ req[r].asked # 0 =>
         (req[r].answer \in {"missing", "refused"} <=> ~Owns(req[r].client, req[r].asked))

OwnInv == MadeInv /\ \A r \in Requests : Own(r)

\* The audits a handler looks through are filtered by the client's own state.
LEMMA FilteredByOwner ==
    ASSUME MadeInv, NEW r \in Requests, Served(r), NEW i \in Ids
    PROVE  /\ Sees(req[r].state, i) <=> Owns(req[r].client, i)
           /\ MayAttest(req[r].state, i) <=> Owns(req[r].client, i)
<1>1. Admitted(r) /\ req[r].client \in Clients
  BY DEF MadeInv, WayInv, Way, Served, Handled, TypeInv
<1>2. PICK h \in Users \cup {None} : req[r].state = StateOf(req[r].client, h)
  BY <1>1 DEF Admitted
<1> QED
  BY <1>1, <1>2, OwnsIsSees

\* No step changes an audit that is there.
LEMMA AuditsStay ==
    ASSUME WayInv, [Next]_vars
    PROVE  \A i \in Ids : i \in Ids' /\ audits'[i] = audits[i]
<1>1. ASSUME NEW r \in Requests, CreateAudit(r), audits' = Append(audits, NewAudit(r))
      PROVE  \A i \in Ids : i \in Ids' /\ audits'[i] = audits[i]
  <2>1. NewAudit(r) \in Audit
    BY <1>1, CreateDoes, NewAuditType DEF WayInv, InFlight
  <2> QED
    BY <1>1, <2>1, AuditAdded DEF WayInv, TypeInv, Ids
<1> QED
  BY <1>1, AuditsGrow DEF Ids

\* A request that is answered or shown what it owns.
LEMMA OwnOn ==
    ASSUME OwnInv, [Next]_vars, NEW r \in Requests, req[r].at # "none",
           \A s \in Requests \ {r} : req'[s] = req[s],
           req'[r].client = req[r].client, req'[r].at # "none", req'[r].asked = 0,
           \A i \in req'[r].shown \ req[r].shown : i \in Ids /\ Owns(req[r].client, i)
    PROVE  OwnInv'
<1>1. MadeInv' /\ \A i \in Ids : i \in Ids' /\ audits'[i] = audits[i]
  BY MadeStep, AuditsStay DEF OwnInv, MadeInv
<1>2. \A c, i : i \in Ids => (Owns(c, i)' <=> Owns(c, i))
  BY <1>1 DEF Owns
<1>3. \A s \in Requests : req[s].shown \subseteq Ids /\ req[s].asked \in Ids \cup {0}
  BY DEF OwnInv, MadeInv, WayInv, TypeInv
<1>4. \A s \in Requests \ {r} : Own(s)'
  BY <1>1, <1>2, <1>3 DEF OwnInv, Own, Owns
<1>5. Own(r)'
  BY <1>1, <1>2, <1>3 DEF OwnInv, Own, Owns
<1> QED
  BY <1>1, <1>4, <1>5 DEF OwnInv

\* Every step keeps OwnInv.
LEMMA OwnStep == OwnInv /\ [Next]_vars => OwnInv'
<1> SUFFICES ASSUME OwnInv, [Next]_vars PROVE OwnInv'
  OBVIOUS
<1>0. WayInv /\ TypeInv /\ MadeInv /\ MadeInv'
  BY MadeStep DEF OwnInv, MadeInv, WayInv
<1>a. \A r \in Requests : req[r].at # "over" => req[r].asked = 0
  BY <1>0 DEF WayInv, Way
<1>1. ASSUME NEW r \in Requests, Receive(r) PROVE OwnInv'
  <2>1. /\ \A s \in Requests \ {r} : req'[s] = req[s]
        /\ req[r].at = "none" /\ req'[r].at = "authenticate" /\ audits' = audits
        /\ req'[r].shown = req[r].shown /\ req'[r].asked = req[r].asked
    BY <1>0, <1>1, ReceiveDoes DEF Like
  <2>2. req'[r].shown = {} /\ req'[r].asked = 0
    BY <1>a, <2>1 DEF OwnInv, Own
  <2>3. ASSUME NEW s \in Requests PROVE Own(s)'
    BY <2>1, <2>2 DEF OwnInv, Own, Owns
  <2> QED
    BY <1>0, <2>3 DEF OwnInv
<1>v. ASSUME NEW r \in Requests, Visit(r) PROVE OwnInv'
  <2>1. /\ \A s \in Requests \ {r} : req'[s] = req[s]
        /\ req[r].at = "none" /\ req'[r].at = "over" /\ audits' = audits
        /\ req'[r].shown = req[r].shown /\ req'[r].asked = req[r].asked
    BY <1>0, <1>v, VisitDoes DEF Like, Touches
  <2>2. req'[r].shown = {} /\ req'[r].asked = 0
    BY <1>a, <2>1 DEF OwnInv, Own
  <2>3. ASSUME NEW s \in Requests PROVE Own(s)'
    BY <2>1, <2>2 DEF OwnInv, Own, Owns
  <2> QED
    BY <1>0, <2>3 DEF OwnInv
<1>s. ASSUME NEW r \in Requests, req[r].at \in {"handle", "page"} PROVE Served(r)
  BY <1>0, <1>s DEF TypeInv, Served, Handled, InFlight
<1>2. ASSUME NEW r \in Requests, Authenticate(r) \/ AuthenticateKey(r) PROVE OwnInv'
  <2>1. req'[r].at # "none"
    BY <1>0, <1>2, AuthenticateDoes DEF AfterAuthentication, AfterDelegation
  <2> QED
    BY <1>0, <1>2, <1>a, <2>1, AuthenticateDoes, OwnOn DEF Touches, Same
<1>3. ASSUME NEW r \in Requests, Delegate(r) PROVE OwnInv'
  <2>1. req'[r].at # "none"
    BY <1>0, <1>3, DelegateDoes DEF AfterDelegation
  <2> QED
    BY <1>0, <1>3, <1>a, <2>1, DelegateDoes, OwnOn DEF Touches, Same, Like
<1>4. ASSUME NEW r \in Requests, RequireCredits(r) PROVE OwnInv'
  BY <1>0, <1>4, <1>a, CreditsDo, OwnOn DEF Touches, Same, Like
<1>5. ASSUME NEW r \in Requests, CreateAudit(r) PROVE OwnInv'
  BY <1>0, <1>5, <1>a, CreateDoes, OwnOn DEF Touches, Same, Like
<1>6. ASSUME NEW r \in Requests, GetAudit(r) \/ GetStatus(r) \/ SubmitFeedback(r) PROVE OwnInv'
  <2>1. /\ \A s \in Requests \ {r} : req'[s] = req[s]
        /\ req[r].at = "handle" /\ req'[r].at = "over" /\ audits' = audits
        /\ req'[r].client = req[r].client /\ req'[r].shown = req[r].shown
        /\ req'[r].asked \in Ids
        /\ req'[r].answer \in {"missing", "refused"} <=> Denied(r, req'[r].asked)
    BY <1>0, <1>6, AskDoes DEF Touches, Same
  <2>2. Denied(r, req'[r].asked) <=> ~Owns(req[r].client, req'[r].asked)
    BY <1>0, <1>s, <2>1, FilteredByOwner DEF Denied
  <2>3. ASSUME NEW s \in Requests PROVE Own(s)'
    BY <2>1, <2>2 DEF OwnInv, Own, Owns
  <2> QED
    BY <1>0, <2>3 DEF OwnInv
<1>7. ASSUME NEW r \in Requests, IsAdmin(r) \/ Elsewhere(r) PROVE OwnInv'
  BY <1>0, <1>7, <1>a, PlainDoes, OwnOn DEF Touches, Same, Like
<1>8. ASSUME NEW r \in Requests, Count(r) PROVE OwnInv'
  BY <1>0, <1>8, <1>a, CountDoes, OwnOn DEF Touches, Same, Like
<1>9. ASSUME NEW r \in Requests, ReadPage(r) PROVE OwnInv'
  <2>1. req[r].at = "page"
    BY <1>0, <1>9, PageDoes
  <2>2. ASSUME NEW i \in Page(r) PROVE i \in Ids /\ Owns(req[r].client, i)
    <3>1. i \in Ids /\ Sees(req[r].state, i)
      BY <2>2 DEF Page, Window, Listed
    <3> QED
      BY <1>0, <1>s, <2>1, <3>1, FilteredByOwner
  <2>3. \A i \in req'[r].shown \ req[r].shown : i \in Page(r)
    BY <1>0, <1>9, PageDoes
  <2> QED
    BY <1>0, <1>9, <1>a, <2>2, <2>3, PageDoes, OwnOn DEF Touches, Same
<1>10. ASSUME NEW c \in Clients, Changes(c) PROVE OwnInv'
  BY <1>0, <1>10, ChangeDoes DEF OwnInv, Own, Owns
<1>11. CASE UNCHANGED vars
  BY <1>0, <1>11 DEF vars, OwnInv, Own, Owns
<1> QED
  BY <1>1, <1>v, <1>2, <1>3, <1>4, <1>5, <1>6, <1>7, <1>8, <1>9, <1>10, <1>11 DEF Next, Handle, Changes

(***************************************************************************)
(* A client is shown and told of its own audits only, and is never denied  *)
(* what it created: first-party apps see all, other apps what was created  *)
(* through them, users what is theirs.                                     *)
(***************************************************************************)
THEOREM EachItsOwn == Spec => []EachSeesItsOwn
<1>1. Init => OwnInv
  BY MadeInit, NotBegun DEF OwnInv, Own
<1>2. OwnInv => EachSeesItsOwn
  <2>1. \A r, i : Created(r, i) => Owns(req[r].client, i)
    BY DEF Created, Owns
  <2> QED
    BY <2>1 DEF OwnInv, Own, EachSeesItsOwn
<1> QED
  BY <1>1, <1>2, OwnStep, PTL DEF Spec

(***************************************************************************)
(* Windows on a list: the place of an element is the number of those that  *)
(* are newer. The places of a finite set are 0, 1, 2, ... without a gap.   *)
(***************************************************************************)
Place(S, i) == Cardinality({j \in S : j > i})

\* A place is a number, smaller than that of what is older.
LEMMA PlaceIs ==
    ASSUME NEW S \in SUBSET Nat, IsFiniteSet(S), NEW i \in S
    PROVE  /\ Place(S, i) \in Nat /\ Place(S, i) < Cardinality(S)
           /\ \A k \in S : i < k => Place(S, k) < Place(S, i)
<1> DEFINE newer(k) == {j \in S : j > k}
<1>1. ASSUME NEW k \in S
      PROVE  IsFiniteSet(newer(k)) /\ Cardinality(newer(k)) \in Nat
  BY FS_Subset, FS_CardinalityType
<1>2. Cardinality(newer(i)) < Cardinality(S)
  <2>1. newer(i) \subseteq S /\ newer(i) # S
    OBVIOUS
  <2>2. /\ Cardinality(newer(i)) <= Cardinality(S)
        /\ Cardinality(newer(i)) # Cardinality(S)
    BY <2>1, FS_Subset
  <2>3. Cardinality(S) \in Nat /\ Cardinality(newer(i)) \in Nat
    BY <1>1, FS_CardinalityType
  <2> HIDE DEF newer
  <2> QED
    BY <2>2, <2>3
<1>3. ASSUME NEW k \in S, i < k PROVE Cardinality(newer(k)) < Cardinality(newer(i))
  <2>0. i \in Nat /\ k \in Nat
    OBVIOUS
  <2>1. newer(k) \subseteq newer(i)
    <3>1. ASSUME NEW j \in S, j > k PROVE j > i
      <4>1. j \in Nat
        OBVIOUS
      <4> QED
        BY <1>3, <2>0, <3>1, <4>1
    <3> QED
      BY <3>1
  <2>2. k \in newer(i) /\ k \notin newer(k)
    BY <1>3, <2>0
  <2>3. IsFiniteSet(newer(i)) /\ Cardinality(newer(k)) \in Nat /\ Cardinality(newer(i)) \in Nat
    BY <1>1
  <2> HIDE DEF newer
  <2>4. /\ Cardinality(newer(k)) <= Cardinality(newer(i))
        /\ Cardinality(newer(k)) # Cardinality(newer(i))
    BY <2>1, <2>2, <2>3, FS_Subset
  <2> QED
    BY <2>3, <2>4
<1> QED
  BY <1>1, <1>2, <1>3 DEF Place

\* Every place up to the last is taken.
LEMMA EveryPlace ==
    ASSUME NEW S \in SUBSET Nat, IsFiniteSet(S), NEW n \in Nat, n < Cardinality(S)
    PROVE  \E i \in S : Place(S, i) = n
<1> DEFINE last == Cardinality(S) - 1
           place == [i \in S |-> Place(S, i)]
<1>0. Cardinality(S) \in Nat /\ last \in Int /\ 0 \in Int /\ Cardinality(S) = last + 1
  BY FS_CardinalityType
<1> HIDE DEF last
<1>1. IsFiniteSet(0 .. last) /\ Cardinality(0 .. last) = Cardinality(S)
  <2>1. IsFiniteSet(0 .. last)
        /\ Cardinality(0 .. last) = IF 0 > last THEN 0 ELSE last - 0 + 1
    BY <1>0, FS_Interval
  <2> QED
    BY <1>0, <2>1
<1>2. ASSUME NEW i \in S PROVE Place(S, i) \in 0 .. last
  BY <1>0, PlaceIs
<1>3. ASSUME NEW i \in S, NEW k \in S, Place(S, i) = Place(S, k) PROVE i = k
  <2>1. i < k \/ k < i \/ i = k
    OBVIOUS
  <2> QED
    BY <1>3, <2>1, PlaceIs
<1>4. place \in Injection(S, 0 .. last)
  BY <1>2, <1>3, Zenon DEF Injection, IsInjective
<1>5. place \in Surjection(S, 0 .. last)
  BY <1>1, <1>4, FS_Injection
<1>6. n \in 0 .. last
  BY <1>0
<1> QED
  BY <1>5, <1>6 DEF Surjection

\* A window that is followed by an element is full.
LEMMA FullWindow ==
    ASSUME NEW S \in SUBSET Nat, IsFiniteSet(S), NEW o \in Nat, NEW n \in Nat,
           NEW i \in S, o + n <= Place(S, i)
    PROVE  Cardinality(Window(S, o, n + 1)) > n
<1> DEFINE W == Window(S, o, n + 1)
           place == [j \in W |-> Place(S, j)]
<1>0. Cardinality(S) \in Nat /\ Place(S, i) \in Nat /\ Place(S, i) < Cardinality(S)
  BY FS_CardinalityType, PlaceIs
<1>1. \A j : j \in W <=> j \in S /\ o <= Place(S, j) /\ Place(S, j) < o + (n + 1)
  BY DEF Window, Place
<1>2. IsFiniteSet(W)
  BY <1>1, FS_Subset
<1> HIDE DEF W
<1>3. place \in [W -> o .. (o + n)]
  <2>1. ASSUME NEW j \in W PROVE Place(S, j) \in o .. (o + n)
    <3>1. j \in S /\ o <= Place(S, j) /\ Place(S, j) < o + (n + 1)
      BY <1>1
    <3>2. Place(S, j) \in Nat
      BY <3>1, PlaceIs
    <3> HIDE DEF Place
    <3> QED
      BY <3>1, <3>2
  <2> QED
    BY <2>1, Zenon
<1>4. ASSUME NEW m \in o .. (o + n) PROVE \E j \in W : place[j] = m
  <2>1. PICK j \in S : Place(S, j) = m
    BY <1>0, EveryPlace
  <2> QED
    BY <1>1, <2>1
<1>5. place \in Surjection(W, o .. (o + n))
  BY <1>3, <1>4 DEF Surjection
<1>6. Cardinality(o .. (o + n)) <= Cardinality(W) /\ Cardinality(W) \in Nat
  BY <1>2, <1>5, FS_Surjection, FS_CardinalityType
<1>7. Cardinality(o .. (o + n)) = n + 1
  <2>1. Cardinality(o .. (o + n)) = IF o > o + n THEN 0 ELSE (o + n) - o + 1
    BY FS_Interval
  <2> QED
    BY <2>1
<1> QED
  BY <1>6, <1>7 DEF W

(***************************************************************************)
(* A walk through the list: what is old and was in front of the page that  *)
(* is asked for next has been shown, for the list grows in front only.     *)
(***************************************************************************)
Mine(r) ==
    {i \in Ids : /\ Owns(req[r].client, i)
                 /\ req[r].query # None /\ req[r].client \notin Users =>
                        audits[i].user = req[r].query}
Old(r) == {i \in Mine(r) : i <= req[r].begun}

Walked(r) ==
    /\ req[r].at = "none" => req[r].page = 0 /\ req[r].begun = 0
    /\ req[r].at # "none" => req[r].begun <= Len(audits)
    /\ req[r].route = "list_audits" /\ InFlight(r) =>
         \A i \in Old(r) : Place(Mine(r), i) < Offset(r) => i \in req[r].shown
    /\ req[r].route = "list_audits" /\ req[r].at = "over" /\ req[r].answer = "ok" =>
         Old(r) \subseteq req[r].shown

WalkInv == MadeInv /\ \A r \in Requests : Walked(r)

\* The handler lists what is the client's own.
LEMMA ListedIsMine ==
    ASSUME MadeInv, NEW r \in Requests, Served(r)
    PROVE  Listed(r) = Mine(r)
<1>1. \A i \in Ids : Sees(req[r].state, i) <=> Owns(req[r].client, i)
  BY FilteredByOwner
<1>2. Admitted(r) /\ req[r].client \in Clients
  BY DEF MadeInv, WayInv, Way, Served, Handled, TypeInv
<1>3. PICK h \in Users \cup {None} : req[r].state = StateOf(req[r].client, h)
  BY <1>2 DEF Admitted
<1>4. req[r].state.role # "user" <=> req[r].client \notin Users
  BY <1>2, <1>3, StateIs, PartiesAssumption DEF Clients
<1> QED
  BY <1>1, <1>4 DEF Listed, Mine

\* A set of ids is a finite set of numbers.
LEMMA SomeIds ==
    ASSUME NEW n \in Nat, NEW S \in SUBSET (1 .. n)
    PROVE  S \in SUBSET Nat /\ IsFiniteSet(S)
<1>1. IsFiniteSet(1 .. n)
  BY FS_Interval
<1>2. IsFiniteSet(S)
  BY <1>1, FS_Subset
<1> QED
  BY <1>2

\* That holds of the audits of a request, before a step and after it.
LEMMA MineFinite ==
    ASSUME MadeInv, MadeInv', NEW r \in Requests
    PROVE  /\ Mine(r) \in SUBSET Nat /\ IsFiniteSet(Mine(r))
           /\ Mine(r)' \in SUBSET Nat /\ IsFiniteSet(Mine(r)')
<1>1. /\ Len(audits) \in Nat /\ Ids = 1 .. Len(audits)
      /\ Len(audits') \in Nat /\ Ids' = 1 .. Len(audits')
  BY DEF MadeInv, WayInv, TypeInv, Ids
<1>2. Mine(r) \subseteq 1 .. Len(audits) /\ Mine(r)' \subseteq 1 .. Len(audits')
  BY <1>1 DEF Mine
<1> QED
  BY <1>1, <1>2, SomeIds

\* What is old stays so, and gets no nearer to the front.
LEMMA OldStays ==
    ASSUME MadeInv, [Next]_vars, NEW r \in Requests, Same(req'[r], req[r]),
           req[r].begun <= Len(audits)
    PROVE  /\ Old(r)' = Old(r) /\ Len(audits) <= Len(audits')
           /\ \A i \in Old(r) : i \in Mine(r) /\ i \in Mine(r)'
                                /\ Place(Mine(r), i) <= Place(Mine(r), i)'
<1>1. /\ WayInv /\ MadeInv' /\ Len(audits) \in Nat /\ Len(audits') \in Nat
      /\ Ids = 1 .. Len(audits) /\ Ids' = 1 .. Len(audits') /\ req[r].begun \in Nat
  BY MadeStep DEF MadeInv, WayInv, TypeInv, Ids, Request
<1>2. \A i \in Ids : i \in Ids' /\ audits'[i] = audits[i]
  BY <1>1, AuditsStay
<1>3. Len(audits) <= Len(audits')
  <2>1. CASE Len(audits) = 0
    BY <1>1, <2>1
  <2>2. CASE Len(audits) # 0
    <3>1. Len(audits) \in Ids
      BY <1>1, <2>2
    <3>2. Len(audits) \in Ids'
      BY <1>2, <3>1
    <3> QED
      BY <1>1, <3>2
  <2> QED
    BY <2>1, <2>2
<1>4. \A i \in Ids : i \in Mine(r) <=> i \in Mine(r)'
  BY <1>2 DEF Mine, Owns, Same
<1>5. Mine(r) \subseteq Ids /\ Mine(r)' \subseteq Ids'
  BY DEF Mine
<1>6. Old(r)' = Old(r)
  <2>1. \A i \in Ids' : i <= req[r].begun => i \in Ids
    BY <1>1
  <2>2. \A i : i \in Old(r) <=> i \in Mine(r) /\ i <= req[r].begun
    BY DEF Old
  <2>3. \A i : i \in Old(r)' <=> i \in Mine(r)' /\ i <= req[r].begun
    BY DEF Old, Same
  <2> QED
    BY <1>4, <1>5, <2>1, <2>2, <2>3
<1>7. ASSUME NEW i \in Old(r)
      PROVE  i \in Mine(r) /\ i \in Mine(r)' /\ Place(Mine(r), i) <= Place(Mine(r), i)'
  <2>1. i \in Mine(r) /\ i \in Mine(r)'
    BY <1>4, <1>5 DEF Old
  <2>2. {j \in Mine(r) : j > i} \subseteq {j \in Mine(r)' : j > i}
    BY <1>4, <1>5
  <2>3. IsFiniteSet(Mine(r)')
    BY <1>1, MineFinite
  <2>4. IsFiniteSet({j \in Mine(r)' : j > i})
    BY <2>3, FS_Subset
  <2>5. Cardinality({j \in Mine(r) : j > i}) <= Cardinality({j \in Mine(r)' : j > i})
    BY <2>2, <2>4, FS_Subset
  <2> QED
    BY <2>1, <2>5 DEF Place
<1> QED
  BY <1>3, <1>6, <1>7

\* A step that shows a request nothing, and does not answer it, keeps its walk.
LEMMA WalkStays ==
    ASSUME WalkInv, [Next]_vars, NEW r \in Requests, Same(req'[r], req[r]),
           req'[r].page = req[r].page, req'[r].shown = req[r].shown,
           \/ req'[r].at = req[r].at /\ req'[r].answer = req[r].answer
           \/ InFlight(r) /\ InFlight(r)'
           \/ InFlight(r) /\ req'[r].at = "over" /\ req'[r].answer # "ok"
    PROVE  Walked(r)'
<1>1. MadeInv /\ MadeInv' /\ Walked(r) /\ req'[r].route = req[r].route
      /\ req'[r].begun = req[r].begun
  BY MadeStep DEF WalkInv, Same
<1>2. CASE req[r].at = "none"
  BY <1>1, <1>2 DEF Walked, InFlight
<1>3. CASE req[r].at # "none"
  <2>1. req[r].begun <= Len(audits)
    BY <1>1, <1>3 DEF Walked
  <2>2. /\ Old(r)' = Old(r) /\ Len(audits) <= Len(audits')
        /\ \A i \in Old(r) : i \in Mine(r) /\ i \in Mine(r)'
                             /\ Place(Mine(r), i) <= Place(Mine(r), i)'
    BY <1>1, <2>1, OldStays
  <2>3. /\ req[r].begun \in Nat /\ Len(audits) \in Nat /\ Len(audits') \in Nat
        /\ req[r].page \in Nat /\ PageSize \in Nat /\ Offset(r) \in Int
    BY <1>1, PageAssumption DEF MadeInv, WayInv, TypeInv, Request, Offset
  <2>4. Offset(r)' = Offset(r)
    BY DEF Offset
  <2>5. ASSUME NEW i \in Old(r), Place(Mine(r), i)' < Offset(r)'
        PROVE  Place(Mine(r), i) < Offset(r)
    <3>1. Place(Mine(r), i) \in Nat
      BY <1>1, <2>2, MineFinite, PlaceIs
    <3>2. Place(Mine(r), i)' \in Nat
      <4>1. Mine(r)' \in SUBSET Nat /\ IsFiniteSet(Mine(r)') /\ i \in Mine(r)'
        BY <1>1, <2>2, MineFinite
      <4>2. Place(Mine(r)', i) \in Nat
        BY <4>1, PlaceIs
      <4> QED
        BY <4>2 DEF Place
    <3> QED
      BY <2>2, <2>3, <2>4, <2>5, <3>1, <3>2
  <2>6. req'[r].begun <= Len(audits')
    BY <1>1, <2>1, <2>2, <2>3
  <2>7. req'[r].at # "none"
    BY <1>3 DEF InFlight
  <2>8. ASSUME req[r].route = "list_audits", InFlight(r)', NEW i \in Old(r)',
               Place(Mine(r), i)' < Offset(r)'
        PROVE  i \in req'[r].shown
    BY <1>1, <2>2, <2>5, <2>8 DEF Walked, InFlight
  <2>9. ASSUME req[r].route = "list_audits", req'[r].at = "over", req'[r].answer = "ok"
        PROVE  Old(r)' \subseteq req'[r].shown
    BY <1>1, <2>2, <2>9 DEF Walked, InFlight
  <2> QED
    BY <1>1, <2>6, <2>7, <2>8, <2>9 DEF Walked
<1> QED
  BY <1>2, <1>3

\* Steps that keep WalkInv: one that shows a request nothing and lets it go on,
\* or refuses it,
LEMMA WalkOn ==
    ASSUME WalkInv, [Next]_vars, NEW r \in Requests, Touches(r),
           req[r].at \notin {"none", "over"},
           req'[r].page = req[r].page, req'[r].shown = req[r].shown,
           \/ req'[r].at \notin {"none", "over"}
           \/ req'[r].at = "over" /\ req'[r].answer # "ok"
    PROVE  WalkInv'
<1>1. MadeInv'
  BY MadeStep DEF WalkInv
<1>2. Walked(r)'
  BY WalkStays DEF Touches, InFlight
<1>3. ASSUME NEW s \in Requests \ {r} PROVE Walked(s)'
  BY WalkStays DEF Touches, Same
<1> QED
  BY <1>1, <1>2, <1>3 DEF WalkInv

\* one that receives a request,
LEMMA WalkReceive ==
    ASSUME WalkInv, [Next]_vars, NEW r \in Requests, Receive(r)
    PROVE  WalkInv'
<1>0. MadeInv /\ MadeInv' /\ TypeInv
  BY MadeStep DEF WalkInv, MadeInv, WayInv
<1>1. /\ \A s \in Requests \ {r} : req'[s] = req[s]
      /\ req[r].at = "none" /\ req'[r].at = "authenticate" /\ audits' = audits
      /\ req'[r].begun = Len(audits) /\ req'[r].page = req[r].page
  BY <1>0, ReceiveDoes DEF Like
<1>2. ASSUME NEW s \in Requests \ {r} PROVE Walked(s)'
  BY <1>1, WalkStays DEF Same
<1>3. req'[r].page = 0
  BY <1>1 DEF WalkInv, Walked
<1>4. Offset(r)' = 0
  BY <1>3, PageAssumption DEF Offset
<1>5. Len(audits) \in Nat
  BY <1>0 DEF TypeInv
<1>6. ASSUME NEW i \in Old(r)' PROVE ~(Place(Mine(r), i)' < Offset(r)')
  <2>1. Mine(r)' \in SUBSET Nat /\ IsFiniteSet(Mine(r)') /\ i \in Mine(r)'
    BY <1>0, MineFinite DEF Old
  <2>2. Place(Mine(r)', i) \in Nat
    BY <2>1, PlaceIs
  <2>3. Place(Mine(r)', i) = Place(Mine(r), i)'
    BY DEF Place
  <2> QED
    BY <1>4, <2>2, <2>3
<1>7. Walked(r)'
  BY <1>1, <1>5, <1>6 DEF Walked
<1> QED
  BY <1>0, <1>2, <1>7 DEF WalkInv

\* one that finds that there are no more,
LEMMA WalkCount ==
    ASSUME WalkInv, [Next]_vars, NEW r \in Requests, Count(r)
    PROVE  WalkInv'
<1>0. MadeInv /\ MadeInv' /\ TypeInv /\ Walked(r)
  BY MadeStep DEF WalkInv, MadeInv, WayInv
<1>1. /\ audits' = audits /\ Touches(r) /\ req[r].at = "handle" /\ req[r].route = "list_audits"
      /\ Like(req'[r], req[r])
      /\ \/ /\ Cardinality(Listed(r)) <= Offset(r)
            /\ req'[r].at = "over" /\ req'[r].answer = "ok"
         \/ req'[r].at = "page" /\ req'[r].answer = req[r].answer
  BY <1>0, CountDoes
<1>2. InFlight(r)
  BY <1>1 DEF InFlight
<1>3. CASE req'[r].at = "page"
  BY <1>1, <1>2, <1>3, WalkOn DEF Like, InFlight
<1>4. CASE /\ Cardinality(Listed(r)) <= Offset(r)
           /\ req'[r].at = "over" /\ req'[r].answer = "ok"
  <2>1. ASSUME NEW s \in Requests \ {r} PROVE Walked(s)'
    BY <1>1, WalkStays DEF Touches, Same
  <2>2. Listed(r) = Mine(r)
    BY <1>0, <1>1, ListedIsMine DEF TypeInv, Served, Handled, InFlight
  <2>3. /\ req[r].begun <= Len(audits) /\ Same(req'[r], req[r])
        /\ \A i \in Old(r) : Place(Mine(r), i) < Offset(r) => i \in req[r].shown
    BY <1>0, <1>1, <1>2 DEF Walked, Touches
  <2>4. Offset(r) \in Int /\ Mine(r) \in SUBSET Nat /\ IsFiniteSet(Mine(r))
    BY <1>0, MineFinite, PageAssumption DEF TypeInv, Request, Offset
  <2>5. Cardinality(Mine(r)) \in Nat
    BY <2>4, FS_CardinalityType
  <2>6. ASSUME NEW i \in Old(r) PROVE i \in req[r].shown
    <3>1. i \in Mine(r)
      BY DEF Old
    <3>2. Place(Mine(r), i) \in Nat /\ Place(Mine(r), i) < Cardinality(Mine(r))
      BY <2>4, <3>1, PlaceIs
    <3> QED
      BY <1>4, <2>2, <2>3, <2>4, <2>5, <3>2
  <2>7. Old(r)' = Old(r) /\ req'[r].begun = req[r].begun /\ req'[r].shown = req[r].shown
    BY <1>0, <1>1, <2>3, OldStays DEF Same, Like
  <2>8. Walked(r)'
    BY <1>1, <1>4, <2>3, <2>6, <2>7 DEF Walked, InFlight
  <2> QED
    BY <1>0, <2>1, <2>8 DEF WalkInv
<1> QED
  BY <1>1, <1>3, <1>4

\* and one that shows a page.
LEMMA WalkPage ==
    ASSUME WalkInv, [Next]_vars, NEW r \in Requests, ReadPage(r)
    PROVE  WalkInv'
<1>0. MadeInv /\ MadeInv' /\ TypeInv /\ Walked(r)
  BY MadeStep DEF WalkInv, MadeInv, WayInv
<1>1. /\ audits' = audits /\ Touches(r) /\ req[r].at = "page"
      /\ \/ /\ req'[r].at = "over" /\ req'[r].answer = "error"
            /\ req'[r].page = req[r].page /\ req'[r].shown = req[r].shown
         \/ /\ req'[r].at = "over" /\ req'[r].answer = "ok" /\ req'[r].page = req[r].page
            /\ req'[r].shown = req[r].shown \cup Page(r)
            /\ ~(Cardinality(Fetched(r)) > PageSize)
         \/ /\ req'[r].at = "authenticate" /\ req'[r].answer = req[r].answer
            /\ req'[r].page = req[r].page + 1
            /\ req'[r].shown = req[r].shown \cup Page(r)
  BY <1>0, PageDoes
<1>2. InFlight(r) /\ req[r].route = "list_audits"
  BY <1>0, <1>1 DEF InFlight, MadeInv, WayInv, Way
<1>3. Listed(r) = Mine(r)
  BY <1>0, <1>1, ListedIsMine DEF TypeInv, Served, Handled, InFlight
<1>4. /\ req[r].begun <= Len(audits) /\ Same(req'[r], req[r])
      /\ \A i \in Old(r) : Place(Mine(r), i) < Offset(r) => i \in req[r].shown
  BY <1>0, <1>1, <1>2 DEF Walked, Touches
<1>5. /\ req[r].page \in Nat /\ PageSize \in Nat /\ Offset(r) \in Nat
      /\ Mine(r) \in SUBSET Nat /\ IsFiniteSet(Mine(r))
  BY <1>0, MineFinite, PageAssumption DEF TypeInv, Request, Offset
<1>6. ASSUME NEW i \in Old(r), req'[r].shown = req[r].shown \cup Page(r),
             Place(Mine(r), i) < Offset(r) + PageSize
      PROVE  i \in req'[r].shown
  <2>1. i \in Mine(r)
    BY DEF Old
  <2>2. Place(Mine(r), i) \in Nat
    BY <1>5, <2>1, PlaceIs
  <2>3. CASE Place(Mine(r), i) < Offset(r)
    BY <1>4, <1>6, <2>3
  <2>4. CASE Offset(r) <= Place(Mine(r), i)
    <3>1. i \in Page(r)
      BY <1>3, <1>6, <2>1, <2>4 DEF Page, Window, Place
    <3> QED
      BY <1>6, <3>1
  <2> QED
    BY <1>5, <2>2, <2>3, <2>4
<1>7. /\ Old(r)' = Old(r) /\ req'[r].begun = req[r].begun /\ req'[r].route = req[r].route
      /\ \A i \in Old(r) : Place(Mine(r), i)' = Place(Mine(r), i)
  <2>1. Mine(r)' = Mine(r)
    BY <1>1, <1>4 DEF Mine, Owns, Ids, Same
  <2> QED
    BY <1>4, <2>1 DEF Old, Place, Same
<1>8. ASSUME NEW s \in Requests \ {r} PROVE Walked(s)'
  BY <1>1, WalkStays DEF Touches, Same
<1>9. CASE req'[r].at = "over" /\ req'[r].answer = "error"
  BY <1>1, <1>2, <1>9, WalkOn
<1>10. CASE /\ req'[r].at = "over" /\ req'[r].answer = "ok"
            /\ req'[r].shown = req[r].shown \cup Page(r)
            /\ ~(Cardinality(Fetched(r)) > PageSize)
  <2>1. ASSUME NEW i \in Old(r) PROVE i \in req'[r].shown
    <3>1. i \in Mine(r) /\ Place(Mine(r), i) \in Nat
      BY <1>5, PlaceIs DEF Old
    <3>2. ~(Offset(r) + PageSize <= Place(Mine(r), i))
      BY <1>3, <1>5, <1>10, <3>1, FullWindow DEF Fetched
    <3> QED
      BY <1>5, <1>6, <1>10, <3>1, <3>2
  <2>2. Walked(r)'
    BY <1>1, <1>4, <1>7, <1>10, <2>1 DEF Walked, InFlight
  <2> QED
    BY <1>0, <1>8, <2>2 DEF WalkInv
<1>11. CASE /\ req'[r].at = "authenticate" /\ req'[r].page = req[r].page + 1
            /\ req'[r].shown = req[r].shown \cup Page(r)
  <2>1. Offset(r)' = Offset(r) + PageSize
    BY <1>5, <1>11 DEF Offset
  <2>2. Walked(r)'
    BY <1>1, <1>4, <1>6, <1>7, <1>11, <2>1 DEF Walked, InFlight
  <2> QED
    BY <1>0, <1>8, <2>2 DEF WalkInv
<1> QED
  BY <1>1, <1>9, <1>10, <1>11

\* So every step keeps WalkInv.
LEMMA WalkStep == WalkInv /\ [Next]_vars => WalkInv'
<1> SUFFICES ASSUME WalkInv, [Next]_vars PROVE WalkInv'
  OBVIOUS
<1>0. MadeInv /\ MadeInv' /\ TypeInv
  BY MadeStep DEF WalkInv, MadeInv, WayInv
<1>v. ASSUME NEW r \in Requests, Visit(r) PROVE WalkInv'
  <2>1. /\ \A s \in Requests \ {r} : req'[s] = req[s]
        /\ req'[r].at = "over" /\ audits' = audits /\ Same(req'[r], req[r])
        /\ req[r].route \in DOMAIN Routes /\ ~RouteOf(r).key
    BY <1>0, <1>v, VisitDoes DEF Touches
  <2>2. req'[r].route # "list_audits"
    BY <2>1, RoutesFit DEF Same, AllFit, Fits, RouteOf, ForAnyone
  <2>3. ASSUME NEW s \in Requests \ {r} PROVE Walked(s)'
    BY <2>1, WalkStays DEF Same
  <2>4. req[r].begun = 0 /\ Len(audits') \in Nat
    BY <1>0, <1>v, VisitDoes DEF WalkInv, Walked, MadeInv, WayInv, TypeInv
  <2>5. Walked(r)'
    BY <2>1, <2>2, <2>4 DEF Walked, Same
  <2> QED
    BY <1>0, <2>3, <2>5 DEF WalkInv
<1>1. ASSUME NEW r \in Requests, Authenticate(r) \/ AuthenticateKey(r) PROVE WalkInv'
  <2>1. AfterAuthentication(r) \notin {"none", "over"}
    BY DEF AfterAuthentication, AfterDelegation
  <2> QED
    BY <1>0, <1>1, <2>1, AuthenticateDoes, WalkOn DEF InFlight
<1>2. ASSUME NEW r \in Requests, Delegate(r) PROVE WalkInv'
  <2>1. AfterDelegation(r) \notin {"none", "over"}
    BY DEF AfterDelegation
  <2> QED
    BY <1>0, <1>2, <2>1, DelegateDoes, WalkOn DEF InFlight, Like
<1>3. ASSUME NEW r \in Requests, RequireCredits(r) PROVE WalkInv'
  BY <1>0, <1>3, CreditsDo, WalkOn DEF InFlight, Like
<1>4. ASSUME NEW r \in Requests, req[r].at = "handle", req[r].route # "list_audits", Touches(r),
             req'[r].at = "over", req'[r].shown = req[r].shown, req'[r].page = req[r].page
      PROVE  WalkInv'
  <2>1. ASSUME NEW s \in Requests \ {r} PROVE Walked(s)'
    BY <1>4, WalkStays DEF Touches, Same
  <2>2. req[r].begun <= Len(audits) /\ Same(req'[r], req[r])
    BY <1>4 DEF WalkInv, Walked, Touches
  <2>3. Len(audits) <= Len(audits')
    BY <1>0, <2>2, OldStays
  <2>4. req[r].begun \in Nat /\ Len(audits) \in Nat /\ Len(audits') \in Nat
    BY <1>0 DEF MadeInv, WayInv, TypeInv, Request
  <2>5. req'[r].begun <= Len(audits') /\ req'[r].route # "list_audits"
    BY <1>4, <2>2, <2>3, <2>4 DEF Same
  <2>6. Walked(r)'
    BY <1>4, <2>5 DEF Walked
  <2> QED
    BY <1>0, <2>1, <2>6 DEF WalkInv
<1>5. ASSUME NEW r \in Requests, CreateAudit(r) PROVE WalkInv'
  BY <1>0, <1>4, <1>5, CreateDoes DEF Like
<1>6. ASSUME NEW r \in Requests, GetAudit(r) \/ GetStatus(r) \/ SubmitFeedback(r) PROVE WalkInv'
  BY <1>0, <1>4, <1>6, AskDoes
<1>7. ASSUME NEW r \in Requests, IsAdmin(r) \/ Elsewhere(r) PROVE WalkInv'
  BY <1>0, <1>4, <1>7, PlainDoes DEF Like, AuditNames
<1>8. ASSUME req' = req PROVE WalkInv'
  BY <1>0, <1>8, WalkStays DEF WalkInv, Same
<1>9. ASSUME NEW c \in Clients, Changes(c) PROVE WalkInv'
  BY <1>0, <1>8, <1>9, ChangeDoes
<1>10. CASE UNCHANGED vars
  BY <1>8, <1>10 DEF vars
<1> QED
  BY <1>1, <1>v, <1>2, <1>3, <1>5, <1>6, <1>7, <1>9, <1>10, WalkReceive, WalkCount, WalkPage
     DEF Next, Handle, Changes

(***************************************************************************)
(* A client that walks the list to its end has been shown every audit of   *)
(* its own that was there when it began, however many are created while it *)
(* walks, whatever the size of a page.                                     *)
(***************************************************************************)
THEOREM WalkComplete == Spec => []WalkMissesNothing
<1>1. Init => WalkInv
  BY MadeInit, NotBegun DEF WalkInv, Walked, InFlight
<1>2. WalkInv => WalkMissesNothing
  <2> SUFFICES ASSUME WalkInv, NEW r \in Requests, req[r].route = "list_audits",
                      req[r].at = "over", req[r].answer = "ok"
               PROVE  {i \in Listed(r) : i <= req[r].begun} \subseteq req[r].shown
    BY DEF WalkMissesNothing
  <2>1. Listed(r) = Mine(r)
    <3>1. RouteOf(r).key
      BY RoutesFit DEF WalkInv, MadeInv, WayInv, TypeInv, AllFit, Fits, RouteOf, ForAnyone
    <3> QED
      BY <3>1, ListedIsMine DEF WalkInv, Served, Handled
  <2> QED
    BY <2>1 DEF WalkInv, Walked, Old
<1> QED
  BY <1>1, <1>2, WalkStep, PTL DEF Spec
=============================================================================
