------------------------------ MODULE MCAccess ------------------------------
(***************************************************************************)
(* Instances of Access for TLC: users u (a key of his own) and w (an admin *)
(* or without a key), the first-party app f, and t, an app of w. Three     *)
(* audits are stored. One request creates an audit while another is for    *)
(* any route, a walk through the list among them, and the Auth table       *)
(* changes once; or one request is alone with three such changes.          *)
(***************************************************************************)
EXTENDS Access, TLC

CONSTANTS u, w, f, t, r1, r2

MCOwner == [a \in {t} |-> w]
Row(scope) == [key |-> 1, scope |-> scope, revoked |-> FALSE]
\* w is an admin and u may write; or w and t have no key, u may only read, and f
\* has the scope the tests give it.
MCFirst ==
    {(w :> Row("admin") @@ u :> Row("write") @@ f :> Row("write") @@ t :> Row("write")),
     (w :> NoRow @@ u :> Row("read") @@ f :> Row("admin") @@ t :> NoRow)}
MCStored == <<[user |-> u, app |-> None], [user |-> u, app |-> t], [user |-> w, app |-> t]>>

Alone     == {[routes |-> r1 :> route, changes |-> 3] : route \in DOMAIN Routes}
MCTraffic == {[routes |-> (r1 :> "create_audit") @@ (r2 :> route), changes |-> 1] :
                 route \in DOMAIN Routes} \cup Alone
Asks      == {[routes |-> (r1 :> "create_audit") @@ (r2 :> "get_audit"), changes |-> 0]}
=============================================================================
