--------------------------- MODULE AccountsProofs ---------------------------
(***************************************************************************)
(* Proofs about Accounts, for any calls, users, addresses and faults: type *)
(* correctness, which calls create twins, what becomes of the keys of a    *)
(* client, and that nothing is created without its permission.             *)
(***************************************************************************)
EXTENDS Accounts, TLAPS

(***************************************************************************)
(* What is known of one call, by its stage.                                *)
(***************************************************************************)
CallFacts(c) ==
    /\ stage[c] = "none" => body[c].kind = None
    /\ stage[c] # "none" => body[c].kind \in Kinds
    /\ body[c].kind = "user" => body[c].address \in Addresses
    /\ body[c].kind \in Kinds \ {"user", "info"} => body[c].user \in Users
    /\ body[c].kind = "info" => body[c].user \in Users \cup {None}
    /\ stage[c] \in {"info_auth", "info_app", "info_permission"} =>
        body[c].kind = "info" /\ body[c].user \in Users
    /\ client[c] # None => client[c] \in Users \cup Apps /\ body[c].kind \in KeyKinds
    /\ stage[c] \in {"auth", "save", "stored"} => client[c] # None
    /\ stage[c] \in {"check", "create"} /\ body[c].kind \in KeyKinds => client[c] # None
    /\ stage[c] = "check" => body[c].kind # "user"
    /\ address[c] # None => stage[c] = "done" /\ body[c].kind = "user"
    /\ owner[c] # None => stage[c] = "done" /\ body[c].kind = "app"
    /\ \A d \in before[c] : stage[d] \in Over

\* The users that there are at the start stay as they are.
KnownFacts == \A u \in Known : address[u] = Home[u] /\ owner[u] = None

TypeInv == TypeOK /\ KnownFacts /\ \A c \in Calls : CallFacts(c)

\* Permissions are held by users and apps.
LEMMA HoldersTyped == TypeOK => Holders \subseteq Ids \X PermissionNames
BY DEF TypeOK, Holders, Users, Apps

\* A created row adds one client.
LEMMA PermissionAdded ==
    ASSUME NEW S, NEW i, NEW p \in Permissions, perm \in [S -> Permissions],
           CreatePermission(i, p)
    PROVE  perm' \in [S \cup {i} -> Permissions]
BY DEF CreatePermission

\* What a step writes for one call has the type of what it replaces.
LEMMA FoundAnswer ==
    ASSUME answer \in [Calls -> Ids \cup {None}], NEW c \in Calls, FindUser(c)
    PROVE  answer' \in [Calls -> Ids \cup {None}]
<1>1. CASE answer' = answer
  BY <1>1
<1>2. CASE \E u \in Ids : answer' = [answer EXCEPT ![c] = u]
  <2>1. PICK u \in Ids : answer' = [answer EXCEPT ![c] = u]
    BY <1>2
  <2> QED
    BY <2>1
<1> QED
  BY <1>1, <1>2 DEF FindUser, UsersAt, Users

\* The client of a call that looks it up is a row or none.
LEMMA FoundClient ==
    ASSUME client \in [Calls -> Ids \cup {None}], NEW c \in Calls, FindClient(c),
           body[c].user \in Ids
    PROVE  client' \in [Calls -> Ids \cup {None}]
<1>1. CASE client' = client
  BY <1>1
<1>2. CASE \E i \in Ids : client' = [client EXCEPT ![c] = i]
  <2>1. PICK i \in Ids : client' = [client EXCEPT ![c] = i]
    BY <1>2
  <2> QED
    BY <2>1
<1> QED
  BY <1>1, <1>2 DEF FindClient, AppsOf, Apps

Info == [auth : BOOLEAN, app : Ids \cup {None}, key : BOOLEAN]

\* What get_info tells keeps its type when the app is read.
LEMMA AppTold ==
    ASSUME told \in [Calls -> Info], NEW c \in Calls, InfoApp(c)
    PROVE  told' \in [Calls -> Info]
<1>1. CASE told' = told
  BY <1>1
<1>2. CASE \E a \in Ids : told' = [told EXCEPT ![c].app = a, ![c].key = key[a] # None]
  <2>1. PICK a \in Ids : told' = [told EXCEPT ![c].app = a, ![c].key = key[a] # None]
    BY <1>2
  <2>2. told[c] \in Info /\ (key[a] # None) \in BOOLEAN
    OBVIOUS
  <2>3. [[told[c] EXCEPT !.app = a] EXCEPT !.key = (key[a] # None)] \in Info
    BY <2>2 DEF Info
  <2>4. told' = [told EXCEPT ![c] = [[told[c] EXCEPT !.app = a] EXCEPT !.key = (key[a] # None)]]
    BY <2>1
  <2> QED
    BY <2>3, <2>4
<1> QED
  BY <1>1, <1>2 DEF InfoApp, AppsOf, Apps

\* What get_info tells keeps its type when the key is read.
LEMMA AuthTold ==
    ASSUME told \in [Calls -> Info], NEW c \in Calls, InfoAuth(c)
    PROVE  told' \in [Calls -> Info]
<1>1. [told[c] EXCEPT !.auth = (key[body[c].user] # None)] \in Info
  <2>1. told[c] \in Info /\ (key[body[c].user] # None) \in BOOLEAN
    OBVIOUS
  <2> QED
    BY <2>1 DEF Info
<1>2. told' = [told EXCEPT ![c] = [told[c] EXCEPT !.auth = (key[body[c].user] # None)]]
  BY DEF InfoAuth
<1> QED
  BY <1>1, <1>2

\* Every step keeps the types and what is known of every call.
LEMMA TypeStep == TypeInv /\ [Next]_vars => TypeInv'
<1> SUFFICES ASSUME TypeInv, [Next]_vars PROVE TypeInv'
  OBVIOUS
<1> USE IdsAssumption, HomeAssumption, BoundsAssumption
<1> USE DEF TypeInv, KnownFacts, CallFacts, TypeOK, GoTo, tables, work, bounds, history,
            Kinds, KeyKinds, Running, Over
<1>0. /\ Users \subseteq Ids /\ Apps \subseteq Ids
      /\ address' = address => Users' = Users
      /\ owner' = owner => Apps' = Apps
  BY DEF Users, Apps
<1>1. ASSUME NEW c \in Calls, Receive(c) PROVE TypeInv'
  <2>1. Holders \subseteq Ids \X PermissionNames
    BY HoldersTyped
  <2>2. PICK b \in Bodies : body' = [body EXCEPT ![c] = b]
    BY <1>1 DEF Receive
  <2>3. /\ b \in [kind : Kinds \cup {None}, address : Addresses \cup {None},
                  user : Ids \cup {None}]
        /\ b.kind \in Kinds
        /\ b.kind = "user" => b.address \in Addresses
        /\ b.kind \in Kinds \ {"user", "info"} => b.user \in Users
        /\ b.kind = "info" => b.user \in Users \cup {None}
    <3>1. CASE b \in [kind : {"user"}, address : Addresses, user : {None}]
      BY <3>1
    <3>2. CASE b \in [kind : Kinds \ {"user"}, address : {None}, user : Users]
      BY <1>0, <3>2
    <3>3. CASE b \in [kind : {"info"}, address : {None}, user : {None}]
      BY <3>3
    <3> QED
      BY <3>1, <3>2, <3>3 DEF Bodies
  <2>4. TypeOK'
    BY <1>0, <1>1, <2>1, <2>2, <2>3 DEF Receive
  <2>5. KnownFacts'
    BY <1>1 DEF Receive
  <2>6. ASSUME NEW d \in Calls PROVE CallFacts(d)'
    <3>1. CASE d = c
      <4>1. client[c] = None /\ address[c] = None /\ owner[c] = None
        BY <1>1 DEF Receive, None
      <4> QED
        BY <1>0, <1>1, <2>2, <2>3, <3>1, <4>1 DEF Receive
    <3>2. CASE d # c
      BY <1>0, <1>1, <2>2, <3>2 DEF Receive
    <3> QED
      BY <3>1, <3>2
  <2> QED
    BY <2>4, <2>5, <2>6
<1>2. ASSUME NEW c \in Calls, Fail(c) PROVE TypeInv'
  BY <1>0, <1>2 DEF Fail
<1>3. ASSUME NEW c \in Calls, FindUser(c) PROVE TypeInv'
  <2>1. TypeOK'
    <3>1. answer' \in [Calls -> Ids \cup {None}]
      BY <1>3, FoundAnswer
    <3>2. PICK to \in {"done", "create"} : stage' = [stage EXCEPT ![c] = to]
      BY <1>3 DEF FindUser
    <3>3. UNCHANGED <<tables, body, client, told, bounds, history>>
      BY <1>3 DEF FindUser
    <3> QED
      BY <1>0, <3>1, <3>2, <3>3
  <2>2. KnownFacts'
    BY <1>3 DEF FindUser
  <2>3. ASSUME NEW d \in Calls PROVE CallFacts(d)'
    BY <1>0, <1>3 DEF FindUser
  <2> QED
    BY <2>1, <2>2, <2>3
<1>4. ASSUME NEW c \in Calls, CreateUser(c) PROVE TypeInv'
  <2>1. Users' = Users \cup {c} /\ Apps' = Apps
    BY <1>4 DEF CreateUser, Users, Apps, Ids
  <2>2. perm' \in [(Users \cup Apps) \cup {c} -> Permissions]
    BY <1>4, PermissionAdded DEF CreateUser, NoPermission, Permissions
  <2>3. TypeOK'
    BY <1>4, <2>1, <2>2 DEF CreateUser, Ids
  <2>4. KnownFacts'
    BY <1>4 DEF CreateUser
  <2>5. ASSUME NEW d \in Calls PROVE CallFacts(d)'
    BY <1>4, <2>1 DEF CreateUser
  <2> QED
    BY <2>3, <2>4, <2>5
<1>5. ASSUME NEW c \in Calls, FindApp(c) PROVE TypeInv'
  BY <1>0, <1>5 DEF FindApp
<1>6. ASSUME NEW c \in Calls, CheckApp(c) PROVE TypeInv'
  BY <1>0, <1>6 DEF CheckApp
<1>7. ASSUME NEW c \in Calls, CreateApp(c) PROVE TypeInv'
  <2> DEFINE granted == [NoPermission EXCEPT !["can_create_api_key"] = TRUE]
  <2>1. Users' = Users /\ Apps' = Apps \cup {c}
    BY <1>0, <1>7 DEF CreateApp, Users, Apps, Ids
  <2>2. granted \in Permissions
    BY DEF NoPermission, Permissions
  <2>3. perm' \in [(Users \cup Apps) \cup {c} -> Permissions]
    BY <1>7, <2>2, PermissionAdded DEF CreateApp
  <2>4. Holders' \subseteq Ids \X PermissionNames
    BY <1>0, <2>1, <2>3 DEF Holders, Ids
  <2>5. TypeOK'
    BY <1>0, <1>7, <2>1, <2>3, <2>4 DEF CreateApp, NotePermissions
  <2>6. KnownFacts'
    BY <1>7 DEF CreateApp
  <2>7. ASSUME NEW d \in Calls PROVE CallFacts(d)'
    BY <1>0, <1>7, <2>1 DEF CreateApp
  <2> QED
    BY <2>5, <2>6, <2>7
<1>8. ASSUME NEW c \in Calls, FindClient(c) PROVE TypeInv'
  <2>1. TypeOK'
    <3>1. client' \in [Calls -> Ids \cup {None}]
      <4>1. body[c].user \in Ids
        BY <1>0, <1>8 DEF FindClient
      <4> QED
        BY <1>8, <4>1, FoundClient
    <3>2. PICK to \in {"auth", "error"} : stage' = [stage EXCEPT ![c] = to]
      BY <1>8 DEF FindClient
    <3>3. UNCHANGED <<tables, body, answer, told, bounds, history>>
      BY <1>8 DEF FindClient
    <3> QED
      BY <1>0, <3>1, <3>2, <3>3
  <2>2. KnownFacts'
    BY <1>8 DEF FindClient
  <2>4. PICK to \in {"auth", "error"} : stage' = [stage EXCEPT ![c] = to]
    BY <1>8 DEF FindClient
  <2>5. /\ stage[c] = "look" /\ body[c].kind \in KeyKinds
        /\ UNCHANGED <<tables, body, answer, told, bounds, history>>
        /\ \/ client' = client /\ to = "error"
           \/ \E i \in Users \cup Apps : client' = [client EXCEPT ![c] = i]
    BY <1>8, <2>4 DEF FindClient, AppsOf
  <2>3. ASSUME NEW d \in Calls PROVE CallFacts(d)'
    <3>1. CASE d = c
      BY <1>0, <2>4, <2>5, <3>1
    <3>2. CASE d # c
      BY <1>0, <2>4, <2>5, <3>2
    <3> QED
      BY <3>1, <3>2
  <2> QED
    BY <2>1, <2>2, <2>3
<1>9. ASSUME NEW c \in Calls, FindAuth(c) PROVE TypeInv'
  BY <1>0, <1>9 DEF FindAuth
<1>10. ASSUME NEW c \in Calls, SaveKey(c) PROVE TypeInv'
  BY <1>0, <1>10 DEF SaveKey
<1>11. ASSUME NEW c \in Calls, CheckKey(c) PROVE TypeInv'
  BY <1>0, <1>11 DEF CheckKey
<1>12. ASSUME NEW c \in Calls, CreateKey(c) PROVE TypeInv'
  <2>0. client[c] \in Ids /\ client[c] # None
    BY <1>0, <1>12 DEF CreateKey
  <2>1. key' \in [Ids -> Calls \cup {None}]
    <3>1. key \in [Ids -> Calls \cup {None}]
      OBVIOUS
    <3>2. key' = key \/ key' = [key EXCEPT ![client[c]] = c]
      BY Zenon, <1>12 DEF CreateKey
    <3> QED
      BY Zenon, <2>0, <3>1, <3>2
  <2>2. PICK to \in {"stored", "error"} : stage' = [stage EXCEPT ![c] = to]
    BY <1>12 DEF CreateKey
  <2>3. TypeOK'
    BY <1>0, <1>12, <2>1, <2>2 DEF CreateKey
  <2>4. KnownFacts'
    BY <1>12 DEF CreateKey
  <2>5. ASSUME NEW d \in Calls PROVE CallFacts(d)'
    <3>1. CASE d = c
      BY <1>0, <1>12, <2>0, <2>2, <3>1 DEF CreateKey
    <3>2. CASE d # c
      BY <1>0, <1>12, <2>2, <3>2 DEF CreateKey
    <3> QED
      BY <3>1, <3>2
  <2> QED
    BY <2>3, <2>4, <2>5
<1>13. ASSUME NEW c \in Calls, DeliverKey(c) PROVE TypeInv'
  BY <1>0, <1>13 DEF DeliverKey
<1>14. ASSUME NEW u \in Ids, UpdatePermissions(u) PROVE TypeInv'
  <2>1. perm' \in [Users \cup Apps -> Permissions]
    BY <1>14 DEF UpdatePermissions, Permissions
  <2>2. Holders' \subseteq Ids \X PermissionNames
    BY <1>0, <2>1 DEF Holders
  <2>3. TypeOK'
    BY <1>0, <1>14, <2>1, <2>2 DEF UpdatePermissions, NotePermissions
  <2> QED
    BY <1>0, <1>14, <2>3 DEF UpdatePermissions
<1>15. ASSUME UNCHANGED vars PROVE TypeInv'
  BY <1>0, <1>15 DEF vars
<1>16. ASSUME NEW c \in Calls, get_info(c) PROVE TypeInv'
  <2>1. PICK to \in {"info_auth", "info_app", "info_permission", "done", "missing"} :
            stage' = [stage EXCEPT ![c] = to]
    BY <1>16 DEF get_info, InfoUser, InfoAuth, InfoApp, InfoPermission
  <2>2. UNCHANGED <<tables, body, client, answer, bounds, history>>
    BY <1>16 DEF get_info, InfoUser, InfoAuth, InfoApp, InfoPermission
  <2>3. told' \in [Calls -> Info]
    <3>1. told \in [Calls -> Info]
      BY DEF Info
    <3>2. CASE InfoApp(c)
      BY <3>1, <3>2, AppTold
    <3>3. CASE InfoAuth(c)
      BY <3>1, <3>3, AuthTold
    <3>4. CASE InfoUser(c) \/ InfoPermission(c)
      BY <3>1, <3>4 DEF InfoUser, InfoPermission
    <3> QED
      BY <1>16, <3>2, <3>3, <3>4 DEF get_info
  <2>4. stage[c] \in Running /\ body[c].kind = "info"
        /\ (to \in {"info_auth", "info_app", "info_permission"} => body[c].user \in Users)
    BY <1>16, <2>1 DEF get_info, InfoUser, InfoAuth, InfoApp, InfoPermission
  <2>5. TypeOK'
    BY <1>0, <2>1, <2>2, <2>3 DEF Info
  <2>6. ASSUME NEW d \in Calls PROVE CallFacts(d)'
    BY <1>0, <2>1, <2>2, <2>4
  <2> QED
    BY <2>2, <2>5, <2>6
<1> QED
  BY <1>1, <1>2, <1>3, <1>4, <1>5, <1>6, <1>7, <1>8, <1>9, <1>10, <1>11, <1>12, <1>13,
     <1>14, <1>15, <1>16 DEF Next

\* The types hold at the start.
LEMMA TypeInit == Init => TypeInv
<1> SUFFICES ASSUME Init PROVE TypeInv
  OBVIOUS
<1> USE IdsAssumption, HomeAssumption, BoundsAssumption DEF Init
<1>1. Users = Known /\ Apps = {}
  BY DEF Users, Apps, Ids
<1>2. TypeOK
  BY <1>1 DEF TypeOK, NoBody, NoInfo, NoPermission, Permissions, Ids
<1>3. KnownFacts
  BY DEF KnownFacts, Ids
<1>4. ASSUME NEW c \in Calls PROVE CallFacts(c)
  BY DEF CallFacts, NoBody, Kinds, KeyKinds, Ids, None
<1> QED
  BY <1>2, <1>3, <1>4 DEF TypeInv

\* TypeInv is an invariant.
LEMMA TypeInvariant == Spec => []TypeInv
<1>1. Init => TypeInv
  BY TypeInit
<1>2. TypeInv /\ [Next]_vars => TypeInv'
  BY TypeStep
<1> QED
  BY <1>1, <1>2, PTL DEF Spec

(***************************************************************************)
(* Every table, call and counter keeps its type, and exactly the users and *)
(* the apps have a Permission row (both are created in one transaction).   *)
(***************************************************************************)
THEOREM TypeCorrect == Spec => []TypeOK
<1>1. TypeInv => TypeOK
  BY DEF TypeInv
<1> QED
  BY <1>1, TypeInvariant, PTL

(***************************************************************************)
(* The keys of a client. A call that was given a key, or is about to be,   *)
(* was begun before the call that made the key that works was over.        *)
(***************************************************************************)
KeyOf(c) == stage[c] \in {"stored", "done"} /\ client[c] # None =>
                key[client[c]] \in Calls \ before[c]

\* Every step keeps the keys of the calls that were given one.
LEMMA KeyStep ==
    TypeInv /\ (\A c \in Calls : KeyOf(c)) /\ [Next]_vars => (\A c \in Calls : KeyOf(c))'
<1> SUFFICES ASSUME TypeInv, \A c \in Calls : KeyOf(c), [Next]_vars, NEW d \in Calls
             PROVE  KeyOf(d)'
  OBVIOUS
<1> USE IdsAssumption DEF KeyOf, TypeInv, CallFacts, TypeOK, GoTo, tables, work, bounds,
                          history, Kinds, KeyKinds, Running, Over
<1>1. ASSUME NEW c \in Calls, Receive(c) PROVE KeyOf(d)'
  BY <1>1 DEF Receive
<1>2. ASSUME NEW c \in Calls, Fail(c) PROVE KeyOf(d)'
  BY <1>2 DEF Fail
<1>3. ASSUME NEW c \in Calls, FindUser(c) \/ CreateUser(c) PROVE KeyOf(d)'
  BY <1>3 DEF FindUser, CreateUser
<1>4. ASSUME NEW c \in Calls, FindApp(c) \/ CheckApp(c) \/ CreateApp(c) PROVE KeyOf(d)'
  BY <1>4 DEF FindApp, CheckApp, CreateApp
<1>5. ASSUME NEW c \in Calls, FindClient(c) PROVE KeyOf(d)'
  BY <1>5 DEF FindClient
<1>6. ASSUME NEW c \in Calls, FindAuth(c) \/ CheckKey(c) \/ DeliverKey(c) PROVE KeyOf(d)'
  BY <1>6 DEF FindAuth, CheckKey, DeliverKey
<1>7. ASSUME NEW c \in Calls, SaveKey(c) \/ CreateKey(c) PROVE KeyOf(d)'
  <2>1. c \notin before[d]
    BY <1>7 DEF SaveKey, CreateKey
  <2>2. client[c] \in Ids /\ (client[d] # None => client[d] \in Ids)
    BY <1>7 DEF SaveKey, CreateKey
  <2>3. CASE SaveKey(c)
    BY <2>1, <2>2, <2>3 DEF SaveKey
  <2>4. CASE CreateKey(c)
    BY <2>1, <2>2, <2>4 DEF CreateKey
  <2> QED
    BY <1>7, <2>3, <2>4
<1>8. ASSUME NEW u \in Ids, UpdatePermissions(u) PROVE KeyOf(d)'
  BY <1>8 DEF UpdatePermissions
<1>9. ASSUME UNCHANGED vars PROVE KeyOf(d)'
  BY <1>9 DEF vars
<1>10. ASSUME NEW c \in Calls, get_info(c) PROVE KeyOf(d)'
  BY <1>10 DEF get_info, InfoUser, InfoAuth, InfoApp, InfoPermission
<1> QED
  BY <1>1, <1>2, <1>3, <1>4, <1>5, <1>6, <1>7, <1>8, <1>9, <1>10 DEF Next

(***************************************************************************)
(* No key that was given before another one of the same client still works *)
(* (AuthService.generate, "regenerate").                                   *)
(***************************************************************************)
THEOREM OldKeys == Spec => []OldKeysStayDead
<1> DEFINE KeyInv == TypeInv /\ \A c \in Calls : KeyOf(c)
<1>1. Init => KeyInv
  BY TypeInit DEF Init, KeyOf
<1>2. KeyInv /\ [Next]_vars => KeyInv'
  BY TypeStep, KeyStep
<1>3. KeyInv => OldKeysStayDead
  BY DEF KeyOf, OldKeysStayDead
<1> QED
  BY <1>1, <1>2, <1>3, PTL DEF Spec

(***************************************************************************)
(* A call that found no row of its client, and the key that is there now.  *)
(***************************************************************************)
ForeignKey(c) == key[client[c]] \in Calls \ (before[c] \cup {c})

Collides(c) ==
    /\ stage[c] = "look" => client[c] = None
    /\ stage[c] \in {"check", "create"} /\ body[c].kind \in KeyKinds
        /\ key[client[c]] # None => ForeignKey(c)
    /\ stage[c] = "error" /\ client[c] # None => ForeignKey(c)

\* A row that appears after a call looked was made by a call still running.
LEMMA CollisionStep ==
    TypeInv /\ (\A c \in Calls : Collides(c)) /\ [Next]_vars => (\A c \in Calls : Collides(c))'
<1> SUFFICES ASSUME TypeInv, \A c \in Calls : Collides(c), [Next]_vars, NEW d \in Calls
             PROVE  Collides(d)'
  OBVIOUS
<1> USE IdsAssumption DEF Collides, ForeignKey, TypeInv, CallFacts, TypeOK, GoTo, tables, work,
                          bounds, history, Kinds, KeyKinds, Running, Over
<1>1. ASSUME NEW c \in Calls, Receive(c) PROVE Collides(d)'
  <2>1. client[c] = None
    BY <1>1 DEF Receive, None
  <2> QED
    BY <1>1, <2>1 DEF Receive
<1>2. ASSUME NEW c \in Calls, Fail(c) PROVE Collides(d)'
  BY <1>2 DEF Fail
<1>3. ASSUME NEW c \in Calls, FindUser(c) \/ CreateUser(c) PROVE Collides(d)'
  BY <1>3 DEF FindUser, CreateUser
<1>4. ASSUME NEW c \in Calls, FindApp(c) \/ CheckApp(c) \/ CreateApp(c) PROVE Collides(d)'
  BY <1>4 DEF FindApp, CheckApp, CreateApp
<1>5. ASSUME NEW c \in Calls, FindClient(c) PROVE Collides(d)'
  BY <1>5 DEF FindClient
<1>6. ASSUME NEW c \in Calls, FindAuth(c) \/ CheckKey(c) \/ DeliverKey(c) PROVE Collides(d)'
  BY <1>6 DEF FindAuth, CheckKey, DeliverKey
<1>7. ASSUME NEW c \in Calls, SaveKey(c) \/ CreateKey(c) PROVE Collides(d)'
  <2>1. c \notin before[d]
    BY <1>7 DEF SaveKey, CreateKey
  <2>2. client[c] \in Ids /\ (client[d] # None => client[d] \in Ids)
    BY <1>7 DEF SaveKey, CreateKey
  <2>3. CASE SaveKey(c)
    BY <2>1, <2>2, <2>3 DEF SaveKey
  <2>4. CASE CreateKey(c)
    <3>1. CASE d = c
      BY <2>2, <2>4, <3>1 DEF CreateKey
    <3>2. CASE d # c
      <4>1. stage'[d] = stage[d]
        BY <2>4, <3>2 DEF CreateKey
      <4>2. key' = key \/ key' = [key EXCEPT ![client[c]] = c]
        BY <2>4 DEF CreateKey
      <4> QED
        BY <2>1, <2>2, <2>4, <3>2, <4>1, <4>2 DEF CreateKey
    <3> QED
      BY <3>1, <3>2
  <2> QED
    BY <1>7, <2>3, <2>4
<1>8. ASSUME NEW u \in Ids, UpdatePermissions(u) PROVE Collides(d)'
  BY <1>8 DEF UpdatePermissions
<1>9. ASSUME UNCHANGED vars PROVE Collides(d)'
  BY <1>9 DEF vars
<1>10. ASSUME NEW c \in Calls, get_info(c) PROVE Collides(d)'
  BY <1>10 DEF get_info, InfoUser, InfoAuth, InfoApp, InfoPermission
<1> QED
  BY <1>1, <1>2, <1>3, <1>4, <1>5, <1>6, <1>7, <1>8, <1>9, <1>10 DEF Next

(***************************************************************************)
(* A call that fails because the Auth row was created meanwhile leaves the *)
(* client with a key of a call it overlapped (Auth.user is unique).        *)
(***************************************************************************)
THEOREM Collision == Spec => []CollisionHasWinner
<1> DEFINE CollisionInv == TypeInv /\ \A c \in Calls : Collides(c)
<1>1. Init => CollisionInv
  BY TypeInit DEF Init, Collides
<1>2. CollisionInv /\ [Next]_vars => CollisionInv'
  BY TypeStep, CollisionStep
<1>3. CollisionInv => CollisionHasWinner
  BY DEF Collides, ForeignKey, CollisionHasWinner
<1> QED
  BY <1>1, <1>2, <1>3, PTL DEF Spec

(***************************************************************************)
(* The permissions a call relies on, and has seen.                         *)
(***************************************************************************)
Relies(c) ==
    /\ stage[c] \in Running => Holders \subseteq could[c]
    /\ stage[c] = "create" /\ body[c].kind = "app" =>
        <<body[c].user, "can_create_app">> \in could[c]
    /\ stage[c] = "create" /\ body[c].kind \in KeyKinds =>
        <<client[c], "can_create_api_key">> \in could[c]
    /\ stage[c] = "save" => key[client[c]] # None

\* A permission is held as it is in its row.
LEMMA HeldAsGranted ==
    ASSUME TypeOK, NEW i \in Users \cup Apps, NEW p \in PermissionNames, has_permission(i, p)
    PROVE  <<i, p>> \in Holders
BY DEF TypeOK, Holders, has_permission

\* A new user holds nothing.
LEMMA NewUserHoldsNothing ==
    ASSUME TypeInv, NEW c \in Calls, CreateUser(c)
    PROVE  Holders' \subseteq Holders
<1>1. perm \in [Users \cup Apps -> Permissions]
  BY DEF TypeInv, TypeOK
<1>2. /\ DOMAIN perm' = DOMAIN perm \cup {c}
      /\ perm'[c] = NoPermission
      /\ \A j \in DOMAIN perm \ {c} : perm'[j] = perm[j]
  BY <1>1 DEF CreateUser, CreatePermission
<1>3. \A p \in PermissionNames : ~NoPermission[p]
  BY DEF NoPermission
<1> QED
  BY <1>2, <1>3 DEF Holders

\* Every step keeps what a call relies on.
LEMMA RelianceStep ==
    TypeInv /\ (\A c \in Calls : Relies(c)) /\ [Next]_vars => (\A c \in Calls : Relies(c))'
<1> SUFFICES ASSUME TypeInv, \A c \in Calls : Relies(c), [Next]_vars, NEW d \in Calls
             PROVE  Relies(d)'
  OBVIOUS
<1>0. perm' = perm => Holders' = Holders
  BY DEF Holders
<1> USE IdsAssumption DEF Relies, TypeInv, CallFacts, TypeOK, GoTo, tables, work, bounds,
                          history, Kinds, KeyKinds, Running, Over
<1>1. ASSUME NEW c \in Calls, Receive(c) PROVE Relies(d)'
  BY <1>0, <1>1 DEF Receive
<1>2. ASSUME NEW c \in Calls, Fail(c) PROVE Relies(d)'
  BY <1>0, <1>2 DEF Fail
<1>3. ASSUME NEW c \in Calls, FindUser(c) PROVE Relies(d)'
  BY <1>0, <1>3 DEF FindUser
<1>4. ASSUME NEW c \in Calls, CreateUser(c) PROVE Relies(d)'
  BY <1>4, NewUserHoldsNothing DEF CreateUser
<1>5. ASSUME NEW c \in Calls, FindApp(c) PROVE Relies(d)'
  BY <1>0, <1>5 DEF FindApp
<1>6. ASSUME NEW c \in Calls, CheckApp(c) PROVE Relies(d)'
  <2>1. stage'[c] = "create" => <<body[c].user, "can_create_app">> \in Holders
    BY <1>6, HeldAsGranted DEF CheckApp, PermissionNames
  <2> QED
    BY <1>0, <1>6, <2>1 DEF CheckApp
<1>7. ASSUME NEW c \in Calls, CreateApp(c) PROVE Relies(d)'
  BY <1>7 DEF CreateApp, NotePermissions
<1>8. ASSUME NEW c \in Calls, FindClient(c) PROVE Relies(d)'
  <2>1. PICK to \in {"auth", "error"} : stage' = [stage EXCEPT ![c] = to]
    BY <1>8 DEF FindClient
  <2>2. \A e \in Calls \ {c} : client'[e] = client[e]
    BY <1>8 DEF FindClient
  <2> QED
    BY <1>0, <1>8, <2>1, <2>2 DEF FindClient
<1>9. ASSUME NEW c \in Calls, FindAuth(c) \/ DeliverKey(c) PROVE Relies(d)'
  BY <1>0, <1>9 DEF FindAuth, DeliverKey
<1>10. ASSUME NEW c \in Calls, CheckKey(c) PROVE Relies(d)'
  <2>1. stage'[c] = "create" => <<client[c], "can_create_api_key">> \in Holders
    BY <1>10, HeldAsGranted DEF CheckKey, MayHaveKey, PermissionNames
  <2> QED
    BY <1>0, <1>10, <2>1 DEF CheckKey
<1>11. ASSUME NEW c \in Calls, SaveKey(c) PROVE Relies(d)'
  BY <1>0, <1>11, c # None DEF SaveKey, Ids
<1>12. ASSUME NEW c \in Calls, CreateKey(c) PROVE Relies(d)'
  <2>1. key' = key \/ key' = [key EXCEPT ![client[c]] = c]
    BY <1>12 DEF CreateKey
  <2>2. PICK to \in {"stored", "error"} : stage' = [stage EXCEPT ![c] = to]
    BY <1>12 DEF CreateKey
  <2> QED
    BY <1>0, <1>12, <2>1, <2>2 DEF CreateKey, Ids
<1>13. ASSUME NEW u \in Ids, UpdatePermissions(u) PROVE Relies(d)'
  BY <1>13 DEF UpdatePermissions, NotePermissions
<1>14. ASSUME UNCHANGED vars PROVE Relies(d)'
  BY <1>0, <1>14 DEF vars
<1>15. ASSUME NEW c \in Calls, get_info(c) PROVE Relies(d)'
  <2>1. PICK to \in {"info_auth", "info_app", "info_permission", "done", "missing"} :
            stage' = [stage EXCEPT ![c] = to]
    BY <1>15 DEF get_info, InfoUser, InfoAuth, InfoApp, InfoPermission
  <2>2. stage[c] \in Running
    BY <1>15 DEF get_info, InfoUser, InfoAuth, InfoApp, InfoPermission
  <2>3. UNCHANGED <<tables, body, client, history>>
    BY <1>15 DEF get_info, InfoUser, InfoAuth, InfoApp, InfoPermission
  <2> QED
    BY <1>0, <2>1, <2>2, <2>3
<1> QED
  BY <1>1, <1>2, <1>3, <1>4, <1>5, <1>6, <1>7, <1>8, <1>9, <1>10, <1>11, <1>12, <1>13,
     <1>14, <1>15 DEF Next

\* A step that creates an app or a first key relies on what the call has seen.
LEMMA CreationStep ==
    TypeInv /\ (\A c \in Calls : Relies(c)) /\ [Next]_vars =>
        \A i \in Ids :
            /\ owner[i] = None /\ owner'[i] # None
                => <<owner'[i], "can_create_app">> \in could[i]
            /\ key[i] = None /\ key'[i] # None
                => <<i, "can_create_api_key">> \in could[key'[i]]
<1> SUFFICES ASSUME TypeInv, \A c \in Calls : Relies(c), [Next]_vars, NEW i \in Ids
             PROVE  /\ owner[i] = None /\ owner'[i] # None
                        => <<owner'[i], "can_create_app">> \in could[i]
                    /\ key[i] = None /\ key'[i] # None
                        => <<i, "can_create_api_key">> \in could[key'[i]]
  OBVIOUS
<1> USE DEF Relies, TypeInv, TypeOK, tables
<1>1. ASSUME NEW c \in Calls,
             Receive(c) \/ Fail(c) \/ FindUser(c) \/ CreateUser(c) \/ FindApp(c)
                \/ CheckApp(c) \/ FindClient(c) \/ FindAuth(c) \/ CheckKey(c) \/ DeliverKey(c)
                \/ get_info(c)
      PROVE  owner' = owner /\ key' = key
  BY <1>1 DEF Receive, Fail, FindUser, CreateUser, FindApp, CheckApp, FindClient, FindAuth,
              CheckKey, DeliverKey, get_info, InfoUser, InfoAuth, InfoApp, InfoPermission
<1>2. ASSUME NEW u \in Ids, UpdatePermissions(u) PROVE owner' = owner /\ key' = key
  BY <1>2 DEF UpdatePermissions
<1>3. CASE UNCHANGED vars
  BY <1>3 DEF vars
<1>4. CASE owner' = owner /\ key' = key
  BY <1>4
<1>5. CASE \E c \in Calls : CreateApp(c)
  BY <1>5 DEF CreateApp
<1>6. CASE \E c \in Calls : SaveKey(c)
  BY <1>6 DEF SaveKey
<1>7. CASE \E c \in Calls : CreateKey(c)
  <2>1. PICK c \in Calls : CreateKey(c)
    BY <1>7
  <2>2. key' = key \/ key' = [key EXCEPT ![client[c]] = c]
    BY <2>1 DEF CreateKey
  <2> QED
    BY <2>1, <2>2 DEF CreateKey
<1> QED
  BY <1>1, <1>2, <1>3, <1>4, <1>5, <1>6, <1>7 DEF Next

(***************************************************************************)
(* An app, and the first key of a client, comes only from a call during    *)
(* which the permission for it was there.                                  *)
(***************************************************************************)
THEOREM CreatedWith == Spec => CreatedWithPermission
<1> DEFINE Reliance == TypeInv /\ \A c \in Calls : Relies(c)
<1>1. Init => Reliance
  BY TypeInit DEF Init, Relies, Running
<1>2. Reliance /\ [Next]_vars => Reliance'
  BY TypeStep, RelianceStep
<1>3. Reliance /\ [Next]_vars =>
        [\A i \in Ids :
            /\ owner[i] = None /\ owner'[i] # None
                => <<owner'[i], "can_create_app">> \in could[i]
            /\ key[i] = None /\ key'[i] # None
                => <<i, "can_create_api_key">> \in could[key'[i]]]_vars
  BY CreationStep
<1> QED
  BY <1>1, <1>2, <1>3, PTL DEF Spec, CreatedWithPermission

(***************************************************************************)
(* Twins. What a call that found no user, or no app, knows of those that   *)
(* appeared since: calls made them that were not over when it began.       *)
(***************************************************************************)
Meanwhile(c, i) == i \in Calls /\ ~Sequential(c, i)

Twins(c) ==
    /\ stage[c] = "create" /\ body[c].kind = "user" =>
        \A u \in UsersAt(body[c].address) : Meanwhile(c, u)
    /\ stage[c] \in {"check", "create"} /\ body[c].kind = "app" =>
        \A a \in AppsOf(body[c].user) : Meanwhile(c, a)

TwinInv == TypeInv /\ (\A c \in Calls : Twins(c)) /\ TwinsOnlyByOverlap

\* Every step keeps it.
LEMMA TwinStep == TwinInv /\ [Next]_vars => TwinInv'
<1> SUFFICES ASSUME TwinInv, [Next]_vars PROVE (\A c \in Calls : Twins(c))' /\ TwinsOnlyByOverlap'
  BY TypeStep DEF TwinInv
<1> USE IdsAssumption DEF TwinInv, Twins, Meanwhile, Sequential, TwinsOnlyByOverlap, TypeInv,
                          CallFacts, TypeOK, GoTo, tables, work, bounds, history, Kinds, KeyKinds,
                          Running, Over
<1> DEFINE Goal == (\A c \in Calls : Twins(c))' /\ TwinsOnlyByOverlap'
<1>0. /\ address' = address => Users' = Users /\ \A a : UsersAt(a)' = UsersAt(a)
      /\ owner' = owner => Apps' = Apps /\ \A u : AppsOf(u)' = AppsOf(u)
  BY DEF Users, Apps, UsersAt, AppsOf
<1>1. ASSUME NEW c \in Calls, Receive(c) PROVE Goal
  <2>1. address[c] = None /\ owner[c] = None
    BY <1>1 DEF Receive, None
  <2>2. \A i \in Calls, j \in Calls : i # c /\ j # c => (Sequential(i, j)' <=> Sequential(i, j))
    BY <1>1 DEF Receive
  <2>3. c \notin Users /\ c \notin Apps
    BY <2>1 DEF Users, Apps
  <2>4. TwinsOnlyByOverlap'
    BY <1>0, <1>1, <2>1, <2>2, <2>3 DEF Receive, Users, Apps
  <2>5. ASSUME NEW d \in Calls PROVE Twins(d)'
    BY <1>0, <1>1, <2>2, <2>3 DEF Receive, UsersAt, AppsOf
  <2> QED
    BY <2>4, <2>5
<1>2. ASSUME NEW c \in Calls, Fail(c) PROVE Goal
  BY <1>0, <1>2 DEF Fail
<1>3. ASSUME NEW c \in Calls, FindUser(c) PROVE Goal
  <2>1. TwinsOnlyByOverlap'
    BY <1>0, <1>3 DEF FindUser
  <2>2. PICK to \in {"done", "create"} : stage' = [stage EXCEPT ![c] = to]
    BY <1>3 DEF FindUser
  <2>3. to = "create" => UsersAt(body[c].address) = {}
    BY <1>3, <2>2 DEF FindUser
  <2>4. ASSUME NEW d \in Calls PROVE Twins(d)'
    <3>1. CASE d = c
      BY <1>0, <1>3, <2>2, <2>3, <3>1 DEF FindUser
    <3>2. CASE d # c
      BY <1>0, <1>3, <2>2, <3>2 DEF FindUser
    <3> QED
      BY <3>1, <3>2
  <2> QED
    BY <2>1, <2>4
<1>4. ASSUME NEW c \in Calls, CreateUser(c) PROVE Goal
  <2>1. \A d \in Calls : stage[d] \in Running => ~Sequential(d, c)
    BY <1>4 DEF CreateUser
  <2>2. address[c] = None /\ owner[c] = None /\ body[c].address # None
    BY <1>4 DEF CreateUser, None
  <2>3. ASSUME NEW d \in Calls PROVE Twins(d)'
    BY <1>0, <1>4, <2>1 DEF CreateUser, UsersAt, Users, Ids
  <2>4. TwinsOnlyByOverlap'
    BY <1>0, <1>4, <2>1, <2>2 DEF CreateUser, UsersAt, Users, Ids
  <2> QED
    BY <2>3, <2>4
<1>5. ASSUME NEW c \in Calls, FindApp(c) PROVE Goal
  <2>1. TwinsOnlyByOverlap'
    BY <1>0, <1>5 DEF FindApp
  <2>2. ASSUME NEW d \in Calls PROVE Twins(d)'
    <3>1. CASE d = c
      BY <1>0, <1>5, <3>1 DEF FindApp
    <3>2. CASE d # c
      BY <1>0, <1>5, <3>2 DEF FindApp
    <3> QED
      BY <3>1, <3>2
  <2> QED
    BY <2>1, <2>2
<1>6. ASSUME NEW c \in Calls, CheckApp(c) PROVE Goal
  BY <1>0, <1>6 DEF CheckApp
<1>7. ASSUME NEW c \in Calls, CreateApp(c) PROVE Goal
  <2>1. \A d \in Calls : stage[d] \in Running => ~Sequential(d, c)
    BY <1>7 DEF CreateApp
  <2>2. address[c] = None /\ owner[c] = None /\ body[c].user # None
    BY <1>7 DEF CreateApp, Users, None
  <2>3. ASSUME NEW d \in Calls PROVE Twins(d)'
    BY <1>0, <1>7, <2>1 DEF CreateApp, AppsOf, Apps, Ids
  <2>4. TwinsOnlyByOverlap'
    BY <1>0, <1>7, <2>1, <2>2 DEF CreateApp, AppsOf, Apps, Ids
  <2> QED
    BY <2>3, <2>4
<1>8. ASSUME NEW c \in Calls, FindClient(c) PROVE Goal
  <2>1. PICK to \in {"auth", "error"} : stage' = [stage EXCEPT ![c] = to]
    BY <1>8 DEF FindClient
  <2>2. UNCHANGED <<tables, body, answer, told, bounds, history>>
    BY <1>8 DEF FindClient
  <2> QED
    BY <1>0, <2>1, <2>2
<1>9. ASSUME NEW c \in Calls, FindAuth(c) \/ SaveKey(c) \/ CheckKey(c) \/ DeliverKey(c) PROVE Goal
  <2>1. TwinsOnlyByOverlap'
    BY <1>0, <1>9 DEF FindAuth, SaveKey, CheckKey, DeliverKey
  <2>2. body[c].kind \in KeyKinds \/ stage[c] = "stored"
    BY <1>9 DEF FindAuth, SaveKey, CheckKey, DeliverKey
  <2>3. ASSUME NEW d \in Calls PROVE Twins(d)'
    <3>1. CASE d = c
      BY <1>0, <1>9, <2>2, <3>1 DEF FindAuth, SaveKey, CheckKey, DeliverKey
    <3>2. CASE d # c
      BY <1>0, <1>9, <3>2 DEF FindAuth, SaveKey, CheckKey, DeliverKey
    <3> QED
      BY <3>1, <3>2
  <2> QED
    BY <2>1, <2>3
<1>10. ASSUME NEW c \in Calls, CreateKey(c) PROVE Goal
  <2>1. TwinsOnlyByOverlap'
    BY <1>0, <1>10 DEF CreateKey
  <2>2. ASSUME NEW d \in Calls PROVE Twins(d)'
    <3>1. CASE d = c
      BY <1>0, <1>10, <3>1 DEF CreateKey
    <3>2. CASE d # c
      BY <1>0, <1>10, <3>2 DEF CreateKey
    <3> QED
      BY <3>1, <3>2
  <2> QED
    BY <2>1, <2>2
<1>11. ASSUME NEW u \in Ids, UpdatePermissions(u) PROVE Goal
  BY <1>0, <1>11 DEF UpdatePermissions
<1>12. ASSUME UNCHANGED vars PROVE Goal
  BY <1>0, <1>12 DEF vars
<1>13. ASSUME NEW c \in Calls, get_info(c) PROVE Goal
  <2>1. TwinsOnlyByOverlap'
    BY <1>0, <1>13 DEF get_info, InfoUser, InfoAuth, InfoApp, InfoPermission
  <2>2. ASSUME NEW d \in Calls PROVE Twins(d)'
    BY <1>0, <1>13 DEF get_info, InfoUser, InfoAuth, InfoApp, InfoPermission
  <2> QED
    BY <2>1, <2>2
<1> QED
  BY <1>1, <1>2, <1>3, <1>4, <1>5, <1>6, <1>7, <1>8, <1>9, <1>10, <1>11, <1>12, <1>13 DEF Next

(***************************************************************************)
(* Two users of one address, or two apps of one owner, were created by     *)
(* calls that overlapped, and by nothing else.                             *)
(***************************************************************************)
THEOREM TwinsOverlap == Spec => []TwinsOnlyByOverlap
<1>1. Init => TwinInv
  <2> SUFFICES ASSUME Init PROVE TwinInv
    OBVIOUS
  <2>1. TypeInv
    BY TypeInit
  <2>2. \A c \in Calls : Twins(c)
    BY DEF Init, Twins
  <2>3. TwinsOnlyByOverlap
    BY IdsAssumption, HomeAssumption DEF Init, TwinsOnlyByOverlap, Users, Apps, Ids, None
  <2> QED
    BY <2>1, <2>2, <2>3 DEF TwinInv
<1>2. TwinInv /\ [Next]_vars => TwinInv'
  BY TwinStep
<1>3. TwinInv => TwinsOnlyByOverlap
  BY DEF TwinInv
<1> QED
  BY <1>1, <1>2, <1>3, PTL DEF Spec

(***************************************************************************)
(* What get_info tells. A call that was given a key or an app left a row   *)
(* that stays; so whichever table is read after it was over shows it.      *)
(***************************************************************************)
Made(d) ==
    /\ stage[d] = "done" /\ body[d].kind \in KeyKinds => client[d] # None
    /\ stage[d] = "done" /\ client[d] # None => key[client[d]] # None
    /\ body[d].kind = "user_key" /\ client[d] # None => client[d] = body[d].user
    /\ stage[d] = "done" /\ body[d].kind = "app" => AppsOf(body[d].user) # {}

OwnApp(d) == body[d].kind = "app_key" /\ client[d] # None => client[d] \in AppsOf(body[d].user)

SoughtBy(c) == {d \in before[c] : stage[d] = "done" /\ body[d].user = body[c].user}

Tells(c) ==
    body[c].kind = "info" =>
        /\ stage[c] = "missing" => body[c].user = None
        /\ stage[c] \in {"info_app", "info_permission", "done"} =>
            \A d \in SoughtBy(c) : body[d].kind = "user_key" => told[c].auth
        /\ stage[c] \in {"info_permission", "done"} =>
            \A d \in SoughtBy(c) :
                /\ body[d].kind = "app" => told[c].app # None
                /\ body[d].kind = "app_key" /\ client[d] = told[c].app => told[c].key

\* Rows of Auth and App are never deleted.
LEMMA RowsStay ==
    ASSUME TypeInv, [Next]_vars
    PROVE  /\ \A i \in Ids : key[i] # None => key'[i] # None
           /\ \A u \in Ids : AppsOf(u) \subseteq AppsOf(u)'
<1>1. \A i \in Ids : key[i] # None => key'[i] # None
  <2>1. key' = key \/ \E c \in Calls, i \in Ids : key' = [key EXCEPT ![i] = c]
    <3>1. CASE UNCHANGED vars
      BY <3>1 DEF vars, tables
    <3>2. CASE \E u \in Ids : UpdatePermissions(u)
      BY <3>2 DEF UpdatePermissions
    <3>3. ASSUME NEW c \in Calls, SaveKey(c) \/ CreateKey(c)
          PROVE  key' = key \/ \E i \in Ids : key' = [key EXCEPT ![i] = c]
      <4>1. client[c] \in Ids
        BY <3>3, IdsAssumption DEF TypeInv, TypeOK, CallFacts, SaveKey, CreateKey, Users, Apps
      <4> QED
        BY <3>3, <4>1 DEF SaveKey, CreateKey
    <3>4. ASSUME NEW c \in Calls,
                 Receive(c) \/ Fail(c) \/ FindUser(c) \/ CreateUser(c) \/ FindApp(c)
                    \/ CheckApp(c) \/ CreateApp(c) \/ FindClient(c) \/ FindAuth(c)
                    \/ CheckKey(c) \/ DeliverKey(c) \/ get_info(c)
          PROVE  key' = key
      BY <3>4 DEF Receive, Fail, FindUser, CreateUser, FindApp, CheckApp, CreateApp,
                  FindClient, FindAuth, CheckKey, DeliverKey, get_info, InfoUser, InfoAuth,
                  InfoApp, InfoPermission, tables
    <3> QED
      BY <3>1, <3>2, <3>3, <3>4 DEF Next
  <2> QED
    BY <2>1, IdsAssumption DEF TypeInv, TypeOK, Ids
<1>2. \A i \in Ids : owner[i] # None => owner'[i] = owner[i]
  <2>1. owner' = owner \/ \E c \in Calls : owner[c] = None /\ \E u \in Ids \cup {None} :
                                              owner' = [owner EXCEPT ![c] = u]
    <3>1. CASE UNCHANGED vars
      BY <3>1 DEF vars, tables
    <3>2. CASE \E u \in Ids : UpdatePermissions(u)
      BY <3>2 DEF UpdatePermissions
    <3>3. ASSUME NEW c \in Calls, CreateApp(c)
          PROVE  owner[c] = None /\ \E u \in Ids \cup {None} : owner' = [owner EXCEPT ![c] = u]
      BY <3>3 DEF TypeInv, TypeOK, CallFacts, CreateApp
    <3>4. ASSUME NEW c \in Calls,
                 Receive(c) \/ Fail(c) \/ FindUser(c) \/ CreateUser(c) \/ FindApp(c)
                    \/ CheckApp(c) \/ FindClient(c) \/ FindAuth(c) \/ SaveKey(c)
                    \/ CheckKey(c) \/ CreateKey(c) \/ DeliverKey(c) \/ get_info(c)
          PROVE  owner' = owner
      BY <3>4 DEF Receive, Fail, FindUser, CreateUser, FindApp, CheckApp, SaveKey, CreateKey,
                  FindClient, FindAuth, CheckKey, DeliverKey, get_info, InfoUser, InfoAuth,
                  InfoApp, InfoPermission, tables
    <3> QED
      BY <3>1, <3>2, <3>3, <3>4 DEF Next
  <2> QED
    BY <2>1 DEF TypeInv, TypeOK
<1> QED
  BY <1>1, <1>2 DEF AppsOf, Apps

\* A call that is over stays as it is.
LEMMA OverStays ==
    ASSUME TypeInv, [Next]_vars, NEW d \in Calls, stage[d] \in Over
    PROVE  /\ stage'[d] = stage[d] /\ body'[d] = body[d] /\ client'[d] = client[d]
           /\ told'[d] = told[d] /\ before'[d] = before[d]
<1> DEFINE Stays == /\ stage'[d] = stage[d] /\ body'[d] = body[d] /\ client'[d] = client[d]
                    /\ told'[d] = told[d] /\ before'[d] = before[d]
<1> USE DEF TypeInv, TypeOK, GoTo, tables, work, bounds, history, Running, Over
<1>1. CASE UNCHANGED vars
  BY <1>1 DEF vars
<1>2. CASE \E u \in Ids : UpdatePermissions(u)
  BY <1>2 DEF UpdatePermissions
<1>3. ASSUME NEW c \in Calls, Receive(c) \/ Fail(c) PROVE Stays
  BY <1>3 DEF Receive, Fail
<1>4. ASSUME NEW c \in Calls, FindUser(c) \/ CreateUser(c) PROVE Stays
  BY <1>4 DEF FindUser, CreateUser
<1>5. ASSUME NEW c \in Calls, FindApp(c) \/ CheckApp(c) \/ CreateApp(c) PROVE Stays
  BY <1>5 DEF FindApp, CheckApp, CreateApp
<1>6. ASSUME NEW c \in Calls, FindClient(c) \/ FindAuth(c) \/ CheckKey(c) PROVE Stays
  BY <1>6 DEF FindClient, FindAuth, CheckKey
<1>7. ASSUME NEW c \in Calls, SaveKey(c) \/ CreateKey(c) \/ DeliverKey(c) PROVE Stays
  BY <1>7 DEF SaveKey, CreateKey, DeliverKey
<1>8. ASSUME NEW c \in Calls, get_info(c) PROVE Stays
  BY <1>8 DEF get_info, InfoUser, InfoAuth, InfoApp, InfoPermission
<1> QED
  BY <1>1, <1>2, <1>3, <1>4, <1>5, <1>6, <1>7, <1>8 DEF Next

\* Every step keeps what a call has made.
LEMMA MadeStep ==
    TypeInv /\ (\A c \in Calls : Relies(c) /\ KeyOf(c) /\ Made(c)) /\ [Next]_vars =>
        (\A c \in Calls : Made(c))'
<1> SUFFICES ASSUME TypeInv, \A c \in Calls : Relies(c) /\ KeyOf(c) /\ Made(c), [Next]_vars,
                    NEW d \in Calls
             PROVE  Made(d)'
  OBVIOUS
<1>0. /\ \A i \in Ids : key[i] # None => key'[i] # None
      /\ \A u \in Ids : AppsOf(u) \subseteq AppsOf(u)'
      /\ stage[d] \in Over => /\ stage'[d] = stage[d] /\ body'[d] = body[d]
                              /\ client'[d] = client[d]
      /\ None \notin Calls
  BY RowsStay, OverStays, IdsAssumption DEF Ids
<1> USE DEF Made, TypeInv, CallFacts, TypeOK, GoTo, tables, work, bounds, history, Kinds,
            KeyKinds, Running, Over
<1>1. CASE stage[d] \in Over
  <2>1. client[d] # None => client[d] \in Ids
    OBVIOUS
  <2>2. body[d].kind = "app" => body[d].user \in Ids
    BY DEF Users
  <2>3. body'[d] = body[d] /\ client'[d] = client[d] /\ stage'[d] = stage[d]
    BY <1>0, <1>1
  <2> HIDE DEF Over, TypeOK, CallFacts
  <2> QED
    BY <1>0, <2>1, <2>2, <2>3 DEF AppsOf, Apps
<1>2. CASE stage[d] \notin Over
  <2>1. CASE UNCHANGED vars
    BY <1>2, <2>1 DEF vars
  <2>2. CASE \E u \in Ids : UpdatePermissions(u)
    BY <1>2, <2>2 DEF UpdatePermissions
  <2>3. ASSUME NEW c \in Calls, Receive(c) \/ Fail(c) PROVE Made(d)'
    <3>1. CASE c = d /\ Receive(c)
      BY <3>1 DEF Receive, None
    <3>2. CASE c # d \/ Fail(c)
      BY <1>2, <2>3, <3>2 DEF Receive, Fail
    <3> QED
      BY <2>3, <3>1, <3>2
  <2>4. ASSUME NEW c \in Calls, FindUser(c) \/ CreateUser(c) PROVE Made(d)'
    BY <1>2, <2>4 DEF FindUser, CreateUser
  <2>5. ASSUME NEW c \in Calls, FindApp(c) \/ CheckApp(c) PROVE Made(d)'
    <3>1. body[c].kind = "app" /\ client[c] = None
      BY <2>5, IdsAssumption DEF FindApp, CheckApp
    <3>2. stage'[c] = "done" => AppsOf(body[c].user)' # {}
      BY <2>5 DEF FindApp, CheckApp, AppsOf, Apps
    <3> QED
      BY <1>2, <2>5, <3>1, <3>2 DEF FindApp, CheckApp
  <2>6. ASSUME NEW c \in Calls, CreateApp(c) PROVE Made(d)'
    <3>1. c \in AppsOf(body[c].user)'
      BY <2>6, IdsAssumption DEF CreateApp, AppsOf, Apps, Users, Ids
    <3> QED
      BY <1>2, <2>6, <3>1 DEF CreateApp
  <2>7. ASSUME NEW c \in Calls, FindClient(c) PROVE Made(d)'
    BY <1>2, <2>7 DEF FindClient
  <2>8. ASSUME NEW c \in Calls, FindAuth(c) \/ CheckKey(c) PROVE Made(d)'
    BY <1>2, <2>8 DEF FindAuth, CheckKey
  <2>9. ASSUME NEW c \in Calls, SaveKey(c) \/ CreateKey(c) PROVE Made(d)'
    BY <1>2, <2>9 DEF SaveKey, CreateKey
  <2>10. ASSUME NEW c \in Calls, DeliverKey(c) PROVE Made(d)'
    BY <1>0, <1>2, <2>10 DEF DeliverKey, KeyOf
  <2>11. ASSUME NEW c \in Calls, get_info(c) PROVE Made(d)'
    BY <1>2, <2>11 DEF get_info, InfoUser, InfoAuth, InfoApp, InfoPermission
  <2> QED
    BY <2>1, <2>2, <2>3, <2>4, <2>5, <2>6, <2>7, <2>8, <2>9, <2>10, <2>11 DEF Next
<1> QED
  BY <1>1, <1>2

\* The app a call makes a key for stays an app of its user.
LEMMA OwnAppStep ==
    TypeInv /\ (\A c \in Calls : OwnApp(c)) /\ [Next]_vars => (\A c \in Calls : OwnApp(c))'
<1> SUFFICES ASSUME TypeInv, \A c \in Calls : OwnApp(c), [Next]_vars, NEW d \in Calls
             PROVE  OwnApp(d)'
  OBVIOUS
<1>1. CASE body'[d] = body[d] /\ client'[d] = client[d]
  <2>1. body[d].kind = "app_key" => body[d].user \in Ids
    BY DEF TypeInv, CallFacts, Kinds, Users
  <2> QED
    BY <1>1, <2>1, RowsStay DEF OwnApp
<1>2. CASE Receive(d)
  <2>1. client[d] = None /\ client' = client
    BY <1>2 DEF Receive, TypeInv, CallFacts, KeyKinds, None
  <2> QED
    BY <2>1 DEF OwnApp
<1>3. CASE FindClient(d)
  <2>1. AppsOf(body[d].user)' = AppsOf(body[d].user) /\ body' = body
    BY <1>3 DEF FindClient, AppsOf, Apps, tables
  <2>2. body[d].kind = "app_key" => client'[d] = client[d] \/ client'[d] \in AppsOf(body[d].user)
    BY <1>3 DEF FindClient, TypeInv, TypeOK
  <2> QED
    BY <2>1, <2>2 DEF OwnApp
<1>4. \/ body'[d] = body[d] /\ client'[d] = client[d]
      \/ Receive(d) \/ FindClient(d)
  <2> USE DEF TypeInv, TypeOK, tables, work, bounds, history
  <2>1. CASE UNCHANGED vars
    BY <2>1 DEF vars
  <2>2. CASE \E u \in Ids : UpdatePermissions(u)
    BY <2>2 DEF UpdatePermissions
  <2>3. CASE \E c \in Calls : Receive(c) \/ Fail(c)
    BY <2>3 DEF Receive, Fail
  <2>4. CASE \E c \in Calls : FindUser(c) \/ CreateUser(c)
    BY <2>4 DEF FindUser, CreateUser
  <2>5. CASE \E c \in Calls : FindApp(c) \/ CheckApp(c) \/ CreateApp(c)
    BY <2>5 DEF FindApp, CheckApp, CreateApp
  <2>6. CASE \E c \in Calls : FindClient(c) \/ FindAuth(c) \/ CheckKey(c)
    BY <2>6 DEF FindClient, FindAuth, CheckKey
  <2>7. CASE \E c \in Calls : SaveKey(c) \/ CreateKey(c) \/ DeliverKey(c)
    BY <2>7 DEF SaveKey, CreateKey, DeliverKey
  <2>8. CASE \E c \in Calls : get_info(c)
    BY <2>8 DEF get_info, InfoUser, InfoAuth, InfoApp, InfoPermission
  <2> QED
    BY <2>1, <2>2, <2>3, <2>4, <2>5, <2>6, <2>7, <2>8 DEF Next
<1> QED
  BY <1>1, <1>2, <1>3, <1>4

\* Every step keeps what get_info has told.
LEMMA TellsStep ==
    TypeInv /\ (\A c \in Calls : Made(c) /\ OwnApp(c) /\ Tells(c)) /\ [Next]_vars =>
        (\A c \in Calls : Tells(c))'
<1> SUFFICES ASSUME TypeInv, \A c \in Calls : Made(c) /\ OwnApp(c) /\ Tells(c), [Next]_vars,
                    NEW c \in Calls, body'[c].kind = "info"
             PROVE  Tells(c)'
  BY DEF Tells
<1>1. CASE before'[c] = before[c] /\ UNCHANGED <<stage[c], body[c], told[c]>>
  <2>1. SoughtBy(c)' = SoughtBy(c) /\ \A d \in SoughtBy(c) : body'[d] = body[d] /\ client'[d] = client[d]
    <3>1. \A d \in before[c] : stage'[d] = stage[d] /\ body'[d] = body[d] /\ client'[d] = client[d]
      BY OverStays DEF TypeInv, TypeOK, CallFacts
    <3> QED
      BY <1>1, <3>1 DEF SoughtBy
  <2> QED
    BY <1>1, <2>1 DEF Tells
<1>2. ASSUME get_info(c) PROVE Tells(c)'
  <2>0. /\ UNCHANGED <<tables, body, client, before>>
        /\ body[c].kind = "info"
        /\ \A d \in before[c] : stage'[d] = stage[d]
        /\ stage[c] \in Running /\ c \notin before[c]
    BY <1>2, OverStays DEF get_info, InfoUser, InfoAuth, InfoApp, InfoPermission, TypeInv, TypeOK,
                           CallFacts, Running, Over, GoTo, work, history
  <2>1. SoughtBy(c)' = SoughtBy(c)
    BY <2>0 DEF SoughtBy
  <2>2. \A d \in SoughtBy(c) : d \in Calls /\ Made(d) /\ OwnApp(d) /\ stage[d] = "done"
    BY DEF SoughtBy, TypeInv, TypeOK
  <2>3. CASE InfoUser(c)
    BY <2>0, <2>3 DEF InfoUser, Tells, GoTo, TypeInv, TypeOK, CallFacts
  <2>4. CASE InfoAuth(c)
    <3>1. /\ stage'[c] = "info_app"
          /\ told'[c].auth = (key[body[c].user] # None)
      BY <2>4 DEF InfoAuth, GoTo, TypeInv, TypeOK
    <3>2. ASSUME NEW d \in SoughtBy(c), body[d].kind = "user_key" PROVE key[body[c].user] # None
      BY <2>2, <3>2 DEF Made, SoughtBy, KeyKinds
    <3> QED
      BY <2>0, <2>1, <3>1, <3>2 DEF Tells
  <2>5. CASE InfoApp(c)
    <3>1. /\ stage[c] = "info_app" /\ stage'[c] = "info_permission"
          /\ told'[c].auth = told[c].auth
      BY <2>5 DEF InfoApp, GoTo, TypeInv, TypeOK
    <3>2. \/ \E a \in AppsOf(body[c].user) : told'[c].app = a /\ (key[a] # None => told'[c].key)
          \/ AppsOf(body[c].user) = {} /\ told' = told
      <4>1. ASSUME NEW a \in AppsOf(body[c].user),
                   told' = [told EXCEPT ![c].app = a, ![c].key = key[a] # None]
            PROVE  told'[c].app = a /\ (key[a] # None => told'[c].key)
        BY <4>1 DEF TypeInv, TypeOK
      <4> QED
        BY <2>5, <4>1 DEF InfoApp
    <3>3. ASSUME NEW d \in SoughtBy(c), body[d].kind = "app" PROVE told'[c].app # None
      <4>1. AppsOf(body[c].user) # {}
        BY <2>2, <3>3 DEF Made, SoughtBy
      <4> QED
        BY <3>2, <4>1, IdsAssumption DEF AppsOf, Apps, Ids
    <3>4. ASSUME NEW d \in SoughtBy(c), body[d].kind = "app_key", client[d] = told'[c].app
          PROVE  told'[c].key
      <4>1. client[d] # None /\ key[client[d]] # None
        BY <2>2, <3>4 DEF Made, KeyKinds
      <4>2. AppsOf(body[c].user) # {}
        BY <2>2, <3>1, <3>4, <4>1 DEF OwnApp, SoughtBy
      <4> QED
        BY <3>2, <3>4, <4>1, <4>2
    <3> QED
      BY <2>0, <2>1, <3>1, <3>3, <3>4 DEF Tells
  <2>6. CASE InfoPermission(c)
    <3>1. stage[c] = "info_permission" /\ stage'[c] = "done" /\ UNCHANGED told
      BY <2>6 DEF InfoPermission, GoTo, TypeInv, TypeOK, CallFacts, work
    <3> QED
      BY <2>0, <2>1, <3>1 DEF Tells
  <2> QED
    BY <1>2, <2>3, <2>4, <2>5, <2>6 DEF get_info
<1>3. \/ before'[c] = before[c] /\ UNCHANGED <<stage[c], body[c], told[c]>>
      \/ get_info(c)
      \/ stage'[c] \in {"look", "failed"}
  <2> USE DEF TypeInv, TypeOK, CallFacts, GoTo, tables, work, bounds, history, KeyKinds
  <2>1. CASE UNCHANGED vars
    BY <2>1 DEF vars
  <2>2. CASE \E u \in Ids : UpdatePermissions(u)
    BY <2>2 DEF UpdatePermissions
  <2>3. CASE \E d \in Calls : Receive(d) \/ Fail(d)
    BY <2>3 DEF Receive, Fail
  <2>4. CASE \E d \in Calls : FindUser(d) \/ CreateUser(d)
    BY <2>4 DEF FindUser, CreateUser
  <2>5. CASE \E d \in Calls : FindApp(d) \/ CheckApp(d) \/ CreateApp(d)
    BY <2>5 DEF FindApp, CheckApp, CreateApp
  <2>6. CASE \E d \in Calls : FindClient(d) \/ FindAuth(d) \/ CheckKey(d)
    BY <2>6 DEF FindClient, FindAuth, CheckKey
  <2>7. CASE \E d \in Calls : SaveKey(d) \/ CreateKey(d) \/ DeliverKey(d)
    BY <2>7, IdsAssumption DEF SaveKey, CreateKey, DeliverKey
  <2>8. CASE \E d \in Calls \ {c} : get_info(d)
    BY <2>8 DEF get_info, InfoUser, InfoAuth, InfoApp, InfoPermission
  <2> QED
    BY <2>1, <2>2, <2>3, <2>4, <2>5, <2>6, <2>7, <2>8 DEF Next
<1>4. CASE stage'[c] \in {"look", "failed"}
  BY <1>4 DEF Tells
<1> QED
  BY <1>1, <1>2, <1>3, <1>4

(***************************************************************************)
(* get_info, which locks nothing between its queries, still tells of every *)
(* key and app that was given before it began (UserService.get_info).      *)
(***************************************************************************)
THEOREM InfoTells == Spec => []InfoTellsWhatIsDone
<1> DEFINE InfoInv == TypeInv /\ \A c \in Calls : Relies(c) /\ KeyOf(c) /\ Made(c) /\ OwnApp(c) /\ Tells(c)
<1>1. Init => InfoInv
  <2> SUFFICES ASSUME Init, NEW c \in Calls PROVE Relies(c) /\ KeyOf(c) /\ Made(c) /\ OwnApp(c) /\ Tells(c)
    BY TypeInit
  <2>1. Relies(c) /\ KeyOf(c)
    BY DEF Init, Relies, KeyOf, Running
  <2>2. Made(c) /\ OwnApp(c) /\ Tells(c)
    BY DEF Init, Made, OwnApp, Tells, SoughtBy
  <2> QED
    BY <2>1, <2>2
<1>2. InfoInv /\ [Next]_vars => InfoInv'
  BY TypeStep, RelianceStep, KeyStep, MadeStep, OwnAppStep, TellsStep
<1>3. InfoInv => InfoTellsWhatIsDone
  <2> SUFFICES ASSUME InfoInv, NEW c \in Calls, body[c].kind = "info"
               PROVE  /\ stage[c] = "missing" => body[c].user = None
                      /\ stage[c] = "done" =>
                            \A d \in before[c] : stage[d] = "done" /\ body[d].user = body[c].user =>
                                /\ body[d].kind = "user_key" => told[c].auth
                                /\ body[d].kind = "app" => told[c].app # None
                                /\ body[d].kind = "app_key" /\ client[d] = told[c].app => told[c].key
    BY DEF InfoTellsWhatIsDone
  <2> QED
    BY DEF Tells, SoughtBy
<1> QED
  BY <1>1, <1>2, <1>3, PTL DEF Spec
=============================================================================
