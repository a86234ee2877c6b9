SPECIFICATION Spec
CONSTANTS
    u = u
    w = w
    f = f
    t = t
    r1 = r1
    r2 = r2
    Users = {u, w}
    Apps = {f, t}
    FirstParty = {f}
    Owner <- MCOwner
    Free = {u}
    FirstAuth <- MCFirst
    Stored <- MCStored
    Requests = {r1, r2}
    Traffic <- MCTraffic
    Strangers = {x}
    PageSize = 1
    None = none
INVARIANTS
    TypeOK
    EachSeesItsOwn
    HandledIsAuthorized
    ChargedIsChecked
    WalkMissesNothing
CHECK_DEADLOCK FALSE
