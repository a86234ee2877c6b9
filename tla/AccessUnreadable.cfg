SPECIFICATION Spec
CONSTANTS
    u = u
    w = w
    f = f
    t = t
    r1 = r1
    r2 = r2
    Users = {u, w}
    Apps = {f, t}
    FirstParty = {f}
    Owner <- MCOwner
    Free = {}
    FirstAuth <- MCFirst
    Stored <- MCStored
    Requests = {r1, r2}
    Traffic <- Asks
    Strangers = {x}
    PageSize = 1
    None = none
INVARIANTS
    HeaderMayBeExcluded
CHECK_DEADLOCK FALSE
