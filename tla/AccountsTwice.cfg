SPECIFICATION Spec
CONSTANTS
    Calls = {c1, c2}
    Known = {u}
    Addresses = {"home", "other"}
    Home <- MCHome
    MaxFailures = 0
    MaxUpdates = 1
INVARIANTS
    UserDenotedByAddress
CHECK_DEADLOCK FALSE
