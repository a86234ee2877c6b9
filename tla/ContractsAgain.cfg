SPECIFICATION Spec
CONSTANTS
    Requests = {r1, r2}
    Bodies <- MCBodies
    Codes = {"c", "d"}
    Addresses = {"x"}
    Networks = {"avax", "mode", "avax_fuji"}
    Source <- MCSource
    MaxFailures = 0
INVARIANTS
    PreviouslyUploadedIsReturned
CHECK_DEADLOCK FALSE
