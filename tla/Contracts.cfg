SPECIFICATION Spec
CONSTANTS
    Requests = {r1, r2, r3}
    Bodies <- MCBodies
    Codes = {"c", "d"}
    Addresses = {"x"}
    Networks = {"avax", "mode", "avax_fuji"}
    Source <- MCSource
    MaxFailures = 1
SYMMETRY Symmetry
INVARIANTS
    TypeOK
    AnswersMeetBody
    ScansAreGenuine
    EverySourceIsKept
    DuplicatesOnlyByOverlap
    FetchedIsReturned
CHECK_DEADLOCK FALSE
