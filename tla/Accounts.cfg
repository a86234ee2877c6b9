SPECIFICATION Spec
CONSTANTS
    Calls = {c1, c2, c3}
    Known = {u}
    Addresses = {"home", "other"}
    Home <- MCHome
    MaxFailures = 1
    MaxUpdates = 2
SYMMETRY Symmetry
INVARIANTS
    TypeOK
    TwinsOnlyByOverlap
    OldKeysStayDead
    CollisionHasWinner
    InfoTellsWhatIsDone
PROPERTIES
    CreatedWithPermission
CHECK_DEADLOCK FALSE
