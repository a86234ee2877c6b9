SPECIFICATION FairSpec
CONSTANTS
    Audits = {a1}
    Prompts = {1, 2, 3}
    Tag <- MCTag
    Billed = {a1}
    MaxTries = 2
    Faults = {"stop", "timeout", "database", "lost"}
    MaxMishaps = 2
INVARIANTS
    TypeOK
    SuccessDependsOnSteps
    ReviewHearsWhatIsSaved
    CostCoversAnswers
    CleanFailure
    OncePerMishap
    StuckOnlyByMishap
PROPERTIES
    FinishedIsFinal
    KeepsPromise
    AcceptedFinishes
