SPECIFICATION FairReadsSpec
CONSTANTS
    Audits = {a1}
    Prompts = {1, 3}
    Tag <- MCTag
    Billed = {}
    MaxTries = 2
    Faults = {"stop"}
    MaxMishaps = 1
INVARIANTS
    AnswersCohere
    ToldThenShown
    PollsMoveForward
PROPERTIES
    AcceptedSettles
