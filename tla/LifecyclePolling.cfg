SPECIFICATION FairSpec
CONSTANTS
    Audits = {a1}
    Prompts = {1, 3}
    Tag <- MCTag
    Billed = {a1}
    MaxTries = 2
    Faults = {"timeout"}
    MaxMishaps = 1
PROPERTIES
    PollingEnds
