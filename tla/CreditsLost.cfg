SPECIFICATION Spec
CONSTANTS
    Payers = {1}
    Audits = {a2, a3}
    Mine = {a2, a3}
    Payer <- MCPayer
    Tokens <- MCTokens
    Grant <- MCGrant
    Syncs = {}
    Caller <- MCCaller
    Quotes = {}
    MaxStops = 0
INVARIANTS
    AuditsConsumeCredits
CHECK_DEADLOCK FALSE
