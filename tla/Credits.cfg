SPECIFICATION Spec
CONSTANTS
    Payers = {1, 2}
    Audits = {a1, a2, a3}
    Mine = {a2, a3}
    Payer <- MCPayer
    Tokens <- MCTokens
    Grant <- MCGrant
    Syncs = {s1, s2}
    Caller <- MCCaller
    Quotes = {200}
    MaxStops = 1
SYMMETRY Symmetry
INVARIANTS
    TypeOK
    ChargedOncePerRun
    LoneWriterIsExact
    LedgerExplainsTotal
    OverdraftBelowBurst
CHECK_DEADLOCK FALSE
