SPECIFICATION MCGenSpec
CONSTANTS
    a = a
    b = b
    s = s
    Tokens <- MCTokens
    NoToken = NoToken
    StopIds <- MCStopIds
    Calls <- MCCalls
    Greedy <- MCGreedy
    MaxLen = 5
    Contexts <- MCContexts
    ByteTables <- MCBytes
INVARIANT
    DeltasJoin
CHECK_DEADLOCK FALSE
