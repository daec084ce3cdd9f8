SPECIFICATION SpecSpec
CONSTANTS
    a = a
    b = b
    s = s
    NoToken = NoToken
    Tokens <- MCTokens
    StopIds <- MCStopIds
    Calls <- MCCalls
    Greedy <- MCGreedy
    MaxLen = 5
INVARIANT
    StopNeverEmitted
CHECK_DEADLOCK FALSE
