SPECIFICATION HttpFairSpec
CONSTANTS
    c1 = c1
    c2 = c2
    Conns <- MCConns
    MaxSlots = 1
    MaxRequests = 3
    MaxEvents = 1
INVARIANTS
    Framed
    OneStatusLine
PROPERTIES
    SlotsReturn
CHECK_DEADLOCK FALSE
