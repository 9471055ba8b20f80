CONSTANTS
    d1 = d1
    c1 = c1
    c2 = c2
    x1 = x1
    x2 = x2
    Devices <- OneDevice
    Conns <- TwoConns
    NoConn = NoConn
    Calls <- TwoCalls
    MaxSeq = 2
SPECIFICATION LiveSpec
INVARIANTS
    LinkInv
    NoPhantomSession
PROPERTIES
    ExitedStaysExited
    PhantomSessionEnds
CHECK_DEADLOCK FALSE
