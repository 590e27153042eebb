SPECIFICATION MCSpec
CONSTANTS
    Ports = {p1, p2}
    NoPort = NoPort
    MSS = 2
    RequestLen = 3
    StreamLen = 4
    MaxLens <- OneSegment
    SynTries = 2
    CloseTries = 2
    MaxFaults = 1
    MaxInFlight = 2
    Servers = {s1, s2}
    Static = static
    MaxRetries = 2
    MaxDHCPCalls = 2
    MaxExpiries = 1
    Names = {n1, n2}
    Ids = {0, 1, 2}
    PortWrap = 2
    MaxDNSCalls = 2
    MaxCopies = 2
INVARIANTS  LeaseObtained ResolvedIsAsked
PROPERTIES NetCallsReturn RequestArrives
CHECK_DEADLOCK FALSE
