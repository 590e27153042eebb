SPECIFICATION Spec
CONSTANTS
    old = old
    v1 = v1
    v2 = v2
    bad = bad
    Versions <- MCVersions
    Old = old
    Length <- MCLength
    Signed = {v1, v2}
    Staging = 2
    Ratio = 1
    MaxCalls = 4
    MaxFaults = 1
INVARIANTS  ClearFlagMeansWhole RunInstallsAnnounced
PROPERTIES CallsReturn
