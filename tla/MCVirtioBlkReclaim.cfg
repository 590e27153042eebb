SPECIFICATION Spec
CONSTANTS
    RegionPages = 10
    PageSize = 4096
    Sizes = {1, 16}
    Reclaims = TRUE
    QSize = 8
    Wrap = 8
    Sectors = {s1, s2}
    MaxRequests = 4
    MaxTimeouts = 2
    MaxFaults = 1
INVARIANTS OkMeansDone
