SPECIFICATION MCSpec
CONSTANTS
    RegionPages = 17
    PageSize = 4096
    Sizes = {1, 16}
    Reclaims = FALSE
    QSize = 8
    Wrap = 8
    Sectors = {s1}
    MaxRequests = 9
    MaxTimeouts = 1
    MaxFaults = 1
    MaxCalls = 2
    Depth = 2
    CidWrap = 8
    PageLen = 2
    Limits = {0, 2, 8}
    Ports = {0, 1}
    CmdSlots = 2
    CountWrap = 4
    RegionMax = 3
    RegionsMax = 2
    BufBlocks = 2
    MaxLate = 0
    BlockSize = 2
INVARIANTS OkMeansDone DescriptorsExclusive 
PROPERTIES  CallsReturn
