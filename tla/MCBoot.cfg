SPECIFICATION MCSpec
CONSTANTS
    RegionPages = 9
    PageSize = 2
    Sizes = {1, 2, 3, 4, 5}
    Reclaims = TRUE
    MaxDrivers = 5
    HeaderBytes = 1
    MaxSize = 4
    TestBytes = 1
    Machines <- MCMachines
    Packages <- MCPackages
    MaxEntries = 4
    Levels = {0, 1}
    MaxLogs = 7
    MaxBoots = 2
    MaxFailures = 1
    Empty = Empty
    Frames = {f1, f2}
    MaxFrames = 3
    Timeouts = {0, 1}
    DefaultTimeout = 2
    MaxPanics = 2
INVARIANTS BlocksDisjoint   NetworkSettled  TraceFaithful
PROPERTIES StorageStays ReportStands AllEnds
