SPECIFICATION Spec
CONSTANTS
    FileNames = {a, b}
    MaxFiles = 2
    SlotsPerSector = 2
    BlockSize = 1
    Reserves <- MCReserves
    WriteRanges <- MCWriteRanges
    END = END
    DELETED = DELETED
INVARIANTS FilesSurvive
CONSTRAINT NotTorn
