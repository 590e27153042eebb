SPECIFICATION Spec
CONSTANTS
    FileNames = {a, b}
    MaxFiles = 3
    SlotsPerSector = 2
    BlockSize = 1
    Reserves <- MCReserves
    WriteRanges <- MCWriteRanges
    END = END
    DELETED = DELETED
INVARIANTS ExtentsDisjoint DescriptorsCoherent FilesSurvive
PROPERTIES WritesStayInFile ImplementsStore
CONSTRAINT NotTorn
SYMMETRY Symmetry
VIEW View
