SPECIFICATION FairSpec
CONSTANTS
    NUM_OF_ROOMS = 4
    NUM_OF_BUYERS = 2
    Demand = 2
    InitStock <- One
    FillStock <- Two
INVARIANTS
    TypeOK
    LocksMatchVisits
    LoaderFillsEmptyRoom
    ReportsNoSoldProduct
    LoaderOutlivesBuyers
    EndsServed
PROPERTIES
    ControlCompletes
    ProgramEnds
    ReportIsSnapshot
    AbstractSpec
