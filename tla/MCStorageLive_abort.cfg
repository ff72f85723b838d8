SPECIFICATION Spec
CONSTANTS
    NUM_OF_ROOMS = 3
    NUM_OF_BUYERS = 1
    Demand = 1
    InitStock <- One
    FillStock <- One
INVARIANT
    MainEndsNormally
