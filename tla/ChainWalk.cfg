SPECIFICATION Spec
CONSTANTS
    Bits = 2
    Mem1End = 100
    Mem2 = 160
    Mem2End = 201
    Tables <- MCTables
    Images <- MCImages
    FlatCounts = {0, 2}
    Budget = 19
    Headers = 5
    MaxWalks = 3
INVARIANTS
    OperatorsAreExact
    WalkIsMeant
    WindowRotates
    DeltaIsEvaluators
CHECK_DEADLOCK FALSE
