SPECIFICATION MaoSpec
CONSTANTS
    Size = 2
    VMTypes = 2
    Dependencies <- Independent
    Requirements <- MCRequirements
    Order <- MCOrder
    VMList <- MCVMList
    AvgLag = 0
    Deadline = 6
INVARIANT
    GivesUpAtFullSpeed
CHECK_DEADLOCK FALSE
