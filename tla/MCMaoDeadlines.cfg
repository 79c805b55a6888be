SPECIFICATION MaoSpec
CONSTANTS
    Size = 3
    VMTypes = 2
    Dependencies <- OnePair
    Requirements <- MCRequirements
    Order <- MCOrder
    VMList <- MCVMList
    AvgLag = 0
    Deadline = 24
INVARIANT
    AllDeadlinesAssigned
CHECK_DEADLOCK FALSE
