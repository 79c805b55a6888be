SPECIFICATION Spec
CONSTANTS
    Size = 10
    VMTypes = 4
    LastMemory = 3
    Dependencies <- MCDependencies
    Requirements <- EmptyTask
    Order <- MCOrder
    VMList <- MCVMList
    AvgLag = 0
    Deadline = 100
INVARIANT
    FailsForBadOrderOnly
