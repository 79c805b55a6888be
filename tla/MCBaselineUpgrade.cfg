SPECIFICATION Spec
CONSTANTS
    Size = 10
    VMTypes = 4
    LastMemory = 2
    Dependencies <- MCDependencies
    Requirements <- MCRequirements
    Order <- MCOrder
    VMList <- MCVMList
    AvgLag = 1
    Deadline = 13
INVARIANT
    UpgradableHasNewType
