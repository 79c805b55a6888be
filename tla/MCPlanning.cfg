SPECIFICATION PlanSpec
CONSTANTS
    Size = 10
    VMTypes = 4
    Dependencies <- MCDependencies
    Requirements <- MCRequirements
    Order <- MCOrder
    VMList <- MCVMList
    AvgLag = 1
    Deadline = 15
    Algorithms = {"baseline", "mao"}
    PStates <- MCPStates
    Giga = 2
INVARIANTS
    MachinesFit
    PlacedAsCalculated
    PlanInTime
    AllTasksAssigned
    RunsAtPlannedSpeed
    NoCheaperFaster
    DeadlinesOnce
    DeadlinesForConnected
PROPERTIES
    UpgradesNeverHurt
    MaoEnds
