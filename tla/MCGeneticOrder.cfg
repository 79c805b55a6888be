SPECIFICATION Spec
CONSTANTS
    Size = 4
    VMTypes = 1
    Dependencies <- MCDependencies
    Requirements <- MCRequirements
    Order <- MCOrder
    VMList <- MCVMList
    AvgLag = 1
    Deadline = 9
    GenerationSize = 3
    BestChromosomesNumber = 1
    InitFastestAssignmentsNum = 3
    StepsNumber = 1
    ConstantScoreStepsNumber = 1
    Modifications <- MCModifications
    CostOf <- ComputedCost
    MakespanOf <- ComputedMakespan
INVARIANTS
    GeneticTypeOK
    AssignmentsRunnable
