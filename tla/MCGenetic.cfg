SPECIFICATION Spec
CONSTANTS
    Size = 2
    VMTypes = 2
    Dependencies <- MCDependencies
    Requirements <- MCRequirements
    Order <- MCOrder
    VMList <- MCVMList
    AvgLag = 1
    Deadline = 4
    GenerationSize = 2
    BestChromosomesNumber = 1
    InitFastestAssignmentsNum = 0
    StepsNumber = 3
    ConstantScoreStepsNumber = 1
    Modifications <- MCModifications
    CostOf <- ComputedCost
    MakespanOf <- ComputedMakespan
INVARIANTS
    CheapestKept
    CheapestReturned
    CountsSettledStepsOnly
    PlanCanBeRun
    PlanWorthItsScore
