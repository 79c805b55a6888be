SPECIFICATION FairSpec
CONSTANTS
    Tasks <- MCTasks
    Files <- MCFiles
    Inputs <- MCInputs
    Outputs <- MCOutputs
    WorkflowOutputs <- MCWorkflowOutputs
    VMs <- MCVMs
    Hosts <- MCHosts
    VMSpec <- MCVMSpec
    HostSpec <- MCHostSpec
    Need <- MCNeed
    Plans <- MCPlansAllReaders
PROPERTY LoopEndsWithActors
