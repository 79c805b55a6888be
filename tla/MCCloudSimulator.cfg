SPECIFICATION LogSpec
CONSTANTS
    Tasks <- MCTasks
    Files <- MCFiles
    Inputs <- MCInputs
    Outputs <- MCOutputs
    WorkflowOutputs <- MCWorkflowOutputs
    VMs <- MCVMs
    Hosts <- MCHosts
    VMSpec <- MCVMSpec
    HostSpec <- MCHostSpec
    Need <- MCNeed
    Plans <- MCPlans
INVARIANTS
    TypeOK
    RunningIsHead
    ResourcesAccounted
    NoMissedStart
    NoFileLeftBehind
    LogTellsALegalRun
    ExecutingIfStartedAtHome
    KilledOnlyAtShutdown
    ShutdownQuiescent
PROPERTY
    UsesGraph
