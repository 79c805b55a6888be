SPECIFICATION LoaderSpec
CONSTANTS
    Size <- MCSize
    Graphs <- MCGraphs
    Names <- MCNames
    Documents <- MCDocuments
    Garbage = {0, 4}
INVARIANTS
    EveryTaskOnce
    DependenciesFirst
    IdsStayValid
    DependenciesMirrored
    FedIffReadOnce
    CyclesCaught
