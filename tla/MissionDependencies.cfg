SPECIFICATION FairSpec
CONSTANTS
    m1 = m1
    m2 = m2
    Items = {1, 2, 3, 4}
    Missions = {m1, m2}
    MissionOf <- MCMissionOf
    Deps <- MCDeps
    NewV1 = {}
    Batches <- MCSingletons
    Unfit = {1}
    MaxEdges = 2
    MaxEdgesPerJob = 1
INVARIANTS
    TypeOK
    GraphStaysValid
    QueueComplete
    RunsBehindDone
    ProjectionCatchesUp
    FailureNotForgotten
PROPERTIES
    ImplementsContract
    SatisfiedRuns
    QueuedFailureReaches
