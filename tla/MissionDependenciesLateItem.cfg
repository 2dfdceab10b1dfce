SPECIFICATION FairSpec
CONSTANTS
    m1 = m1
    m2 = m2
    Items = {1, 2}
    Missions = {m1}
    MissionOf <- MCPairMissionOf
    Deps <- MCPairDeps
    NewV1 = {m1}
    Batches <- MCSingletons
    Unfit = {}
    MaxEdges = 2
    MaxEdgesPerJob = 1
PROPERTY FailureReaches
