SPECIFICATION FairSpec
CONSTANTS
    Engines = {e1, e2}
    NoEngine = NoEngine
    first = first
    second = second
    guarded = guarded
    fourth = fourth
    m1 = m1
    m2 = m2
    m3 = m3
    Items = {first, second}
    Missions = {m1}
    MissionOf <- MCPairMissionOf
    Deps <- MCPairDeps
    Guarded = {}
    Rank <- MCPairRank
    TenantOf <- MCTenantOf
    TenantCap = 0
    PoolSize = 2
    Ttl = 2
    Punctual = TRUE
PROPERTIES
    MissionsResolve
