SPECIFICATION FairSpec
CONSTANTS
    Engines = {e1}
    NoEngine = NoEngine
    first = first
    second = second
    guarded = guarded
    fourth = fourth
    m1 = m1
    m2 = m2
    m3 = m3
    Items = {first, second, guarded}
    Missions = {m1}
    MissionOf <- MCMissionOf
    Deps <- MCRoots
    Guarded = {guarded}
    Rank <- MCRank
    TenantOf <- MCTenantOf
    TenantCap = 0
    PoolSize = 2
    Ttl = 2
    Punctual = TRUE
INVARIANTS
    DispatchWasEntitled
PROPERTIES
    MissionsResolve
