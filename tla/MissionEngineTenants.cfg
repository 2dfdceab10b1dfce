SPECIFICATION Spec
CONSTANTS
    Engines = {e1}
    NoEngine = NoEngine
    first = first
    second = second
    guarded = guarded
    fourth = fourth
    m1 = m1
    m2 = m2
    m3 = m3
    Items = {first, second, guarded, fourth}
    Missions = {m1, m2, m3}
    MissionOf <- MCThreeMissions
    Deps <- MCParallel
    Guarded = {}
    Rank <- MCFourRank
    TenantOf <- MCTenantOf
    TenantCap = 1
    PoolSize = 2
    Ttl = 2
    Punctual = FALSE
INVARIANTS
    PoolRespected
