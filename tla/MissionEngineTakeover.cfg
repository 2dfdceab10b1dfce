SPECIFICATION Spec
CONSTANTS
    Engines = {e1, e2}
    NoEngine = NoEngine
    first = first
    second = second
    guarded = guarded
    fourth = fourth
    m1 = m1
    m2 = m2
    m3 = m3
    Items = {first, second, guarded}
    Missions = {m1}
    MissionOf <- MCMissionOf
    Deps <- MCFork
    Guarded = {guarded}
    Rank <- MCRank
    TenantOf <- MCTenantOf
    TenantCap = 0
    PoolSize = 2
    Ttl = 1
    Punctual = FALSE
SYMMETRY MCSymmetry
INVARIANTS
    SafetyInvariant
PROPERTIES
    SettledIsFinal
    OnlyLeaseHolderMovesRunning
    ImplementsContract
    KeepsDependencyContract
