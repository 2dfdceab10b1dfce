SPECIFICATION Spec
CONSTANTS
    Engines = {e1, e2, e3}
    NoEngine = NoEngine
    first = first
    second = second
    guarded = guarded
    fourth = fourth
    m1 = m1
    m2 = m2
    m3 = m3
    Items = {first}
    Missions = {m1}
    MissionOf <- MCOneMissionOf
    Deps <- MCOneDeps
    Guarded = {}
    Rank <- MCOneRank
    TenantOf <- MCTenantOf
    TenantCap = 0
    PoolSize = 1
    Ttl = 1
    Punctual = FALSE
SYMMETRY MCSymmetry
INVARIANTS
    OneAttemptPerItem
    NoForeignRunning
    AttemptAccounted
    ReceiptsAgree
