SPECIFICATION FairSpec
CONSTANTS
    N = 4
    Deps <- MCDeps
    Writes <- MCWrites
    MaxWorkers = 2
    MaxAttempts = 2
    SettledCascades = TRUE
    MaxSameErrors = 1
    MaxFaults = 2
INVARIANTS
    TypeOK
    DependenciesHonoured
    WritersExclusive
    OneWorkerPerTask
    SkippedNeverRan
    HandOverQuiescent
PROPERTIES
    CollectedIsFinal
    ImplementsContract
    ExecuteEnds
CHECK_DEADLOCK FALSE
