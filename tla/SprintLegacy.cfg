SPECIFICATION LegacySpec
CONSTANTS
    N = 4
    Deps <- MCDeps
    Writes <- MCWrites
    MaxWorkers = 2
    MaxAttempts = 2
    SettledCascades = TRUE
    MaxSameErrors = 1
    MaxFaults = 0
INVARIANTS
    NoDuplicateAssign
CHECK_DEADLOCK FALSE
