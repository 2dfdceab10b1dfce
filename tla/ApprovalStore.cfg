SPECIFICATION FairSpec
CONSTANTS
    None = None
    a = a
    b = b
    Procs = {a, b}
    Submitters = {a}
    Pollers = {a}
    Deciders = {a, b}
    Tickers = {b}
    MaxDecisions = 4
    MaxHuman = 1
    MaxCrashes = 1
INVARIANTS
    TypeOK
    OneVerdict
    VerdictDurable
PROPERTIES
    PendingNeverPruned
    ImplementsRegister
    OverdueCloses
    EveryoneLearns
    TimeoutReported
