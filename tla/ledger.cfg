\* Two processes, one run at a time in each.
SPECIFICATION FairSpec
CONSTANTS
    r1 = r1
    r2 = r2
    r3 = r3
    r4 = r4
    c1 = c1
    c2 = c2
    Runs <- MCRuns
    Conns = {c1, c2}
    ConnOf <- MCConnOf
    MaxThreads = 1
    Budget = 4
    MaxRun = 2
    Costs <- MCCosts
INVARIANTS
    TypeOK
    BudgetRespected
    LegacyOvershootBounded
    LiveHoldsDurable
PROPERTIES
    Admission
    
    EveryRunEnds
CHECK_DEADLOCK FALSE
