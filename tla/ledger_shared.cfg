\* Two worker threads of `lottie serve` share one gate connection.
SPECIFICATION Spec
CONSTANTS
    r1 = r1
    r2 = r2
    r3 = r3
    r4 = r4
    c1 = c1
    c2 = c2
    Runs <- MCRunsShared
    Conns = {c1, c2}
    ConnOf <- MCConnOfShared
    MaxThreads = 2
    Budget = 4
    MaxRun = 2
    Costs <- MCCosts
INVARIANT
    BudgetRespected
CHECK_DEADLOCK FALSE
