CONSTANTS
    m = m
    n = n
    s = s
    w = w
    v = v
    a1 = a1
    a2 = a2
    a3 = a3
    main = main
    tv = tv
    NoRun = NoRun
    Runs <- MCServeRuns
    Agents <- MCAgents
    Contexts <- MCContexts
    AgentOf <- MCServeAgentOf
    ParentOf <- MCServeParentOf
    ContextOf <- MCServeContextOf
    Streams = {}
    Disabled <- MCDisabled
    Strict = {a1}
    Faulty = {"ledger"}
    MaxConcurrent = 2
    MaxRunTokens = 1
    MaxCalls = 3
    MaxStarts = 2
SPECIFICATION Spec
INVARIANT
    RunCostExact
