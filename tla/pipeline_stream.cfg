CONSTANTS
    m = m
    n = n
    s = s
    w = w
    v = v
    a1 = a1
    a2 = a2
    a3 = a3
    main = main
    tv = tv
    NoRun = NoRun
    Runs <- MCRuns
    Agents <- MCAgents
    Contexts <- MCContexts
    AgentOf <- MCAgentOf
    ParentOf <- MCParentOf
    ContextOf <- MCContextOf
    Streams = {s}
    Disabled <- MCDisabled
    Strict = {a1}
    Faulty = {"ledger"}
    MaxConcurrent = 1
    MaxRunTokens = 1
    MaxCalls = 3
    MaxStarts = 1
SPECIFICATION Spec
INVARIANT
    StreamCostExact
