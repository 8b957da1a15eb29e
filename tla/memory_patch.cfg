CONSTANTS
    w1 = w1
    w2 = w2
    r1 = r1
    Unset = Unset
    NoFile = NoFile
    Torn = Torn
    None = None
    Writers = {w1, w2}
    Notes = {"n"}
    RejectedNotes = {}
    Tags = {"t"}
    Window = 2
    MaxApplies = 3
    MaxFaults = 0
    MaxDeaths = 0
    Runs = {r1}
    MaxKeys = 1
    MaxSaves = 1
    Capabilities = {"c"}
    MaxDistills = 1
    MaxReviews = 1
    MaxEdits = 0
    Chain = 2
    MaxRuns = 2
    MaxCalls = 2
    MaxDeltas = 2
    s1 = s1
    s2 = s2
    Stems = {s1, s2}
    Nothing = Nothing
    MaxSources = 2
    MaxIngests = 1
    MaxBuilds = 1
    MaxClears = 1
    Lengths = {0, 1, 10}
    Sizes = {1, 3, 8}
    MaxBreaks = 3
    Orders = {10, 95}
    Ceilings = {4, 8, 12}
    NoCeiling = NoCeiling
    MaxTurns = 4
    MaxKeep = 3
    Summaries = {1, 4}
    n1 = n1
    n2 = n2
    Names = {n1, n2}
    MaxCommands = 2
    Scores = {1, 2}
    MaxDocs = 3
    MaxChunks = 3
SPECIFICATION Spec
PROPERTIES
    OnlySuppliedFieldsChange
CHECK_DEADLOCK FALSE
