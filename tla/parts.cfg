CONSTANTS
    w1 = w1
    w2 = w2
    r1 = r1
    r2 = r2
    r3 = r3
    Unset = Unset
    NoFile = NoFile
    Torn = Torn
    None = None
    Writers = {w1, w2}
    Notes = {"n", "m", "bad"}
    RejectedNotes = {"bad"}
    Tags = {"t"}
    Window = 1
    MaxApplies = 3
    MaxFaults = 1
    MaxDeaths = 1
    Runs = {r1, r2, r3}
    MaxKeys = 2
    MaxSaves = 1
    Capabilities = {"c", "d"}
    MaxDistills = 2
    MaxReviews = 2
    MaxEdits = 2
    Chain = 2
    MaxRuns = 2
    MaxCalls = 2
    MaxDeltas = 2
    s1 = s1
    s2 = s2
    Stems = {s1, s2}
    Nothing = Nothing
    MaxSources = 2
    MaxIngests = 1
    MaxBuilds = 1
    MaxClears = 1
    Lengths = {0, 1, 10}
    Sizes = {1, 3, 8}
    MaxBreaks = 3
    Orders = {10, 95}
    Ceilings = {4, 8, 12}
    NoCeiling = NoCeiling
    MaxTurns = 4
    MaxKeep = 3
    Summaries = {1, 4}
    n1 = n1
    n2 = n2
    Names = {n1, n2}
    MaxCommands = 2
    Scores = {1, 2}
    MaxDocs = 2
    MaxChunks = 4
SPECIFICATION Spec
INVARIANTS
    TypeOK
    
    RunsKept
    PromotedIsReviewed
    OneVoice
    ReportIsTrue
    ChunksCover
    HitsRight
    PromptKeeps
    
PROPERTIES
    ApprovedNotLost
CHECK_DEADLOCK FALSE
