CONSTANTS
    t1 = t1
    NoAnswer = NoAnswer
    NoPlan = NoPlan
    Workers = {2, 3, 4}
    Gated = {3}
    Threads = {t1}
    Routings <- MCRoutings
    MaxSteps = 2
    ResumeLimit = 3
    MaxResumes = 2
    MaxCrashes = 1
SPECIFICATION FairSpec
INVARIANTS
    TypeOK
    
    
PROPERTIES
    Journal
    EveryCallEnds
CHECK_DEADLOCK FALSE
