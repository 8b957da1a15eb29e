CONSTANTS
    q1 = q1
    q2 = q2
    q3 = q3
    None = None
    Newline = "nl"
    SecretHead = "s"
    SecretTail = "k"
    MaxLine = 3
    Requests = {q1, q2, q3}
    Traffic <- MCTraffic
    Agents = {"mesh", "talker", "plain", "broken", "gone"}
    Present = {"mesh", "talker", "plain", "broken"}
    Broken = {"broken"}
    Chat = {"talker", "plain"}
    Streaming = {"talker"}
    Meshes = {"mesh"}
    Keys = {"key"}
    Rate = 1
    Tick = 30
    MaxTime = 120
    Deltas <- MCDeltas
    MaxText = 4
    MaxRestarts = 1
SPECIFICATION FairSpec
INVARIANTS
    TypeOK
    ReleasedIsScanned
    NoOrphanRun
    RateBound
    ResumeFindsThread
PROPERTIES
    EveryRequestEnds
CHECK_DEADLOCK FALSE
