CONSTANTS
    Media = {m1, m2}
    NoMedia = NoMedia
    Calls = {c1}
    NumSegments = 0
    QueueSize = 1
    BatchSize = 1
    Workspaces = 1
    Transcoding = TRUE
    KeyKinds = {"ordinary"}
    MaxFaults = 0
SPECIFICATION Spec
SYMMETRY Interchangeable
INVARIANTS CleanerSparesLive ReadyComplete NoLostJob
