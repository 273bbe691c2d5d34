CONSTANTS
    Media = {m1}
    Video = m1
    NoMedia = NoMedia
    Calls = {c1}
    NumSegments = 1
    QueueSize = 1
    BatchSize = 1
    Workspaces = 2
    Transcoding = TRUE
    KeyKinds = {"ordinary", "trimmed", "folder"}
    MaxFaults = 1
SPECIFICATION FairSpec
PROPERTIES ImplementsLifecycle JobsFinish OrphansReclaimed
