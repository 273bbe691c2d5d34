CONSTANTS
    Media = {m1}
    NoMedia = NoMedia
    Calls = {c1, c2}
    NumSegments = 0
    QueueSize = 1
    BatchSize = 1
    Workspaces = 2
    Transcoding = TRUE
    KeyKinds = {"ordinary"}
    MaxFaults = 2
SPECIFICATION Spec
SYMMETRY Interchangeable
INVARIANTS TypeOK CleanerSparesLive RowFirst UploadsKept ReadyComplete NoLostJob UniformReady
PROPERTIES OnlyDeleteRemoves DeletedIsFinal
