SPECIFICATION FilesSpec
CONSTANTS
    Saves = {s1, s2, s3, s4}
    EtagSaves = {s1, s2}
    BackupSaves = {s2, s3}
    CancelSaves = {s3, s4}
    Docs = {r1, r2, r3}
    RemoteDocs = {r1, r2, r3}
    ClosedDocs = {r1, r2}
    IoErrors = TRUE
    Paths <- MCPaths
    Root = "/"
    Above <- MCAbove
    SourceKinds <- MCSourceKinds
    TargetKinds <- MCTargetKinds
    Excluded = {"/.h"}
    MaxLocal = 2
    MaxRemote = 1
    MaxUpdate = 1
    MaxWorknum = 2
    WordSize = 8
INVARIANTS Accounting QueueHoldsWaiting Slots Mounting SyncCount Mirrors
PROPERTIES EveryJobEnds KeepsWhatIsThere
CHECK_DEADLOCK FALSE
