SPECIFICATION Spec
CONSTANTS
    Uris <- MCUris
    Root = "/"
    Parent <- MCParent
    Kinds <- MCKinds
    MayBeOdd = {"/d/f"}
    IoErrors = TRUE
    MaxRecords = 5
    MaxChanges = 3
INVARIANTS TreeSound ListsDisk
PROPERTY EveryRefreshEnds
CHECK_DEADLOCK FALSE
