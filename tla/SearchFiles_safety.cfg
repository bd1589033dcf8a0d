SPECIFICATION Spec
CONSTANTS
    MaxWorknum = 1
    WordSize = 16
    MaxThreads = 1
    Searches <- MCSearches
    Runs <- MCRuns
    Dirs = {"top", "sub"}
    Files = {"a", "b"}
    Tree <- MCTree
    MaxDepth = 2
    Top = "top"
    IoErrors = TRUE
INVARIANTS Counts DoneMeansAll
CHECK_DEADLOCK FALSE
