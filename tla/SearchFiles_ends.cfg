SPECIFICATION Spec
CONSTANTS
    MaxWorknum = 1
    WordSize = 16
    MaxThreads = 1
    Searches <- MCSearches
    Runs <- MCRuns
    Dirs = {"top", "sub"}
    Files = {"a", "b"}
    Tree <- MCDeepTree
    MaxDepth = 2
    Top = "top"
    IoErrors = TRUE
PROPERTY EverySearchEnds
CHECK_DEADLOCK FALSE
