SPECIFICATION ProcessesSpec
CONSTANTS
    c1 = c1
    c2 = c2
    Cmds <- MCCmds
    Kinds <- MCKinds
    MaxOut = 2
    p1 = p1
    p2 = p2
    p3 = p3
    NoProc = NoProc
    Procs <- MCProcs
    Wants <- MCWants
    MaxKills = 1
INVARIANTS Lifetime OutputKept IpcSound
PROPERTY EveryProcessEnds
CHECK_DEADLOCK FALSE
