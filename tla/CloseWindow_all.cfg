SPECIFICATION Spec
CONSTANTS
    d1 = d1  d2 = d2  d3 = d3
    NoDoc = NoDoc
    Docs = {d1, d2, d3}
    Opened <- MCOpened
    Kinds <- MCKinds
    MaxActs = 2
INVARIANT WindowSound
PROPERTIES AskedFirst WindowCloses
CHECK_DEADLOCK FALSE
