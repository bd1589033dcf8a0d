SPECIFICATION Spec
CONSTANTS
    Docs = {d1, d2}
    u = u
    v = v
    Uris = {u, v}
    Letters = {"a", "b"}
    Wide = {"b"}
    InitDisk <- MCInitDisk
    NoDoc = NoDoc
    Gone = Gone
    NoRow = NoRow
    Dangling = Dangling
    NoBmark = NoBmark
    Unstored = Unstored
    MaxBookmarks = 2
    MaxLines = 2
    MaxEvents = 3
    MaxUpset = 0
INVARIANTS Agree
PROPERTIES TogglesOff BookmarkReturns
SYMMETRY MCSymmetry
CHECK_DEADLOCK FALSE
