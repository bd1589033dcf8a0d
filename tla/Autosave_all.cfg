SPECIFICATION Spec
CONSTANTS
    Docs = {d1, d2}
    Names = {n1, n2}
    Contents = {a, b}
    MaxSaves = 2
    MaxMet = 1
    Null = Null
SYMMETRY Symmetry
INVARIANTS JournalSound ModifiedIsRecoverableUnless CrashIsRepaid
CHECK_DEADLOCK FALSE
