SPECIFICATION Spec
CONSTANTS
    Files = {f1, f2}
    MaxClock = 5
    check_for_modified_on_disk = TRUE
    Null = Null
CONSTRAINT FewMet
SYMMETRY Symmetry
INVARIANTS NothingLost DestroyedLeftAlone
PROPERTY ToldBeforeOverwrite
CHECK_DEADLOCK FALSE
