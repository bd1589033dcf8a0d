SPECIFICATION Spec
CONSTANTS
    Docs <- MCDocs
    Query <- MCQuery
    Replacement <- MCReplacement
    InitText <- MCInitText
    Options <- MCOptions
    Letters = {"b"}
    MaxEdits = 2
    MaxRuns = 2
    MaxLength = 6
    MaxUpset = 0
INVARIANTS SearchSound AllReplaced
CHECK_DEADLOCK FALSE
