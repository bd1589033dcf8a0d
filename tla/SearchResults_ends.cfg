SPECIFICATION Spec
CONSTANTS
    Docs <- MCDocs
    Query <- MCQuery
    Replacement <- MCReplacement
    InitText <- MCInitText
    Options <- MCOptions
    Letters = {"b"}
    MaxEdits = 1
    MaxRuns = 2
    MaxLength = 6
    MaxUpset = 0
PROPERTY ButtonsReturn
CHECK_DEADLOCK FALSE
