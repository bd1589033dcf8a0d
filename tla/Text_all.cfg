SPECIFICATION TextSpec
CONSTANTS
    Chars <- MCChars
    Blanks <- MCBlanks
    Snippets <- MCSnippets
    File <- MCFile
    NumUndoLevels = 1
    ClearOnSave = FALSE
    Mixes <- MCMixes
    MaxGroups = 2
    MaxText = 6
    MaxScanned = 4
    Alphabet <- MCAlphabet
    Languages <- MCLanguages
INVARIANTS RedoKept CleanMeansSaved InOrder CacheRight
PROPERTIES History DirtySpec EventuallyScanned
