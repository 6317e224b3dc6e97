SPECIFICATION Spec
CONSTANTS
    Available = 130
    MaxRefs = 2
    HeaderChars = 60
    RefChars = 60
    MarkerChars = 43
    PlaceholderChars = 120
    NoteChars = 165
    Shapes <- MCShapes
    MaxPlanned = 4
    MaxUnits = 3
    MaxUnitsPerPrompt = 2
    MaxCalls = 2
INVARIANTS EveryUnitOnce PromptsPacked CompleteIsEarned
CHECK_DEADLOCK FALSE
