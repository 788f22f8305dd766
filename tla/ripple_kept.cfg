SPECIFICATION Spec
CONSTANTS
    Texts <- MCTexts
    ChangedFacts <- MCFacts
    Propagated <- MCPropagated
    Windows <- MCWindows
    MaxOpen = 40
    MaxOverdue = 2
    MaxRevisions = 1
    Mimicry = TRUE
    MinFit = 2
    MaxChapters = 3
    MaxIngests = 1
    MaxLost = 1
    Links <- MCLinks
    PodFacts <- MCFacts
    Protected = {}
    Intensity = 7000
INVARIANT NoDebtForMissingChapters
CHECK_DEADLOCK FALSE
