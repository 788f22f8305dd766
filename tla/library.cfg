SPECIFICATION Spec
CONSTANTS
    Spines <- MCSpines
    Entities <- MCEntities
    Mentions <- MCMentions
    Strangers <- MCStrangers
    Options <- MCOptions
    NoCanon = 2
    MaxIngests = 2
    MaxRuns = 2
INVARIANTS
    NoOrphanSpans
    HitsAreCurrent
    MarkedIsStored
    CountedOnce
    NothingSkipped
CHECK_DEADLOCK FALSE
