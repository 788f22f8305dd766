SPECIFICATION Spec
CONSTANTS
    Chars = {"meng", "jiang"}
    Items <- MCItems
    Wounds = {"cut"}
    Within <- MCWithin
    Currency = {"stones"}
    Realms = {"aperture", "late", "exterior", "third", "second", "unheard"}
    Rank <- MCRank
    LowestRealm = "aperture"
    InitialMerit <- MCInitialMerit
    Passages <- MCPassages
    Drafts <- OpeningDrafts
    Flying = {"exterior", "third", "second"}
    Apertures <- MCApertures
    MaxChapters = 3
    MaxRevisions = 1
    NoText = NoText
INVARIANTS
    LegalOpeningPasses
CHECK_DEADLOCK FALSE
