SPECIFICATION Spec
CONSTANTS
    Chars = {"meng", "jiang"}
    Items <- MCItems
    Wounds = {"cut"}
    Within <- MCWithin
    Currency = {"stones"}
    Realms = {"aperture", "late", "exterior", "third", "second", "unheard"}
    Rank <- MCRank
    LowestRealm = "aperture"
    InitialMerit <- MCInitialMerit
    Passages <- MCPassages
    Drafts <- MCDrafts
    Flying = {"exterior", "third", "second"}
    Apertures <- MCApertures
    MaxChapters = 5
    MaxRevisions = 1
    NoText = NoText
INVARIANTS
    TypeOK
    MeritBooks
    BagIsLastWord
    UsedOnce
    FlightsAreEarned
PROPERTIES
    RealmNeverFalls
CONSTRAINT Explored
CHECK_DEADLOCK FALSE
