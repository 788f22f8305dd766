SPECIFICATION Spec
CONSTANTS
    duel = duel
    oath = oath
    sword = sword
    Contents <- MCContents
    MaxChapter = 1
    MaxItems = 2
    MaxRows = 1
    MaxUses = 3
INVARIANTS
    StoredIsHeld
    Forgotten
    HitsAreRight
    SqliteFindsAll
SYMMETRY MCSymmetry
