SPECIFICATION Spec
CONSTANTS
    d1 = d1
    d2 = d2
    d3 = d3
    main = main
    alt = alt
    Chapters = {1, 2, 3, 4}
    Drafts = {d1, d2, d3}
    Branches = {main, alt}
    Main = main
    NoDraft = NoDraft
    NoSnap = NoSnap
    NoBranch = NoBranch
    NoHead = NoHead
    Torn = Torn
    ScanWindow = 5
    Serial = TRUE
    Valid <- MCValid
INVARIANTS
    TypeOK
    StateIsHistory
    SnapshotsAreHistory
    BooksBalance
