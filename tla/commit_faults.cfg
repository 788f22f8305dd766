SPECIFICATION FairSpec
CONSTANTS
    d1 = d1
    d2 = d2
    main = main
    alt = alt
    t1 = t1
    t2 = t2
    t3 = t3
    Chapters = {1, 2}
    Drafts = {d1, d2}
    Branches = {main}
    Main = main
    TxIds = {t1, t2}
    NoDraft = NoDraft
    NoSnap = NoSnap
    NoBranch = NoBranch
    NoHead = NoHead
    NoTx = NoTx
    NoReply = NoReply
    Torn = Torn
    ScanWindow = 5
    Serial = FALSE
    Valid <- MCValid
    FaultPoints <- EarlyFaults
    CrashPoints <- None
INVARIANTS
    Isolation
    OnlyCommitted
    StateFromCommitted
    AckImpliesPublished
    MemoryTracksChapters
PROPERTIES
    RefinesStory
    TryResolves
