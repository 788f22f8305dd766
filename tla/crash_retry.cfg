SPECIFICATION Spec
CONSTANTS
    d1 = d1
    d2 = d2
    main = main
    alt = alt
    t1 = t1
    t2 = t2
    t3 = t3
    Chapters = {1, 2}
    Drafts = {d1, d2}
    Branches = {main, alt}
    Main = main
    TxIds = {t1, t2}
    NoDraft = NoDraft
    NoSnap = NoSnap
    NoBranch = NoBranch
    NoHead = NoHead
    NoTx = NoTx
    NoReply = NoReply
    Torn = Torn
    ScanWindow = 5
    Serial = TRUE
    Valid <- MCValid
    FaultPoints <- UnprotectedFaults
    CrashPoints <- Crashes
INVARIANTS
    AckImpliesPublished
