SPECIFICATION FairSpec
CONSTANTS
    e1 = e1
    e2 = e2
    t1 = t1
    t2 = t2
    a1 = a1
    a2 = a2
    b1 = b1
    Event = {e1}
    Transfer = {t1}
    Worker = {a1, a2, b1}
    Host <- MCHost
    MaxAttempts = 1
    MaxJobs = 2
    NoTransfer = NoTransfer
    NoEvent = NoEvent
    NoArchive = NoArchive
INVARIANTS
    TypeOK
    NeverTwoWriters
    AckedReachesHome
    FinalArchiveIsFinal
    CutoverEvidenceIsLive
PROPERTIES
    EndedJobStaysEnded
    ImplementsHome
    EveryTransferJobEnds
CHECK_DEADLOCK FALSE
