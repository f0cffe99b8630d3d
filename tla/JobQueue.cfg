SPECIFICATION Spec
CONSTANTS
    w1 = w1
    w2 = w2
    r1 = r1
    r2 = r2
    p1 = p1
    k1 = k1
    k2 = k2
    a1 = a1
    a2 = a2
    Worker = {w1, w2}
    Project = {p1}
    Release = {r1}
    Key = {k1}
    Artifact = {}
    ProjectOf <- MCProjectOf
    ReleaseOf <- MCReleaseOf
    MaxJobs = 1
    NumEvents = 4
    PageSize = 2
    ScanLimit = 3
    QueueLimit = 2
    MaxAttempts = 3
    MaxGeneration = 2
SYMMETRY Symmetry
INVARIANTS
    TypeOK
    CheckpointExact
    SuccessCoversScope
PROPERTIES
    CancelIsFinal
