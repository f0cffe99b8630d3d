SPECIFICATION FairSpec
CONSTANTS
    w1 = w1
    w2 = w2
    r1 = r1
    r2 = r2
    p1 = p1
    k1 = k1
    k2 = k2
    a1 = a1
    a2 = a2
    Worker = {w1}
    Project = {p1}
    Release = {r1}
    Key = {k1, k2}
    Artifact = {}
    ProjectOf <- MCProjectOf
    ReleaseOf <- MCReleaseOf
    MaxJobs = 2
    NumEvents = 2
    PageSize = 1
    ScanLimit = 2
    QueueLimit = 2
    MaxAttempts = 3
    MaxGeneration = 1
PROPERTIES
    EveryJobEnds
