SPECIFICATION Spec
CONSTANTS
    w1 = w1
    w2 = w2
    r1 = r1
    r2 = r2
    p1 = p1
    k1 = k1
    k2 = k2
    a1 = a1
    a2 = a2
    Worker = {w1, w2}
    Project = {p1}
    Release = {r1}
    Key = {}
    Artifact = {a1, a2}
    ProjectOf <- MCProjectOf
    ReleaseOf <- MCReleaseOf
    MaxJobs = 2
    NumEvents = 1
    PageSize = 1
    ScanLimit = 2
    QueueLimit = 2
    MaxAttempts = 2
    MaxGeneration = 1
SYMMETRY Symmetry
INVARIANTS
    OneRunningPerProject
PROPERTIES
    NeverUndoes
