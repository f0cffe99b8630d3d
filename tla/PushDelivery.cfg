SPECIFICATION FairSpec
CONSTANTS
    w1 = w1
    w2 = w2
    s1 = s1
    s2 = s2
    d1 = d1
    c1 = c1
    c2 = c2
    Worker = {w1, w2}
    Send = {s1}
    Device = {d1}
    Target <- MCTarget
    Credential = {c1}
    MaxRetries = 1
    MaxRequeues = 1
    MaxTokens = 2
    NoCredential = NoCredential
INVARIANTS
    TypeOK
    NoUnaskedDuplicate
    HonestOutcome
PROPERTIES
    EverySendEnds
    ImplementsPromise
