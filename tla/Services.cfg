SPECIFICATION Spec
CONSTANTS
    None = None
    Gone = Gone
    e1 = e1
    e2 = e2
    c1 = c1
    u1 = u1
    u2 = u2
    w1 = w1
    w2 = w2
    jira = jira
    hook = hook
    o1 = o1
    o2 = o2
    k1 = k1
    k2 = k2
    m1 = m1
    g1 = g1
    g2 = g2
    x1 = x1
    d1 = d1
    d2 = d2
    r1 = r1
    r2 = r2
    r3 = r3
    r4 = r4
    p1 = p1
    p2 = p2
    owner1 = owner1
    admin1 = admin1
    s1 = s1
    s2 = s2
    s3 = s3
    l1 = l1
    t1 = t1
    t2 = t2
    i1 = i1
    a1 = a1
    a2 = a2
    i2 = i2
    y1 = y1
    y2 = y2
    v1 = v1
    h1 = h1
    z1 = z1
    map1 = map1
    map2 = map2
    mapping = mapping
    image = image
    bundle = bundle
    junk = junk
    src = src
    lib = lib
    pay = pay
    index = index
    fn = fn
    MyApp = MyApp
    b1 = b1
    b2 = b2
    b3 = b3
    n1 = n1
    unknown = unknown
    l2 = l2
    Blank = Blank
    q1 = q1
    q2 = q2
    f1 = f1
    f2 = f2
INVARIANTS
    TypeOK
    NoSecondMessage
    OnlyWholeBackups
    VerifiedIsProved
    ResultsInOrder
    EachOnce
    OnlyWhoMayEnter
    
    
    ResetLosesNothing
    FramesAreTrue
    AppsAreKeptApart
    
PROPERTIES
    RestoredStaysQuiet
    DecisionsStand
CHECK_DEADLOCK FALSE
