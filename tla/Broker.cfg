CONSTANTS
    o1 = o1
    o2 = o2
    t1 = t1
    t2 = t2
    a1 = a1
    a2 = a2
    c1 = c1
    c2 = c2
    r1 = r1
    r2 = r2
    Owners = {o1, o2}
    Tokens = {t1, t2}
    Accounts = {a1, a2}
    Expected = {a1}
    Callbacks = {c1, c2}
    Refreshes = {r1, r2}
    MaxVersion = 5
    None = None
SYMMETRY Symmetric
SPECIFICATION Spec
INVARIANTS
    TypeOK
    EvidenceIsCurrent
    ReadyIsExclusive
PROPERTIES
    AuthorizationIsSingleUse
CHECK_DEADLOCK FALSE
