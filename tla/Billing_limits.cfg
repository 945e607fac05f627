SPECIFICATION Spec
CONSTANTS
    t1 = t1
    t2 = t2
    e1 = e1
    e2 = e2
    e3 = e3
    None = None
    Thread = {t1, t2}
    Entry = {e1, e2, e3}
    Quota <- MCQuota
    Slots <- MCSlots
    Keys <- MCKeys
    MaxMonth = 1
    MaxMade = 2
    MaxIngested = 1
SYMMETRY Symmetry
INVARIANTS
    TypeOK
    QuotaKept
    Metered
    LimitsBounded
