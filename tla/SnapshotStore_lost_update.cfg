SPECIFICATION Spec
CONSTANTS
    Thread = {t1, t2}
    Id = {k1, k2}
    NoId = NoId
    MaxRestarts = 0
INVARIANT
    AckedDurable
CHECK_DEADLOCK FALSE
