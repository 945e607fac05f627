SPECIFICATION Spec
CONSTANTS
    Thread = {t1}
    Id = {k1, k2, k3, k4}
    NoId = NoId
    MaxRestarts = 2
INVARIANTS
    TypeOK
    AckedDurable
    ReferencesComplete
PROPERTIES
    NothingDropped
CHECK_DEADLOCK FALSE
