SPECIFICATION Spec
CONSTANTS
    Thread = {t1, t2}
    Id = {k1, k2, k3}
    NoId = NoId
    MaxRestarts = 1
SYMMETRY Symmetry
INVARIANTS
    RegistrationsComplete
    SnapshotCoversBase
CHECK_DEADLOCK FALSE
