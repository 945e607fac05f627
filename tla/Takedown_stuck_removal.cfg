SPECIFICATION Spec
CONSTANTS
    Thread = {t1, t2}
    Incident = {i1}
    Case = {c1, c2}
    None = None
    CaseUpdate = {"removed"}
    MaxRestarts = 1
INVARIANTS
    RemovalHasCase
CHECK_DEADLOCK FALSE
