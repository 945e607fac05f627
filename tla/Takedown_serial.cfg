SPECIFICATION Spec
CONSTANTS
    Thread = {t1}
    Incident = {i1, i2}
    Case = {c1, c2, c3}
    None = None
    CaseUpdate = {"open", "removed"}
    MaxRestarts = 1
INVARIANTS
    TypeOK
    RemovalHasCase
    CaseImpliesDecided
PROPERTIES
    DecisionIsFinal
    FollowsWorkflow
CHECK_DEADLOCK FALSE
