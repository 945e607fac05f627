SPECIFICATION Spec
CONSTANTS
    c1 = c1
    c2 = c2
    m1 = m1
    Thread = {t1, t2, loop}
    Loop = loop
    Provider = {p1}
    Rotating = {p1}
    State = {s1}
    Connector = {c1, c2}
    Existing = {c1, c2}
    None = None
    MaxTokens = 2
    MaxRestarts = 1
    MaxRequests = 3
    Content = {m1}
    Uploads <- OneUpload
    Deliveries <- MCDeliveries
    Signing = TRUE
    MaxItems = 2
    MaxRuns = 2
    Attempts = 2
SYMMETRY Symmetry
CONSTRAINT Apart
INVARIANTS
    TypeOK
    OneConnectorPerState
    VaultFollowsPlatform
    EveryRegistrationAnchored
    SyncSkipsKnown
    DisconnectStops
CHECK_DEADLOCK FALSE
