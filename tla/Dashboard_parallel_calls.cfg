SPECIFICATION DashboardSpec
CONSTANTS
    Thread = {t1}
    Account = {a1}
    Email = {e1}
    Token = {k1, k2, k3}
    None = None
    Expiring = {}
    MaxRestarts = 0
    Call = {c1, c2}
    MaxLost = 0
INVARIANT
    NoFalseTheft
CHECK_DEADLOCK FALSE
