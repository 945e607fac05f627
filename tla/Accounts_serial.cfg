SPECIFICATION Spec
CONSTANTS
    Thread = {t1}
    Account = {a1, a2}
    Email = {e1}
    Token = {k1, k2, k3}
    None = None
    Expiring = {k1, k2, k3}
    MaxRestarts = 1
SYMMETRY Symmetry
INVARIANTS
    TypeOK
    OneLivePerFamily
    ExchangedNeverLive
    RevocationHolds
CHECK_DEADLOCK FALSE
