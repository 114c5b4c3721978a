SPECIFICATION Spec
CONSTANTS
    e1 = e1  c1 = c1  c2 = c2  d1 = d1  u1 = u1
    w1 = w1  w2 = w2  s1 = s1  s2 = s2
    Rows = {c1, c2, u1}
    Emails = {e1}
    Workers = {w1, w2}
    Sessions = {s1, s2}
    NoRow = NoRow
    NoSession = NoSession
    EmailOf <- OrderEmail
    KindOf <- OrderKind
    PolicyOf <- OrderPolicy
    SessionOf <- OwnSession
    MaxRetries = 0
    VMax = 4
    MaxEpoch = 0
    MaxAuthority = 2
    MaxRenewals = 0
INVARIANTS
    NoSilentDrop
SYMMETRY SwapProcesses
PROPERTIES
    SettledStays
CHECK_DEADLOCK FALSE
