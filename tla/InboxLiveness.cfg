SPECIFICATION FairSpec
CONSTANTS
    e1 = e1  c1 = c1  c2 = c2  d1 = d1  u1 = u1
    w1 = w1  w2 = w2  s1 = s1  s2 = s2
    Rows = {c1, d1}
    Emails = {e1}
    Workers = {w1}
    Sessions = {s1}
    NoRow = NoRow
    NoSession = NoSession
    EmailOf <- RaceEmail
    KindOf <- RaceKind
    PolicyOf <- RacePolicy
    SessionOf <- OneSession
    MaxRetries = 1
    VMax = 8
    MaxEpoch = 0
    MaxAuthority = 1
    MaxRenewals = 1
PROPERTIES
    LeaseResolves
    RowSettles
CHECK_DEADLOCK FALSE
