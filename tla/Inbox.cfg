SPECIFICATION Spec
CONSTANTS
    e1 = e1  c1 = c1  c2 = c2  d1 = d1  u1 = u1
    w1 = w1  w2 = w2  s1 = s1  s2 = s2
    Rows = {c1, d1}
    Emails = {e1}
    Workers = {w1, w2}
    Sessions = {s1, s2}
    NoRow = NoRow
    NoSession = NoSession
    EmailOf <- RaceEmail
    KindOf <- RaceKind
    PolicyOf <- RacePolicy
    SessionOf <- OwnSession
    MaxRetries = 1
    VMax = 5
    MaxEpoch = 1
    MaxAuthority = 2
    MaxRenewals = 0
INVARIANTS
    Inductive
    EffectOnce
    AttemptsFresh
    CancelledUntouched
    ApplicationsLegal
SYMMETRY SwapProcesses
CHECK_DEADLOCK FALSE
