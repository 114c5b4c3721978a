SPECIFICATION MCSpec
CONSTANTS
    i1 = i1  s1 = s1  s2 = s2  c1 = c1  c2 = c2  k1 = k1  k2 = k2  a1 = a1  a2 = a2
    e1 = e1  e2 = e2  e3 = e3  m1 = m1
    Clis = {c1, c2}
    Keys = {k1, k2}
    Actors = {a1, a2}
    Scopes = {f1}
    Builds = {b1}
    Sessions = {s1, s2}
    Instances = {i1}
    InstanceOf <- OneInstance
    BigintMax = 5
    Workers = {w1, w2}
    Pipelines = {p1}
    MaxGeneration = 2
SYMMETRY Swaps
INVARIANTS
    AuthorityInv
    OwnershipInv
PROPERTIES
    SessionsObey
    LedgerImplemented
CHECK_DEADLOCK FALSE
