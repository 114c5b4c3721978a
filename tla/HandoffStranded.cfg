SPECIFICATION MCSpec
CONSTANTS
    p1 = p1  p2 = p2  t1 = t1  t2 = t2  t3 = t3
    u1 = u1  u2 = u2  d1 = d1  d2 = d2  a1 = a1  a2 = a2
    Procs = {p1}
    Tasks = {t1}
    ProcOf <- OneTask
    Users = {u1}
    Drafts = {d1}
    Addrs = {a1}
    Frozen <- FirstPayload
    MaxRevision = 1
INVARIANTS
    ApprovalResumable
CHECK_DEADLOCK FALSE
