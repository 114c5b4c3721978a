SPECIFICATION FairSpec
CONSTANTS
    p1 = p1  p2 = p2  e1 = e1  e2 = e2
    Pollers = {p1}
    InstanceOf <- OneInstance
    Changes <- SmallMailbox
    CreatePolicy = "ignored"
    Limit = 1
    MaxFeed = 2
    MaxEpoch = 3
    MaxVersion = 2
PROPERTIES
    CatchesUp
CHECK_DEADLOCK FALSE
