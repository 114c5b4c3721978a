SPECIFICATION FairSpec
CONSTANTS
    p1 = p1  p2 = p2  e1 = e1  e2 = e2
    Pollers = {p1, p2}
    InstanceOf <- OwnInstance
    Changes <- Mailbox
    CreatePolicy = "ignored"
    Limit = 2
    MaxFeed = 2
    MaxEpoch = 3
    MaxVersion = 1
INVARIANTS
    PollingInv
    NothingSkipped
PROPERTIES
    FencedAndForward
    CatchesUp
CHECK_DEADLOCK FALSE
