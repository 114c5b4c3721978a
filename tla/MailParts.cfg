SPECIFICATION MCSpec
CONSTANTS
    None = None
    NoMe = NoMe
    Me = "me"
    Folded <- MCFolded
    Internal <- MCInternal
    Conditions <- MCConditions
    Registries <- MCRegistries
    Views <- MCViews
    HitLists <- MCHitLists
    Answers <- MCAnswers
    MaxTime = 1
    MaxAttempts = 2
    Mails = {m1, m2}
    MaxPowerLoss = 2
    Replies = {r1, r2}
    Cleanups = {c1}
    MaxTokens = 2
    MaxFiles = 3
    Schedulers = {s1}
    DigestMails = {m1}
    MaxParts = 2
    Day = 3
    Flight = 1
    Delay = 2
    MaxClock = 7
SYMMETRY ClickSymmetry
INVARIANTS
    RoutingInv
    RouteFrozen
    OneMailOneVote
    StoreInv
    DriveInv
    DigestInv
PROPERTIES
    CleanupSparesNewer
CHECK_DEADLOCK FALSE
