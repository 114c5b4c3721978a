SPECIFICATION MCSpec
CONSTANTS
    Parts = {"runtime", "workflow"}
    Threshold = 2
    Window = 6
    Interval = 2
    Mails <- MCMails
    WriterTries = 2
    ReviewTries = 2
INVARIANTS
    RuntimeInv
    ReleasedWhenQuiet
    WorkflowInv
PROPERTIES
    CallsSpaced
    ServingMovesOn
    RunEnds
CHECK_DEADLOCK FALSE
