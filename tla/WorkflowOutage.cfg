SPECIFICATION MCSpec
CONSTANTS
    Parts = {"workflow"}
    Threshold = 2
    Window = 2
    Interval = 1
    Mails <- MCReplies
    WriterTries = 1
    ReviewTries = 1
PROPERTIES
    BreakerRecovers
CHECK_DEADLOCK FALSE
