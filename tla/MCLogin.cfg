SPECIFICATION FairSpec
CONSTANTS
    Logins = {l1, l2}
    Requests = {r1, r2, r3}
    Replies <- SomeReplies
    None = None
INVARIANTS
    BrowserFindsListener
    FirstAnswerDecides
PROPERTIES
    LoginLeavesNothing
CHECK_DEADLOCK FALSE
