SPECIFICATION FairSpec
CONSTANTS
    MaxClicks = 2
    Cap = 1
    MaxUpsets = 1
    Others = {o}
    None = None
CHECK_DEADLOCK FALSE
INVARIANTS
    FailureOfLastAction
    NewestIsDelivered
    PhaseFollowsWork
PROPERTIES
    WorkEnds
    Converges
