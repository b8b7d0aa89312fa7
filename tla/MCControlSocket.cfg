SPECIFICATION HostFairSpec
CONSTANTS
    Callers = {main, h1}
    Main = main
    Rivals = {rival}
    Conns = {c1, c2}
    None = None
    DefaultGateway = TRUE
CHECK_DEADLOCK FALSE
INVARIANTS
    HandlersAreOver
    ExitOwnsNothing
    ServesAtThePath
PROPERTIES
    TermEndsProcess
