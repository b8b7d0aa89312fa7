SPECIFICATION ProcessFairSpec
CONSTANTS
    Callers = {main, h1}
    Main = main
    Conns = {c1, c2}
    None = None
    DefaultGateway = TRUE
CHECK_DEADLOCK FALSE
PROPERTY TermReachesTeardown
