SPECIFICATION Spec
CONSTANTS
    Callers = {h1, h2}
    Conns = {c1, c2}
    None = None
    DefaultGateway = TRUE
INVARIANT NoConnectDuringTeardown
