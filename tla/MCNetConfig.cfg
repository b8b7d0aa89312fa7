SPECIFICATION Spec
CONSTANTS
    low = low
    high = high
    corp = corp
    Nil = Nil
    Nets = {low, high, corp}
    Documents <- SomeAnswers
    Flags <- SomeFlags
    Halves <- BothHalves
    OverGateway = {high}
    MaxTunnels = 2
CHECK_DEADLOCK FALSE
INVARIANTS
    NeverThroughItself
    RoutesAccountedFor
PROPERTIES
    OthersUntouched
    RevertRestores
