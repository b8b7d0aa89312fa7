SPECIFICATION FairSpec
CONSTANTS
    Policies <- AllWays
    IdSpace = 4
    Responses <- MCResponses
    MaxUnasked = 1
INVARIANTS
    NegotiatedIsAgreed
    GatewayNeverDiscards
    OneRequestOutstanding
    WireIsFaithful
PROPERTIES
    NegotiationEnds
CHECK_DEADLOCK FALSE
