SPECIFICATION Spec
CONSTANTS
    Policies <- NoSecondDNS
    IdSpace = 4
    Responses <- MCResponses
    MaxUnasked = 2
PROPERTY
    RejectedNotOfferedAgain
CHECK_DEADLOCK FALSE
