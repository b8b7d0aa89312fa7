SPECIFICATION FairSpec
CONSTANTS
    Callers = {h1, h2}
    Conns = {c1, c2}
    None = None
    DefaultGateway = FALSE
INVARIANTS
    OneCallerWorks
    NothingSlipsThrough
    OneOwner
    PublishedIsWatched
    StatusCoherent
PROPERTIES
    AbortedNeverPublished
    ImplementsService
    ServiceIsLive
    LostIsTornDown
