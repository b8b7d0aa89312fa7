SPECIFICATION Spec
CONSTANTS
    Installers = {i1}
    Users = {alice}
    Root = Root
    Nobody = Nobody
    Releases = {1, 2}
    InTime = {TRUE, FALSE}
    MaxJobs = 3
    Unverified = Unverified
    None = None
    Retrying = Retrying
CHECK_DEADLOCK FALSE
INVARIANTS
    UnitHasItsBinary
    AllowlistAccumulates
PROPERTIES
    InstallTakesEffect
