SPECIFICATION Spec
CONSTANTS
    NQ = 2
    ParQueries = 1
    GlobalTimeout = 2
    Timeout = 1
    Methods = {"TCP_UDP"}
    Edns = {0}
    AuthServ <- MCAuthServ
    Tested = {0}
    Trusted = {0}
    Rep = 2
    MaxIdle = 1
    MaxBusy = 1
INVARIANTS
    ReturnsCode
CHECK_DEADLOCK FALSE
