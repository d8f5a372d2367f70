SPECIFICATION Spec
CONSTANTS
    NQ = 2
    ParQueries = 1
    GlobalTimeout = 2
    Timeout = 1
    Methods = {"UDP_ONLY", "TCP_UDP", "UDP_TCP"}
    Edns = {}
    AuthServ <- MCAuthServ
    Tested = {0}
    Trusted = {0}
    Rep = 2
    MaxIdle = 1
    MaxBusy = 1
CHECK_DEADLOCK FALSE
INVARIANTS  RepliesUsed PatientEnd
 
