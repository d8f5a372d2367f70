CONSTANTS
    NoQuery = NoQuery
    StrictSuid = FALSE
    Queries = {q1, q2}
    ProcLimits = {1}
    ProcqLimits = {0, 1}
SPECIFICATION Spec
CHECK_DEADLOCK FALSE
INVARIANTS CountsExact  NoSilentServers
PROPERTIES  QueuedAnswered
