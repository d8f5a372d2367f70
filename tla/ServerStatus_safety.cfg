SPECIFICATION Spec
CONSTANTS
    Q = {q1}
    Hosts = {"a", "b", "c", "d", "r"}
    Table0 <- MCTable0
    Tables <- MCTables
    Addresses <- MCAddresses
    RootAddresses <- MCRoot
    MaxCmds = 2
    MaxAsked = 2
    MaxTimeouts = 1
    MaxFails = 1
CHECK_DEADLOCK FALSE
INVARIANTS AccessExact
PROPERTIES TableStable  DueTested
