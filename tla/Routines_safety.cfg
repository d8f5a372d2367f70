SPECIFICATION RoutinesSpec
CONSTANTS
    Bytes <- MCBytes
    Msgs <- MCMsgs
    BufSize = 4
    MaxJumps = 3
    NameBuf = 256
    Owners = {"o1", "o2"}
    Types = {"A", "AAAA", "SOA", "NXT", "NAPTR", "IPSECKEY", "OPT"}
    NameSizes <- MCNameSizes
    TextSizes = {7, 772}
    RdLengths = {4, 16, 24, 774, 803}
    MsgSizes = {850}
    MaxRecords = 2
    PortRanges <- MCPortRanges
    MaxChanges = 1
CHECK_DEADLOCK FALSE
INVARIANTS InBounds Walkable RecordsSound PortSearch
