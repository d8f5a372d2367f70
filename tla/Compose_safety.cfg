SPECIFICATION Spec
CONSTANTS
    NameBuf = 256
    LabelLen = 2
    MaxOffset = 60
    AllocInitial = 40
    AllocChunk = 8
    NoLimit = NoLimit
    Requests <- MCRequests
    Entries <- MCEntries
    TypeOrder <- MCTypeOrder
    Failures = {"NAMEERR", "SERVFAIL"}
    MaxHops = 2
    UdpBufSize = 80
    udpbufsize = 120
    RndRecs = TRUE
INVARIANTS Legible  Coherent
PROPERTIES Progresses
