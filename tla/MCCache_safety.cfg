SPECIFICATION Spec
CONSTANTS
    TypeOrder <- MCTypeOrder
    ExtTypes = {"SRV"}
    Excludes <- MCExcludes
    CACHE_LAT = 1
    MinTtl = 1
    MaxTtl = 2
    NegTtl = 1
    CentSz = 1
    ExtSz = 1
    SetSz = 1
    RrSz = 1
    Threads = {t1}
    Names <- MCNames
    Asked <- MCAsked
    Answers <- MCAnswers
    LocalEnts <- MCLocalEnts
    NegEnts <- MCNegEnts
    ConfEnts <- MCConfEnts
    RevName <- MCRevName
    Bucket <- MCBucket
    Buckets = 2
    Selections <- MCSelections
    MaxSize = 11
    PermSize = 8
    MaxTime = 3
    MaxStarts = 2
    MaxInvals = 1
    MaxOom = 1
    MaxAdds = 2
CHECK_DEADLOCK FALSE
INVARIANTS  SizeBounded
PROPERTIES  LookupCurrent RestartKeeps
