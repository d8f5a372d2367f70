SPECIFICATION FairSpec
CONSTANTS
    t1 = t1
    t2 = t2
    NoSession = NoSession
    Sessions = {t1, t2}
INVARIANTS VpnInv
PROPERTIES SessionsEnd
