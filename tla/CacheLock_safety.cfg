SPECIFICATION FairSpec
CONSTANTS
    q1 = q1
    q2 = q2
    q3 = q3
    s1 = s1
    Threads = {q1, q2, q3, s1}
    Emptiers = {s1}
    MaxTries = 2
CHECK_DEADLOCK FALSE
INVARIANTS LockInv
PROPERTIES ImplementsRWLock WaitersServed ExitCompletes
