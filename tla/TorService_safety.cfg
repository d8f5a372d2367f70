SPECIFICATION Spec
CONSTANTS
    w1 = w1
    w2 = w2
    s1 = s1
    s2 = s2
    n1 = n1
    n2 = n2
    c1 = c1
    Workers = {w1}
    Stoppers = {s1}
    NetThreads = {n1}
    Circuits = {c1}
    Actions = {"start", "setexit"}
    Flaky = TRUE
    MaxQueue = 1
CHECK_DEADLOCK FALSE
INVARIANTS ServiceInv StartEffective QuietStatusAgrees
