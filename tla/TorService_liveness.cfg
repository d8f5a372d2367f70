SPECIFICATION LiveSpec
CONSTANTS
    w1 = w1
    w2 = w2
    s1 = s1
    s2 = s2
    n1 = n1
    n2 = n2
    c1 = c1
    Workers = {w1}
    Stoppers = {s1}
    NetThreads = {n1}
    Circuits = {c1}
    Actions = {"start"}
    Flaky = FALSE
    MaxQueue = 1
CHECK_DEADLOCK FALSE
PROPERTIES WorkCompletes
