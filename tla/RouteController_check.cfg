CONSTANTS
    w1 = w1  w2 = w2
    p1 = p1  p2 = p2
    a1 = a1  a2 = a2  x1 = x1
    NoIP = NoIP
    Absent = Absent
    Workers = {w1, w2}
    Pods = {p1, p2}
    IPs = {a1, x1}
    RouterCIDR = {a1}
    Graceful = TRUE
    MaxChanges = 4
    MaxFaults = 1
SPECIFICATION FairSpec
CHECK_DEADLOCK FALSE
INVARIANTS TypeOK OneWorkerPerItem NothingForgotten
PROPERTY ChangesPublished
