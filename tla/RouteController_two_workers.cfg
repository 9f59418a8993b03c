CONSTANTS
    w1 = w1  w2 = w2
    p1 = p1  p2 = p2
    a1 = a1  a2 = a2  x1 = x1
    NoIP = NoIP
    Absent = Absent
    Workers = {w1, w2}
    Pods = {p1, p2}
    IPs = {a1, a2}
    RouterCIDR = {a1, a2}
    Graceful = FALSE
    MaxChanges = 4
    MaxFaults = 0
SPECIFICATION FairSpec
CHECK_DEADLOCK FALSE
PROPERTY Converges
