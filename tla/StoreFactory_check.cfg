CONSTANTS
    p1 = p1  p2 = p2
    c1 = c1  c2 = c2
    q1 = q1  q2 = q2
    None = None
    Procs = {p1, p2}
    Containers = {c1, c2}
    Ports = {q1, q2}
    MAX_ENIS = 1
    MaxFaults = 2
SPECIFICATION StoreFairSpec
INVARIANTS TypeOK OnePortEach NoOrphanPorts LeaseNamed LeaseAttached EnisBounded
PROPERTY EniDelSucceeds
