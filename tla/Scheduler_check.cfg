CONSTANTS
    n1 = n1  n2 = n2
    w1 = w1  w2 = w2
    None = None
    Nodes = {n1, n2}
    Servers = {1, 2}
    Home <- Homes
    Workers = {w1, w2}
    MAX_ENIS = 1
    MAX_IPS = 1
    MaxInstanceEnis = 1
    MaxInstanceIps = 1
    MaxChanges = 4
    MaxFaults = 1
SPECIFICATION FairSpec
INVARIANTS TypeOK CollectedAll ScoresValid
PROPERTY CycleEnds
