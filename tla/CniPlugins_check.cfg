CONSTANTS
    c1 = c1  c2 = c2
    eth0 = eth0  eth1 = eth1  eth2 = eth2  tmp = tmp
    t1 = t1  t2 = t2
    Containers = {c1, c2}
    HostNames = {eth1, eth2}
    IfName = eth0
    TmpName = tmp
    NoName = NoName
    MaxFaults = 1
    Tables = {t1, t2}
    Dsts = {1, 2}
    ChainConfs <- MCChainConfs
    MaxTries = 2
    NoTable = NoTable
    NoDev = NoDev
SPECIFICATION FairSpec
INVARIANTS TypeOK UpWired DelClean RetryFinds OwnTable
PROPERTIES AddUndisturbed DelCompletes
