CONSTANTS
    p1 = p1  p2 = p2  p3 = p3
    c1 = c1  c2 = c2  c3 = c3
    n1 = n1  n2 = n2
    h1 = h1  h2 = h2
    a1 = a1  a2 = a2  a3 = a3  b1 = b1
    None = None
    Blank = Blank
    Procs = {p1, p2}
    Containers = {c1}
    Networks <- TwoNets
    IPs <- IPsTwo
    Subnet <- SubnetTwo
    HostIP <- HostTwo
    MAX_IPS = 3
    MaxFaults = 0
SPECIFICATION Spec
INVARIANT ReleaseClears
