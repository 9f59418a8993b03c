CONSTANTS
    p1 = p1  p2 = p2
    c1 = c1  c2 = c2
    n1 = n1
    h1 = h1
    a1 = a1  a2 = a2
    None = None
    Blank = Blank
    Procs = {p1, p2}
    Containers = {c1, c2}
    Networks <- OneNet
    IPs <- IPs3
    Subnet <- Subnet3
    HostIP <- HostOne
    MAX_IPS = 3
    MaxFaults = 0
SPECIFICATION Spec
PROPERTY ReleaseOnlyOwn
