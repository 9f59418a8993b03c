CONSTANTS
    n1 = n1  n2 = n2
    a1 = a1
    Nothing = Nothing
    Policies = {n1, n2}
    Pods = {a1}
    Selects <- SelectsAll
    Starts <- Running
    MaxChanges = 2
    MaxFaults = 0
SPECIFICATION Spec
INVARIANT NeverBlocked
SYMMETRY PolicySymmetry
