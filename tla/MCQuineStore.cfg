CONSTANTS
    k1 = k1
    k2 = k2
    b1 = b1
    b2 = b2
    r1 = r1
    r2 = r2
    None = None
    Keys = {k1, k2}
    Bindings = {b1, b2}
    Results = {r1, r2}
    Owners = {o1}
    PrepIds = {p1, p2}
    Machines = {m1, m2}
    Workspaces = {w1}
    HoldoutOf <- MCHoldoutOf
    Fences = {1,2,3,4,5,6,7,8}
    MaxBoot = 2
SYMMETRY MCSymmetry
SPECIFICATION Spec
INVARIANTS
    StoreSafe
PROPERTIES
    ClosedIsFinal
    RevisionFences
    ImplementsLedger
