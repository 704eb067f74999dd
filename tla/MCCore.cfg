\* The event loop: two experiments, two machines, failing and lost writes.
CONSTANTS
    b1 = b1
    None = None
    Keys = {k1, k2}
    Bindings = {b1}
    Results = {ok, bad}
    OfficialDoc = ok
    FailureDoc = bad
    Owners = {o1}
    CoreOwner = o1
    PrepIds = {p1}
    Machines = {m1, m2}
    Workspaces = {w1}
    HoldoutOf <- MCHoldoutOf
    Faults = {"fail", "lost"}
    Fences = {4, 5, 6, 7, 8}
    MaxBoot = 2
    MaxQuits = 1
    Parts = {"core"}
SYMMETRY MCSymmetry
SPECIFICATION ControlSpec
INVARIANTS
    CoreSafe
PROPERTIES
    ImplementsLedger
