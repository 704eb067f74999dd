\* A requested exit that is not confirmed, and the loss of the window.
CONSTANTS
    b1 = b1
    None = None
    Keys = {k1}
    Bindings = {b1}
    Results = {ok, bad}
    OfficialDoc = ok
    FailureDoc = bad
    Owners = {o1}
    CoreOwner = o1
    PrepIds = {p1}
    Machines = {m1}
    Workspaces = {w1}
    HoldoutOf <- MCHoldoutOf
    Faults = {"fail", "lost"}
    Fences = {4, 5, 6, 7, 8}
    MaxBoot = 2
    MaxQuits = 1
    Parts = {"desktop"}
SPECIFICATION ControlFairSpec
PROPERTY EofEndsSession
