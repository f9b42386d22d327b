\* Three requests at two processes, with a Redis that fails or is not there.
SPECIFICATION Spec
CONSTANTS
    r1 = r1  r2 = r2  r3 = r3
    k1 = k1  k2 = k2  k3 = k3
    p1 = p1  p2 = p2
    None = None
    Requests = {r1, r2, r3}
    Processes = {p1, p2}
    Keys = {k1, k2, k3}
    Limit = 1
    CleanupAt = 2
    LastWindow = 2
    Faults = TRUE
    MaxCount = 2
SYMMETRY MCSymmetry
INVARIANTS
    CounterLimit
    RefusedIsOverLimit
    StaleBounded
PROPERTIES
    ImplementsWindow
