\* Three requests register, edit, move and delete records of the three
\* services; callers name versions they were shown.
SPECIFICATION Spec
CONSTANTS
    r1 = r1  r2 = r2  r3 = r3
    None = None
    Requests = {r1, r2, r3}
    Users = {"olga", "adam"}
    Role <- MCRole
    Codes = {"BA-002", "IR-009", "DF-003"}
    Service <- MCService
    Statuses <- MCStatuses
    Contents = {"k0", "k1"}
    Blank = ""
    Targets = {"retired", "running", "closed"}
    Ops = {"create", "update", "transition", "delete"}
    SeedStatus <- MCSeedStatus
    SeedContent = "k0"
    Speculative = FALSE
    MaxVersion = 3
    Faults = FALSE
SYMMETRY MCSymmetry
INVARIANTS
    WritesAreSerial
    AuditReplays
PROPERTIES
    StatusFollowsGraph
    ImplementsLifecycle
