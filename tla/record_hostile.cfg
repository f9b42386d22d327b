\* Callers name any version and any status, calls fail at any step, and
\* the server may crash.
SPECIFICATION Spec
CONSTANTS
    r1 = r1  r2 = r2  r3 = r3
    None = None
    Requests = {r1, r2, r3}
    Users = {"olga", "adam", "vera"}
    Role <- MCRole
    Codes = {"DF-001"}
    Service <- MCService
    Statuses <- MCStatuses
    Contents = {"k0"}
    Blank = ""
    Targets = {"verified", "monitoring", "observe"}
    Ops = {"update", "transition", "delete"}
    SeedStatus <- MCSeedStatus
    SeedContent = "k0"
    Speculative = TRUE
    MaxVersion = 3
    Faults = TRUE
SYMMETRY MCSymmetry
INVARIANTS
    TypeOK
    OneDeletion
    ReplyShowsWrite
    AcknowledgedIsAudited
