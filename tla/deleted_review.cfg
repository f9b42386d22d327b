\* Deletion checks a status it read earlier: a decision finalized in
\* between is deleted.
SPECIFICATION Spec
CONSTANTS
    r1 = r1  r2 = r2  r3 = r3
    None = None
    Requests = {r1, r2}
    Users = {"olga", "rita", "adam"}
    Codes = {"PD-001"}
    Contents = {"k0", "k1"}
    Blank = ""
    Targets = {"observe"}
    Ops = {"transition", "delete"}
    Role <- MCRole
    SeedStatus <- MCSeedDraft
    SeedPreparer = "olga"
    SeedReviewer = "rita"
    SeedContent = "k0"
    Speculative = FALSE
    MaxVersion = 4
    Faults = FALSE
INVARIANTS
    FinalDecisionsStay
