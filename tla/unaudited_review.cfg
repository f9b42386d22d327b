\* The audit entry is written after the transaction: a failure or a
\* crash between the two leaves a final status without one.
SPECIFICATION Spec
CONSTANTS
    r1 = r1  r2 = r2  r3 = r3
    None = None
    Requests = {r1, r2}
    Users = {"olga", "rita", "adam"}
    Codes = {"PD-001"}
    Contents = {"k0", "k1"}
    Blank = ""
    Targets = {"observe"}
    Ops = {"transition"}
    Role <- MCRole
    SeedStatus <- MCSeedDraft
    SeedPreparer = "olga"
    SeedReviewer = "rita"
    SeedContent = "k0"
    Speculative = FALSE
    MaxVersion = 4
    Faults = TRUE
INVARIANTS
    EveryReviewAudited
