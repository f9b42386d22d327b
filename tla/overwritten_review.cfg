\* A caller names a version ahead of the one it read: a finalized
\* decision is written over.
SPECIFICATION Spec
CONSTANTS
    r1 = r1  r2 = r2  r3 = r3
    None = None
    Requests = {r1, r2}
    Users = {"olga", "rita", "adam"}
    Codes = {"PD-001"}
    Contents = {"k0", "k1"}
    Blank = ""
    Targets = {"observe"}
    Ops = {"update", "transition"}
    Role <- MCRole
    SeedStatus <- MCSeedDraft
    SeedPreparer = "olga"
    SeedReviewer = "rita"
    SeedContent = "k0"
    Speculative = TRUE
    MaxVersion = 4
    Faults = FALSE
INVARIANTS
    ReviewIsFinal
