\* Callers of every role name any version, database calls fail at any
\* step and the server may crash: what holds without trusting anyone.
SPECIFICATION Spec
CONSTANTS
    r1 = r1  r2 = r2  r3 = r3
    None = None
    Requests = {r1, r2, r3}
    Users = {"olga", "rita", "adam", "vera"}
    Codes = {"PD-001"}
    Contents = {"k0", "k1"}
    Blank = ""
    Targets = {"observe"}
    Ops = {"update", "transition", "delete"}
    Role <- MCRole
    SeedStatus <- MCSeedDraft
    SeedPreparer = "olga"
    SeedReviewer = "rita"
    SeedContent = "k0"
    Speculative = TRUE
    MaxVersion = 2
    Faults = TRUE
SYMMETRY MCSymmetry
INVARIANTS
    RevisionChain
    SnapshotsHold
    AcknowledgedIsAudited
