\* Every operation by every role on a seeded draft and on a code to be
\* created; callers name versions they were shown, and no call fails.
SPECIFICATION Spec
CONSTANTS
    r1 = r1  r2 = r2  r3 = r3
    None = None
    Requests = {r1, r2, r3}
    Users = {"olga", "rita", "adam"}
    Codes = {"PD-001", "PD-009"}
    Contents = {"k0", "k1"}
    Blank = ""
    Targets = {"observe", "draft"}
    Ops = {"create", "update", "transition", "delete", "get"}
    Role <- MCRole
    SeedStatus <- MCSeedDraft
    SeedPreparer = "olga"
    SeedReviewer = "rita"
    SeedContent = "k0"
    Speculative = FALSE
    MaxVersion = 4
    Faults = FALSE
SYMMETRY MCSymmetry
INVARIANTS
    TypeOK
    ReviewIsFinal
    ReviewedContentKept
    IndependentReview
    ReadCoversHistory
    AcknowledgedIsRecorded
    RefusalsAreTrue
    AuditTruthful
PROPERTIES
    HistoryGrowsWithRow
    ImplementsLedger
