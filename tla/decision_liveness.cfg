\* Two requests and a report under fairness (no symmetry).
SPECIFICATION RFairSpec
CONSTANTS
    r1 = r1  r2 = r2  q1 = q1
    None = None
    Readers = {q1}
    Sizes = {0, 1}
    Dates = {1, 2}
    MaxInt = 1000
    Requests = {r1, r2}
    Users = {"olga", "adam"}
    Codes = {"PD-001"}
    Contents = {"k0", "k1"}
    Blank = ""
    Targets = {"observe"}
    Ops = {"create", "update", "transition", "delete", "get"}
    Role <- MCRole
    SeedStatus <- MCSeed
    SeedPreparer = "olga"
    SeedReviewer = "adam"
    SeedContent = "k0"
    Speculative = FALSE
    MaxVersion = 4
    Faults = FALSE
INVARIANTS
    SummaryAddsUp
    AuditPagesSkipNoDate
    ListCoversHistory
PROPERTIES
    EveryRequestAnswered
    EveryChangeAudited
