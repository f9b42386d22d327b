\* One tab, a draft and a code not yet used, two requests, one load at a time
\* besides the reloads.
SYMMETRY MCSymmetry
SPECIFICATION WSpec
CONSTANTS
    r1 = r1  r2 = r2  l1 = l1
    None = None
    Requests = {r1, r2}
    DemoContent = "k0"
    Slots = {l1}
    Searches = {{"PD-001"}}
    Users = {"olga", "rita"}
    Codes = {"PD-001", "PD-009"}
    Contents = {"k0", "k1"}
    Blank = ""
    Targets = {"observe"}
    Ops = {"create", "update", "transition"}
    Role <- MCRole
    SeedStatus <- MCSeed
    SeedPreparer = "olga"
    SeedReviewer = "rita"
    SeedContent = "k0"
    Speculative = FALSE
    MaxVersion = 4
    Faults = FALSE
INVARIANTS
    ReviewedAsShown
    PageToldTruth
    ReloadShowsChange
    OffersMatchServices
PROPERTIES
    CallersNameShownVersions
