\* A caller names a version ahead of the row the service read: the
\* status is written over by the one it read, against the graph.
SPECIFICATION Spec
CONSTANTS
    r1 = r1  r2 = r2  r3 = r3
    None = None
    Requests = {r1, r2}
    Users = {"olga", "adam"}
    Role <- MCRole
    Codes = {"DF-001"}
    Service <- MCService
    Statuses <- MCStatuses
    Contents = {"k0", "k1"}
    Blank = ""
    Targets = {"verified", "monitoring"}
    Ops = {"update", "transition"}
    SeedStatus <- MCSeedStatus
    SeedContent = "k0"
    Speculative = TRUE
    MaxVersion = 3
    Faults = FALSE
PROPERTIES
    StatusFollowsGraph
