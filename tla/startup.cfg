\* Two processes start, serve two requests and stop over one database, with three
\* failures, crashes or stops.
SPECIFICATION Spec
CONSTANTS
    p1 = p1  p2 = p2
    r1 = r1  r2 = r2
    Processes = {p1, p2}
    Requests = {r1, r2}
    Codes = {"admin", "BA-001", "BA-009", "IR-001", "DF-001", "PD-001", "PD-002"}
    Seeds <- MCSeeds
    Own <- MCOwn
    Reviewed = {"PD-002"}
    MaxAttempts = 2
    MaxFaults = 3
INVARIANTS
    TypeOK
    ServedIsSeeded
PROPERTIES
    StartsOnlySeed
    StopDrains
    StartsUnlessEmptied
