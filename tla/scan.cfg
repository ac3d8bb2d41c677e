SPECIFICATION FairSpec
CONSTANTS
    Replicas = {r1, r2}
    Runs = {x1, x2}
    Specs = {a, b, html}
    Parsable = {a, b}
    NoSpec = NoSpec
    Interval = 3
    MaxRun = 1
    MaxCrashes = 1
    MaxFaults = 1
INVARIANTS ScansAreExclusive
PROPERTIES LeaseNeverRewinds UndisturbedDriftIsReported RunEnds
CHECK_DEADLOCK FALSE
