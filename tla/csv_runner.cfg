SPECIFICATION FairSpec
CONSTANTS
    Jobs = {j1}
    MaxRows = 3
    MaxAttempts = 3
    MaxFaults = 2
INVARIANTS VerdictsAreHonest RequestsAreBounded
PROPERTIES SettledStays ImplementsLifecycle JobSettles
CHECK_DEADLOCK FALSE
