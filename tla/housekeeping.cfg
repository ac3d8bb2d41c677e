SPECIFICATION Spec
CONSTANTS
    acme = acme
    other = other
    Tenants = {acme, other}
    Items <- MCItems
    Windows = {2}
    DefaultDays = 1
    MaxPuts = 2
    Unset = Unset
    Purged = Purged
    Rest = Rest
    MaxDay = 3
    MaxFaults = 1
    Replicas = {r1, r2}
    Hour = 3
    WeekTicks = 10
    OpensAt = 5
    MaxTick = 18
    Notes = {n1, n2}
    Changes = {c1, c2}
    Patches = {q1, q2}
    Absent = Absent
    ByHand = ByHand
    Empty = Empty
    MaxVersion = 2
    Updates = {u1, u2}
    NoFile = NoFile
    Torn = Torn
INVARIANTS NoticesAreRight
PROPERTIES WindowsArePromises StatusFollowsWorkflow NothingIsLeftUndone
CHECK_DEADLOCK FALSE
