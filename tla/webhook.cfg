SPECIFICATION FairDeliverySpec
CONSTANTS
    Webhooks = {w1}
    Events = {e1}
    MaxAttempts = 4
    MaxCrashes = 2
    MaxFaults = 1
INVARIANTS DeliveriesAreTracked DuplicatesAreBounded
PROPERTIES NothingStaysPending
CHECK_DEADLOCK FALSE
