SPECIFICATION Spec
CONSTANTS
    acme = acme
    other = other
    proxy = proxy
    addr1 = addr1
    addr2 = addr2
    MaxEvents = 3
    MaxBatch = 2
    Stop = Stop
    Clients <- MCClients
    None = None
    Window = 2
    MaxPerMinute = 1
    MaxRequests = 2
    Tenants = {acme, other}
    NoOrg = NoOrg
    Free = Free
    MaxPosts = 2
    Batches <- MCBatches
    Sampled = {acme}
    SdkClient <- MCSdkClient
    SdkOrg = acme
    web = web
    i1 = i1
    i2 = i2
    Scans = {s1, s2}
    Chunks = 2
    Files = 2
    Collection <- MCCollection
    Items <- MCItems
    Fallback = Fallback
INVARIANTS EventsAreKept
PROPERTIES ImplementsFixedWindow LimitIsFair IngestionIsScoped NothingWaitsForEver
CHECK_DEADLOCK FALSE
