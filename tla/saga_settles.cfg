SPECIFICATION FairSpec
CONSTANTS
    t1 = t1
    t2 = t2
    s1 = s1
    s2 = s2
    Tickets = {t1}
    Addrs = {a1}
    Slots = {s1}
    NoTicket = NoTicket
    NoAddr = NoAddr
    NoRef = NoRef
    Handlers = {h1, h2}
    Workers = {w1, w2}
    Faults = {"overlap", "crash", "retry", "finalizeError", "partialVm", "releaseError"}
    Provider = "nautobot"
    HasCluster = TRUE
    Kind = "vmware"
    SlotsFor <- OwnName
    Mentions <- OwnNotes
    MaxRetries = 1
    MaxGen = 1
    MaxWebhooks = 2
    MaxCrashes = 1
INVARIANTS
    JobsCarried
PROPERTIES
    JobsSettle
CHECK_DEADLOCK FALSE
