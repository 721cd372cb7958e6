SPECIFICATION Spec
CONSTANTS
    t1 = t1
    t2 = t2
    s1 = s1
    s2 = s2
    Tickets = {t1, t2}
    Addrs = {a1}
    Slots = {s1}
    NoTicket = NoTicket
    NoAddr = NoAddr
    NoRef = NoRef
    Handlers = {h1}
    Workers = {w1, w2}
    Faults = {"abandon", "crash", "timeLimit", "lostReply", "releaseError", "finalizeError"}
    Provider = "netbox"
    HasCluster = FALSE
    Kind = "vmware"
    SlotsFor <- AnySlot
    Mentions <- OwnNotes
    MaxRetries = 0
    MaxGen = 2
    MaxWebhooks = 3
    MaxCrashes = 1
SYMMETRY Symmetry
INVARIANTS
    LeasesOwned
PROPERTIES
    TouchesOnlyOwnLease
CHECK_DEADLOCK FALSE
