SPECIFICATION Spec
CONSTANTS
    t1 = t1
    t2 = t2
    s1 = s1
    s2 = s2
    Tickets = {t1, t2}
    Addrs = {a1, a2}
    Slots = {s1, s2}
    NoTicket = NoTicket
    NoAddr = NoAddr
    NoRef = NoRef
    Handlers = {h1, h2}
    Workers = {w1, w2}
    Faults = {"partialVm", "destroyError", "finalizeError", "listError"}
    Provider = "netbox"
    HasCluster = FALSE
    Kind = "proxmox"
    SlotsFor <- AnySlot
    Mentions <- PrefixNotes
    MaxRetries = 0
    MaxGen = 2
    MaxWebhooks = 3
    MaxCrashes = 0
SYMMETRY Symmetry
INVARIANTS
    TypeOK
    OneRunPerJob
    LeasesHeld
    CompletedHoldsLease
    CompletedVmStands
PROPERTIES
    TouchesOnlyOwnVm
    ImplementsLifecycle
CHECK_DEADLOCK FALSE
