SPECIFICATION FairSpec
CONSTANTS
    t1 = t1
    t2 = t2
    s1 = s1
    s2 = s2
    Tickets = {t1}
    Addrs = {a1}
    Slots = {s1}
    NoTicket = NoTicket
    NoAddr = NoAddr
    NoRef = NoRef
    Handlers = {h1}
    Workers = {w1, w2}
    Faults = {"abandon"}
    Provider = "netbox"
    HasCluster = FALSE
    Kind = "proxmox"
    SlotsFor <- AnySlot
    Mentions <- OwnNotes
    MaxRetries = 0
    MaxGen = 3
    MaxWebhooks = 2
    MaxCrashes = 0
PROPERTY JobsSettle
CHECK_DEADLOCK FALSE
