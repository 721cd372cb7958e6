SPECIFICATION FairSpec
CONSTANTS
    t1 = t1
    t2 = t2
    pve = pve
    n1 = n1
    Tickets = {t1, t2}
    Addrs = {1, 2}
    NoTicket = NoTicket
    NoAddr = 0
    Misfortunes = {"lostReply", "releaseError", "destroyError"}
    Conns = {1, 2}
    Nodes = {pve, n1}
    NodesOn <- ClusterAndHost
    NoNode = NoNode
    Slots = {1, 2}
    NoSlot = 0
    Requests <- MixedAsks
    Mentions <- PrefixNotes
    Products <- Pairs
    MaxHops = 2
    MaxRuns <- Approvals
INVARIANTS
    TypeOK
    HeldByOne
    StraysBounded
    PlacedAsRequested
    CompletedVmReady
PROPERTIES
    ImplementsPool
    OwnVmOnly
    RunsEnd
CHECK_DEADLOCK FALSE
