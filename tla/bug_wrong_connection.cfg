SPECIFICATION Spec
CONSTANTS
    t1 = t1
    t2 = t2
    pve = pve
    n1 = n1
    Tickets = {t1, t2}
    Addrs = {1, 2}
    NoTicket = NoTicket
    NoAddr = 0
    Misfortunes = {}
    Conns = {1, 2}
    Nodes = {pve, n1}
    NodesOn <- TwoHosts
    NoNode = NoNode
    Slots = {1, 2}
    NoSlot = 0
    Requests <- HostAsks
    Mentions <- OwnNotes
    Products <- ProxmoxOnly
    MaxHops = 2
    MaxRuns <- Once
PROPERTY
    CleansUpOwnVm
CHECK_DEADLOCK FALSE
