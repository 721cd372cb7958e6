SPECIFICATION Spec
CONSTANTS
    o1 = o1
    o2 = o2
    h1 = h1
    h2 = h2
    h3 = h3
    s1 = s1
    s2 = s2
    Pages = {o1}
    Kind = "proxmox"
    Hosts = {h1, h2, h3}
    NoHost = NoHost
    Secrets = {s1, s2}
    NoSecret = NoSecret
    Imported <- NothingOrTwo
    MaxRows = 2
    MaxEdits = 3
    MaxSaves = 2
SYMMETRY AlikeSecrets
PROPERTY KeepsStoredSecret
CHECK_DEADLOCK FALSE
