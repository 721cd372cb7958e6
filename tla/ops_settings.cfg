SPECIFICATION Spec
CONSTANTS
    o1 = o1
    o2 = o2
    h1 = h1
    h2 = h2
    h3 = h3
    s1 = s1
    s2 = s2
    Pages = {o1, o2}
    Kind = "vmware"
    Hosts = {h1, h2, h3}
    NoHost = NoHost
    Secrets = {s1, s2}
    NoSecret = NoSecret
    Imported <- EnvFiles
    MaxRows = 2
    MaxEdits = 2
    MaxSaves = 3
SYMMETRY Alike
INVARIANT TypeOK
PROPERTIES
    DefaultIsFirst
    KeepsSecret
CHECK_DEADLOCK FALSE
