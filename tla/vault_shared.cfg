SPECIFICATION Spec
CONSTANTS
    api = api
    setup = setup
    a1 = a1
    a2 = a2
    s1 = s1
    Procs = {api, setup}
    Threads = {a1, a2, s1}
    ProcOf <- ApiAndSetup
    NoKey = NoKey
    Fields = {f1}
    NoField = NoField
    Savers = {a1, s1}
    Scripts = {s1}
    ReadFails = TRUE
    TTL = 1
    MaxSaves = 2
    MaxTime = 1
    MaxRestarts = 1
INVARIANTS
    VaultTypeOK
    VaultReadable
PROPERTY HitsAtMostTTLOld
