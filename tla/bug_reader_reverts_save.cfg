SPECIFICATION Spec
CONSTANTS
    api = api
    setup = setup
    a1 = a1
    a2 = a2
    s1 = s1
    Procs = {api, setup}
    Threads = {a1, a2, s1}
    ProcOf <- ApiAndSetup
    NoKey = NoKey
    Fields = {f1, f2}
    NoField = NoField
    Savers = {a1}
    Scripts = {s1}
    ReadFails = FALSE
    TTL = 1
    MaxSaves = 2
    MaxTime = 0
    MaxRestarts = 0
PROPERTY SavesOnlyOwnField
