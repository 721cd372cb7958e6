SPECIFICATION Spec
CONSTANTS
    s1 = s1
    s2 = s2
    px = px
    vm = vm
    Streams = {s1, s2}
    Loop = Loop
    Endpoints = {vm}
    Vmware = {vm}
    MaxChanges = 1
    MaxFaults = 1
    NoStream = NoStream
    NoKey = NoKey
    Rotated = Rotated
    Abandons = FALSE
INVARIANTS
    TypeOK
    OneSetup
    DryRunsWriteNothing
PROPERTIES
    KeysAgree
    CatalogConverges
