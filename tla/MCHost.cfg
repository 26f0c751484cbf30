SPECIFICATION HostSpec
CONSTANTS
    c1 = c1
    c2 = c2
    c3 = c3
    s1 = s1
    s2 = s2
    Conns <- MCConns
    Servers <- MCServers
    MaxSlots = 2
    None = None
SYMMETRY MCSymmetry
INVARIANTS
    HostTypeOK
    Bounded
    NothingAfterReturn
    CleanStop
    AdmissionStopped
PROPERTIES
    RefusedOnlyWhenFull
    ImplementsBoundedService
