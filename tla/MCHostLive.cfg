SPECIFICATION FairHostSpec
CONSTANTS
    c1 = c1
    c2 = c2
    s1 = s1
    s2 = s2
    Conns <- MCConns
    Servers <- MCServers
    MaxSlots = 1
    None = None
PROPERTIES
    ShutdownCompletes
    CallsEnd
