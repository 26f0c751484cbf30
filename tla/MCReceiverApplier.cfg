SPECIFICATION ReceiverSpec
CONSTANTS
    c1 = c1
    c2 = c2
    s1 = s1
    p1 = p1
    p2 = p2
    Conns <- MCConns
    Servers <- MCServers
    MaxSlots = 2
    None = None
    Frames <- MCCustomFrames
    Providers <- MCProviders
    Policies = {p1}
    CustomAnswers <- MCCustomAnswers
INVARIANT NoApplierNoRequest
