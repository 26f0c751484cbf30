SPECIFICATION FairReceiverSpec
CONSTANTS
    c1 = c1
    c2 = c2
    s1 = s1
    p1 = p1
    p2 = p2
    Conns <- MCConns
    Servers <- MCServers
    MaxSlots = 1
    None = None
    Frames <- MCFrames
    Providers <- MCProviders
    Policies <- MCPolicies
    CustomAnswers <- MCCustomAnswers
PROPERTY ImplementsHost
