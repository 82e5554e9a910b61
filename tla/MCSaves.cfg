SPECIFICATION BindingSpec
CONSTANTS
    Identities = {u, v}
    Slots = {s}
    None = None
    Unobserved = FALSE
    Gap = FALSE
    MaxGames = 3
    MaxOps = 2
    MaxDrops = 1
    MaxFaults = 1
    Saves <- MCSaves
    Players <- MCPlayers
    PlayerOf <- MCPlayerOf
    GoalLocations = {g1, g2}
    a1 = a1
    a2 = a2
    b = b
    A = A
    B = B
    MaxFailures = 2
    MaxConnections = 2

    
    
PROPERTY OfferReturns
CHECK_DEADLOCK FALSE
