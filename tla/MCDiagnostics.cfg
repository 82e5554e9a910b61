SPECIFICATION DiagnosticsSpec
CONSTANTS
    a = a
    b = b
    Sessions = {a, b}
    Hosts = {here}
    Host <- OneHost
    NoMarker = NoMarker
    Free = Free
    Segment = 1
    Segments = 1
    Cap = 2
    MaxFaults = 0
    None = None
    Capacity = 3
    Interrupts = FALSE
    Malforms = TRUE
    MaxNext = 4
    MaxRings = 2
    MaxClients = 2
    MaxAcks = 1
    MaxLosses = 1
INVARIANTS
    LogTrue
PROPERTIES
    AcknowledgedLogged
    RingDrained
    
CHECK_DEADLOCK FALSE
