SPECIFICATION StorageSpec
CONSTANTS
    a = a
    b = b
    Sessions = {a, b}
    Hosts = {here}
    Host <- OneHost
    NoMarker = NoMarker
    Free = Free
    Segment = 2
    Segments = 1
    Cap = 4
    MaxFaults = 1
    None = None
    Capacity = 3
    Interrupts = FALSE
    Malforms = FALSE
    MaxNext = 2
    MaxRings = 1
    MaxClients = 1
    MaxAcks = 0
    MaxLosses = 0
SYMMETRY Symmetry
INVARIANTS
    WithinCapacity
    ExportedWhole
    DeathsReported
PROPERTY LiveKept
CHECK_DEADLOCK FALSE
