SPECIFICATION MCSpec
CONSTANTS
    Kinds = {item, additive}
    Forbidden = {additive}
    Payloads = {p, q}
    Invalid = {}
    RingLimit = 1
    MaxId = 1
    MaxFaults = 1
    MaxHellos = 2
    None = None
    Base = 4
    MaxSessions = 1
    MaxForms = 3
    MaxReloads = 1
    MaxOverlap = 2
    ReloadsWhileReading = FALSE
INVARIANTS
    AtMostOnce
    AutomaticIsNew
    OneExport
PROPERTIES
    ReceiptTruthful
    
    WaitsEnd
CHECK_DEADLOCK FALSE
