SPECIFICATION MCSpec
CONSTANTS
    Saves = {a, b}
    Items = {item}
    Network = {i, x}
    Invalid = {x}
    NoSave = NoSave
    None = None
    MaxMoves = 2
    MaxPackets = 1
    MaxItems = 2
    MaxSwitches = 1
    MaxFaults = 1
INVARIANTS
    AppliedOnlyIfGranted
    JournalFromServer
PROPERTIES
    CommandMatchesLedger
    AppliedKept
    ItemsSettle
CHECK_DEADLOCK FALSE
