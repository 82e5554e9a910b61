SPECIFICATION MCSpec
CONSTANTS
    Saves = {a, b}
    Items = {item}
    Network = {i}
    Invalid = {}
    NoSave = NoSave
    None = None
    MaxMoves = 2
    MaxPackets = 1
    MaxItems = 0
    MaxSwitches = 0
    MaxFaults = 0
PROPERTY FromOwnLedger
CHECK_DEADLOCK FALSE
