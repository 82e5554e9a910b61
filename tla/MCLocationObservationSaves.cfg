SPECIFICATION Spec
CONSTANTS
    Saves = {A, B}
    LocationOrder <- MCOrder
    Rewards <- MCRewards
    NoSave = NoSave
    NoLocation = NoLocation
    NoAck = NoAck
    NoSnapshot = NoSnapshot
    Capacity = 2
    MaxSequence = 3
    MaxFaults = 1
SYMMETRY Symmetry
CHECK_DEADLOCK FALSE
INVARIANTS
    CommittedToOwnSave
