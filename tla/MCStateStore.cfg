SPECIFICATION Spec
CONSTANTS
    Writers = {w1, w2}
    Slots = {s1, s2}
    Updates = {u1, u2}
    NoWriter = NoWriter
    NoSlot = NoSlot
    Missing = Missing
    Corrupt = Corrupt
    NoState = NoState
    MaxRevision = 6
    MaxFaults = 3
    MaxDamage = 2
SYMMETRY Symmetry
CHECK_DEADLOCK FALSE
INVARIANTS
    CommittedSurvives
    OneInstance
PROPERTIES
    NothingUndone
    OnlyAuthorizedWrites
