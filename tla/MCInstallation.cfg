SPECIFICATION MCSpec
CONSTANTS
    a = a
    b = b
    c = c
    earlier = earlier
    later = later
    None = None
    Acquisitions = {a, b, c}
    Remote <- OneElsewhere
    Identified = FALSE
    Serial = TRUE
    LongPause = FALSE
    Patient = FALSE
    MayFail = TRUE
    Siblings = 2
    Releases = {earlier, later}
    Contract <- NewContract
    Installers = {"client"}
    BuildFails = FALSE
    MaxAttempts = 2
    MaxFaults = 3
    MaxInstalls = 0
INVARIANTS
    
    Obligation
PROPERTIES
    ReadyIsCurrent
    AttemptsEnd
CHECK_DEADLOCK FALSE
