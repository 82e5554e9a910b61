SPECIFICATION FairSpec
CONSTANTS
    Locations = {"task10", "task16"}
    NoSession = NoSession
    NoMirror = NoMirror
    NoBatch = NoBatch
    MaxFaults = 3
    MaxQueue = 2
INVARIANTS
    DurableBeforeSent
    ConfirmedMatchesServer
PROPERTIES
    ImplementsDelivery
    EventuallyDelivered

