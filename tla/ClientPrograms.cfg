SPECIFICATION Spec
CONSTANTS
    MaxFrames = 5
    Programs = {"ildec", "demo"}
    N = 3
    MaxPictures = 4
    MaxRounds = 2
    MaxDecoded = 2
    MaxIncoming = 2
    MaxHellos = 3
    MaxFaults = 2
INVARIANTS
    BuffersSound
    SetupSound
    PlayerSound
    AcksInOrder
PROPERTIES
    LastFrameDecoded
    SetupEnds
    StopReturns
    Recovers
CHECK_DEADLOCK FALSE
