CONSTANTS
    Conn = {1, 2}
    Cid = {1}
    StepCounts = {2}
    Repeats = {1, 2, 9}
    MaxCommands = 2
    UintMax = 256
    MaxRequests = 3
    MaxRestarts = 1
SPECIFICATION Spec
INVARIANTS StoreSound ToldContinues
PROPERTY EndedGoes
