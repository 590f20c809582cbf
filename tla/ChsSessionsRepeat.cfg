CONSTANTS
    Conn = {1}
    Cid = {1}
    StepCounts = {1, 2}
    Repeats = {0, 1, 2, 9}
    MaxCommands = 1
    UintMax = 256
    MaxRequests = 4
    MaxRestarts = 0
SPECIFICATION Spec
INVARIANT RepeatAccepted
