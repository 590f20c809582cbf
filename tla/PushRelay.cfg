CONSTANTS
    Programs = {"relay", "list", "proxy"}
    Conn = {1, 2}
    MaxAsked = 2
    MaxBroken = 1
CHECK_DEADLOCK FALSE
SPECIFICATION Spec
INVARIANTS QueueSound AnsweredOnce
PROPERTY AllServed
