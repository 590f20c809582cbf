SPECIFICATION Spec
CONSTANTS
    Shapes <- MCShapes
    MaxMessages = 3
    Clients = {"c1", "c2"}
    MaxFrames = 2
INVARIANTS
    OwnRequest
    RepliesInOrder
    WholeFrames
PROPERTIES
    MessagesHandedOver
    Accepted
    Served
CHECK_DEADLOCK FALSE
