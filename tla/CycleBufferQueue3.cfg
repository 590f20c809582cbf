CONSTANTS
    BufCount = 3
    MaxFrames = 5
    WeakOrder = FALSE
    Blocking = FALSE
SPECIFICATION Spec
INVARIANT TypeOK
PROPERTIES LastFrameSent ChannelSpec
