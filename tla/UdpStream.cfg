CONSTANTS
    MaxFrames = 3
    FragCounts = {2}
    QueueLen = 2
    ChanCap = 2
    MaxGap = 1
    MaxLost = 2
    MaxDups = 1
    MaxErrors = 1
SPECIFICATION Spec
INVARIANT FramesSound
PROPERTY EchoInOrder
