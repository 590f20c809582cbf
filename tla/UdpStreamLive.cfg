CONSTANTS
    MaxFrames = 2
    FragCounts = {2}
    QueueLen = 2
    ChanCap = 2
    MaxGap = 1
    MaxLost = 2
    MaxDups = 0
    MaxErrors = 1
SPECIFICATION Spec
PROPERTIES ServerLearnsPeer LastFrameWritten
