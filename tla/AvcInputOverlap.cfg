CONSTANTS
    MaxFrames = 5
SPECIFICATION InputSpec
INVARIANT NeverBothUsed
