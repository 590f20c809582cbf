SPECIFICATION Spec
CONSTANTS
    SeqMod = 8
    CycMod = 3
    Far = 3
    Near = 3
    FirstSeq = {6}
    Garbage = {0, 1}
    MaxParts = 3
    MaxSent = 6
    MaxLate = 1
    Window = 2
INVARIANTS NalsSound CountsSound
PROPERTY InOrder
