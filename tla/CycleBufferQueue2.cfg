CONSTANTS
    BufCount = 2
    MaxFrames = 5
    WeakOrder = TRUE
    Blocking = TRUE
SPECIFICATION Spec
INVARIANTS NeverFatal SendingIntact SentOnce
PROPERTIES NewestSurvives
