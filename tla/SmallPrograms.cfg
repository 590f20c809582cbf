SPECIFICATION Spec
CONSTANTS
    Widths <- MCWidths
    Pictures <- MCPictures
    Windows <- MCWindows
    MaxPictures = 2
    MaxWindows = 2
    MaxFaults = 1
    PictureSizes = {1, 2}
    Rows = 5
    Columns = 4
    Stones = {"O", "T", "L"}
    Programs = {"a", "b"}
    Pids = {1, 2, 3, 4}
    MaxCrashes = 2
    MaxForkFails = 1
    MaxEdits = 2
    Letters = {"a", "b"}
    MaxStart = 3
    MaxStop = 2
    MaxContent = 4
    MaxItems = 4
    MaxLine = 3
    MaxCookie = 4
    MaxPages = 2
    MaxPath = 5
    Alphabet = {"[", "]", "{", "}", ",", ":", "dq", "1", "."}
    MaxText = 5
    Documents <- MCDocuments
    MaxSeq = 3
    Lengths = {3, 5}
    MaxLost = 1
    MaxTwice = 1
    MaxCuts = 2
INVARIANTS
    StaysInside
    TextsRight
    ReportsRight
PROPERTIES
    DrawsSafely
    GameRules
    ChildrenKept
CHECK_DEADLOCK FALSE
