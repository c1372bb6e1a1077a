CONSTANTS
    Companion = {1, 2}
    Worker = {1, 2}
    MaxStreams = 2
    Credits = 1
    QueueCap = 1
    RelayCap = 1
    OutputCap = 1
    MaxDown = 1
    Modifiers = {"alt"}
    Keys = {"k"}
    Buttons = {"left"}
    LeftButton = "left"
    ReleasedKeys = {"alt", "left"}
    Copies = {"f1"}
    Received = "r"
    MaxSeq = 3
    Sockets = {1, 2}
    MaxAdapters = 2
    Retries = 2
    Waits = 2
SPECIFICATION MCSpec
CHECK_DEADLOCK FALSE
INVARIANTS CommandsRunExactly NothingIsLeftTaken
 
