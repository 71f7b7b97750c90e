SPECIFICATION Spec
CONSTANTS
    None = None
    MAXLEN = 2
    Requests = {1, 2}
    MAX_ENTRIES = 4
    Savers = {web, input}
    Keys = {home, point}
    Values = {1, 2}
    MAX_SAVES = 4
    SEQUENCES = 8
    WINDOW = 3
    FrameLengths = {7, 12, 17}
    Presses = {{4}, {4, 17}, {8}, {9, 10}}
    MAX_PRESSES = 2
    MAX_FRAMES = 6
    Handlers = {h1, h2}
    MAX_STARTS = 2
    MAX_MESSAGES = 3
    MAX_OTHER = 1
    Threads = {web, input}
    MAX_REQUESTS = 2
INVARIANTS
    PageShowsTheLog OncePerPress ServoFollowsSender StoppedIsSilent DisconnectIsFinal
PROPERTIES
    PageCatchesUp ImplementsStore ImplementsOutcome
CHECK_DEADLOCK FALSE
