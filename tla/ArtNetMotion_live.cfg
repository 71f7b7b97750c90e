\* What must happen in the end on a line that loses frames to the drive.
SPECIFICATION LoopSpec
CONSTANTS
    None = None
    EnableChannels <- TwoEnables
    DirectionChannels <- EachDirection
    MAX_SPEED_RPM = 2
    Outcomes = {"done", "lost"}
    Restarts = FALSE
PROPERTIES
    SilenceStopsUnlessLost
    FollowsConsole
    DisabledStops
