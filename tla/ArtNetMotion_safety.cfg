SPECIFICATION Spec
CONSTANTS
    None = None
    EnableChannels <- AllEnables
    DirectionChannels <- AllDirections
    MAX_SPEED_RPM = 2
    Outcomes = {"done", "unanswered", "lost"}
    Restarts = TRUE
INVARIANTS
    RecordsAgree
PROPERTIES
    NoSurpriseStart
