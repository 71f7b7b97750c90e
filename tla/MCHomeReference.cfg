\* A register of 4 values, which the shaft wraps upwards and downwards; two
\* operations of two threads on the registers of the drive.
SPECIFICATION BothSpec
CONSTANTS
    RAW_RANGE = 4
    HALF_RAW_RANGE = 2
    NotRead = NotRead
    POSITION_BOUND = 2
    MAX_RESTARTS = 1
    Threads = {web, osc}
    None = None
    Writes <- MCWrites
    Assignments <- MCAssignments
    PULSES_PER_REV = 2
    MAX_SHAFT = 1
    MAX_OPERATIONS = 2
INVARIANTS
    CountFollowsShaft
    MeasuredFromHome
PROPERTIES
    RegistersAreTrue
CHECK_DEADLOCK FALSE
