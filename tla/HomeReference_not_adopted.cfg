SPECIFICATION HomeSpec
CONSTANTS
    RAW_RANGE = 4
    HALF_RAW_RANGE = 2
    NotRead = NotRead
    POSITION_BOUND = 2
    MAX_RESTARTS = 1
INVARIANTS
    HomeIsAdopted
CHECK_DEADLOCK FALSE
