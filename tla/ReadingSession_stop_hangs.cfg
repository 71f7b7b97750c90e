SPECIFICATION FairSpec
CONSTANTS
    Clients = {web, osc}
    Threads = {t1, t2}
    NoOne = NoOne
    STILL_COUNT_TO_COMPLETE = 1
PROPERTY
    StopReturns
