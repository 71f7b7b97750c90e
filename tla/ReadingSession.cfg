\* Two commanding threads, of the web page and of OSC or Art-Net, under fair
\* scheduling.
SPECIFICATION FairSpec
CONSTANTS
    Clients = {web, osc}
    Threads = {t1, t2}
    NoOne = NoOne
    STILL_COUNT_TO_COMPLETE = 1
INVARIANTS
    ActiveSessionIsPolled
    EndsOnce
    PollersTakeTurns
PROPERTIES
    DecisionIsFresh
    SerialStopReturns
    StoppedPollerEnds
