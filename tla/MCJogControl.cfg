\* One commanding thread, every outcome of every frame.
SPECIFICATION MCSpec
CONSTANTS
    Clients = {c1}
    Outcomes = {"done", "unanswered", "lost"}
    web = web
    osc = osc
    None = None
INVARIANTS
    RunningIsKnown
PROPERTIES
    ReversalNeedsFailure
    CancelStops
    EarlierCommandsTakeEffect
    EarlierCommandsReturn
CHECK_DEADLOCK FALSE
