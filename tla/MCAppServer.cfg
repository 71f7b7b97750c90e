\* Two requests at a time.  Controllers: the current one, and one that each server
\* may still hold.
SPECIFICATION MCSpec
CONSTANTS
    None = None
    r1 = r1
    r2 = r2
    Requests = {r1, r2}
    Controllers = {k1, k2, k3}
INVARIANTS
    HandlersOwnThePort
    ServersAreKnown
PROPERTIES
    RequestEnds
    SequenceCommandsTakeEffect
    SequenceRequestsReturn
