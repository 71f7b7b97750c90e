\* A start of each kind, both past the check.
SPECIFICATION Spec
CONSTANTS
    None = None
    Requests = {r1, r2}
    Controllers = {k1, k2, k3}
INVARIANTS
    OneServerAtATime
