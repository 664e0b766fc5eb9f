\* A call may be repeated while its handler still runs; nothing else fails.
CONSTANTS
    Pods = {p1}
    ReadOnlyPods = {}
    Calls = {c1, c2}
    NoReq = NoReq
    RepeatsOverlap = TRUE
    Fallible = {}
    MaxStack = 2
SPECIFICATION Spec
SYMMETRY CallSymmetry
INVARIANTS DataNeverDestroyed
