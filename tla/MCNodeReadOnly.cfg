\* Nothing fails but the driver's process.
CONSTANTS
    Pods = {p1, p2}
    ReadOnlyPods = {p2}
    Calls = {c1}
    NoReq = NoReq
    RepeatsOverlap = FALSE
    Fallible = {}
    MaxStack = 2
SPECIFICATION Spec
INVARIANTS ReadOnlyIsReadOnly
