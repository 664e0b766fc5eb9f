\* blkid may fail on a device that holds a filesystem.
CONSTANTS
    Pods = {p1, p2}
    ReadOnlyPods = {p2}
    Calls = {c1}
    NoReq = NoReq
    RepeatsOverlap = FALSE
    Fallible = {"probe"}
    MaxStack = 2
SPECIFICATION Spec
INVARIANTS DataNeverDestroyed
