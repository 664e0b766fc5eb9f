\* A volume of either kind, a writing and a read-only pod, one call at a time.
CONSTANTS
    Pods = {p1, p2}
    ReadOnlyPods = {p2}
    Calls = {c1}
    NoReq = NoReq
    RepeatsOverlap = FALSE
    Fallible = {"remount"}
    MaxStack = 2
SPECIFICATION Spec
INVARIANTS TypeOK DataNeverDestroyed PublishedShowsVolume ReleasedMeansUnused 
