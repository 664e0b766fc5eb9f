\* Two overlapping calls for one disk and one VM; no symmetry, for liveness.
CONSTANTS
    Disks = {d1}
    Nodes = {n1}
    Calls = {c1, c2}
    NoCall = NoCall
    NoNode = NoNode
    NoReq = NoReq
    OwnedDisks = {d1}
    OwnedNodes = {n1}
    VMOwnerLabelSet = FALSE
    MaxVolumesPerNode = 1
    MaxRetries = 1
    SerialPerVolume = FALSE
    MaxLate = 0
SPECIFICATION FairSpec
PROPERTIES EveryCallReturns
