\* One disk and one VM belong to another cluster; one request may arrive late.
CONSTANTS
    Disks = {d1, d2}
    Nodes = {n1, n2}
    Calls = {c1}
    NoCall = NoCall
    NoNode = NoNode
    NoReq = NoReq
    OwnedDisks = {d1}
    OwnedNodes = {n1}
    VMOwnerLabelSet = TRUE
    MaxVolumesPerNode = 0
    MaxRetries = 1
    SerialPerVolume = FALSE
    MaxLate = 1
SPECIFICATION Spec

INVARIANTS OtherClustersVMsUntouched
PROPERTIES OtherClustersUntouched
