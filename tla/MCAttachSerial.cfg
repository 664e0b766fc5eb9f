\* Two disks, two VMs, limit 1: the orchestrator serialises its calls per volume.
CONSTANTS
    Disks = {d1, d2}
    Nodes = {n1, n2}
    Calls = {c1, c2}
    NoCall = NoCall
    NoNode = NoNode
    NoReq = NoReq
    OwnedDisks = {d1, d2}
    OwnedNodes = {n1, n2}
    VMOwnerLabelSet = FALSE
    MaxVolumesPerNode = 1
    MaxRetries = 1
    SerialPerVolume = TRUE
    MaxLate = 0
SPECIFICATION Spec
SYMMETRY Symmetry
INVARIANTS TypeOK SingleHolder PublishedStaysAttached SuccessMeansGone NodeLockExcludes NodeLimit
PROPERTIES DeleteSparesAttached ImplementsExclusiveAttach
