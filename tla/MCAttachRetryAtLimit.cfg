\* A publish whose answer was lost is repeated on a full node.
CONSTANTS
    Disks = {d1}
    Nodes = {n1}
    Calls = {c1}
    NoCall = NoCall
    NoNode = NoNode
    NoReq = NoReq
    OwnedDisks = {d1}
    OwnedNodes = {n1}
    VMOwnerLabelSet = FALSE
    MaxVolumesPerNode = 1
    MaxRetries = 0
    SerialPerVolume = TRUE
    MaxLate = 0
SPECIFICATION Spec
PROPERTIES RepublishIsIdempotent
