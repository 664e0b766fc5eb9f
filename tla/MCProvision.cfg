\* An orchestrator that only grows volumes; an expansion may overlap a deletion.
CONSTANTS
    Calls = {c1, c2}
    NoReq = NoReq
    NoDisk = NoDisk
    Ranges <- MCRanges
    Unit = 2
    Factor = 2
    HalfRange = 8
    MaxRetries = 1
    FsTypes = {"ext4", "xfs", "block"}
SPECIFICATION ExpansionSpec
SYMMETRY CallSymmetry
INVARIANTS ExpansionTypeOK AckedVolumeKept ExpandedDeviceGrown ExpansionReachesUser
PROPERTIES OtherClustersDiskUntouched
