\* A listing of attached volumes.
CONSTANTS
    Vols <- MCVols
    MaxEntries = {0, 1, 2}
    MaxDrift = 4
SPECIFICATION Spec
INVARIANTS AttachedShown
