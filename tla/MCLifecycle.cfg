\* Every mode, good and bad files, two calls that may hang.
CONSTANTS
    Calls = {c1, c2}
    Modes <- MCModes
    Files <- MCFiles
    Names <- MCNames
    WellFormed <- MCWellFormed
    NoConfig = NoConfig
    DefaultMaxVolumesPerNode = 3
    DefaultNumber = 2
SPECIFICATION Spec
INVARIANTS TypeOK ServicesHaveWhatTheyUse CleanExitWasAsked
PROPERTIES SignalEndsProcess StartServesOrEnds ServesAgain
