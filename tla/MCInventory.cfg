\* Three volumes, all pages from one entry to the whole list.
CONSTANTS
    Vols <- MCVols
    MaxEntries = {0, 1, 2}
    MaxDrift = 4
SPECIFICATION Spec
INVARIANTS TypeOK ListingComplete
PROPERTIES ListingEnds GaugeConverges
