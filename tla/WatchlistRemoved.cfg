SPECIFICATION WatchlistSpec
CONSTANTS
    Watched = {c1, c2}
    Rekeyed = {}
    Jobs = {j1}
    MaxEdits = 3
    MaxCrashes = 0
PROPERTY RemovedStaysRemoved
CHECK_DEADLOCK FALSE
