SPECIFICATION Spec
CONSTANTS
    f = f
    g = g
    a = a
    b = b
    Writers = {w1, w2}
    Files <- MCFiles
    Vals <- MCVals
    Absent = Absent
    Patches <- MCPatches
    MaxCommits = 3
    MaxCrashes = 0
CHECK_DEADLOCK FALSE
PROPERTY AlwaysPublishedOnBase
