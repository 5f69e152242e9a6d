SPECIFICATION Spec
CONSTANTS
    f = f
    g = g
    a = a
    b = b
    Writers = {w1, w2}
    Files <- MCFiles
    Vals <- MCVals
    Absent = Absent
    Patches <- MCPatches
    MaxCommits = 2
    MaxCrashes = 1
CHECK_DEADLOCK FALSE
INVARIANT TypeOK
INVARIANT ManifestBacked
INVARIANT HeadFollowsLog
INVARIANT ReadersSeeCommits
PROPERTY ImplementsGraphLog
PROPERTY StreamCatchesUp
