SPECIFICATION Spec
CONSTANTS
    Requests = {r1, r2}
    Natives = {n1, n2}
    NoNative = NoNative
    Bundles = {b}
    None = None
    MaxTurns = 2
    MaxRestarts = 0
CHECK_DEADLOCK FALSE
PROPERTY ArchivedReadOnly
