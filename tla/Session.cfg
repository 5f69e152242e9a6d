SPECIFICATION Spec
CONSTANTS
    Requests = {r1, r2}
    Natives = {n1, n2}
    NoNative = NoNative
    Bundles = {b}
    None = None
    MaxTurns = 2
    MaxRestarts = 1
CHECK_DEADLOCK FALSE
INVARIANT TypeOK
INVARIANT OneTurn
INVARIANT EndToldOnce
INVARIANT RunningHasTurn
INVARIANT ContextOnce
INVARIANT NativeStable
PROPERTY StopTakesEffect
