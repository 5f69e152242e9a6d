SPECIFICATION Spec
CONSTANTS
    Callers = {c, d}
    Paths = {p}
    Contents = {x, y}
    Plans = {x}
    Blocks <- MCBlocks
    Selectors = {"s"}
    Types = {"hypothesis", "evidence"}
    NoLid = NoLid
    T <- MCT
    Nothing = Nothing
    MaxVersion = 3
    MaxDeaths = 1
INVARIANT TypeOK
INVARIANT EveryDriftHasACause
INVARIANT AtomsNamedApart
INVARIANT OnceUnlessOverlapped
CHECK_DEADLOCK FALSE
SYMMETRY Twins
