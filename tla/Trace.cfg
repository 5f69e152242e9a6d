SPECIFICATION Spec
CONSTANTS
    Modules <- MCModules
    Addr = {t0, t1, t2}
    Input = t0
    MaxCalls = 3
    MaxOps = 2
    MaxTensors = 2
SYMMETRY Symmetry
CHECK_DEADLOCK FALSE
INVARIANT TypeOK
INVARIANT DrawnIsReal
INVARIANT FlowsAreDrawn
