SPECIFICATION Spec
CONSTANTS
    NodeIds = {n1, n2, n3}
    PortIds = {p1, p2}
    EdgeIds = {e1, e2, e3, e4}
    NoNode = NoNode
    NoPort = NoPort
    NodeTypes <- MCNodeTypes
    RootTypes <- MCRootTypes
    AcceptsParent <- MCAcceptsParent
    Endpoints <- MCEndpoints
    EdgeTypes = {"data_flow", "refines"}
    Names = {a}
    PortNames = {x, y}
    AttrKeys = {}
    MixedPatches = FALSE
    MaxOps = 2
INVARIANT TypeOK
INVARIANT NoDangling
INVARIANT Containment
INVARIANT FlowLegal
PROPERTY AffectedCoversNodes
SYMMETRY Symmetry
CHECK_DEADLOCK FALSE
