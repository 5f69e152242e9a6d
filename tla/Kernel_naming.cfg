SPECIFICATION Spec
CONSTANTS
    NodeIds = {n1, n2, n3}
    PortIds = {}
    EdgeIds = {e1, e2}
    NoNode = NoNode
    NoPort = NoPort
    NodeTypes = {"module"}
    RootTypes <- MCRootTypes
    AcceptsParent <- MCModuleOnly
    Endpoints <- MCModuleEnds
    EdgeTypes = {}
    Names = {a, b}
    PortNames = {x}
    AttrKeys = {k, l}
    MixedPatches = FALSE
    MaxOps = 2
PROPERTY RenameNeverCollides
PROPERTY EventIsTheRecord
SYMMETRY Symmetry
CHECK_DEADLOCK FALSE
