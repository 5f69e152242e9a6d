SPECIFICATION Spec
CONSTANTS
    Edges = {e1, e2}
    Humans = {u1}
    Agents = {a1}
    Locked = {e2}
    None = None
    Unborn = Unborn
    Removed = Removed
    MaxCommits = 4
CHECK_DEADLOCK FALSE
PROPERTY AgentNeverOverrides
