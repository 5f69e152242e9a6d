SPECIFICATION FairSpec
CONSTANTS
    None = None
    ANY = ANY
    Root = Root
    Untrimmed <- MCUntrimmed
    Name <- MCName
    Inputs <- MCInputs
INVARIANT TypeOK
INVARIANT ResolvedIsInherited
INVARIANT BuildDecides
PROPERTY BuildEnds
CHECK_DEADLOCK FALSE
