SPECIFICATION Spec
CONSTANTS
    a = a
    b = b
    c = c
    Name <- MCName
    Graph <- MCGraph
    RootList <- MCRootList
    Marker = Marker
    None = None
INVARIANTS
    CleanClosed
CHECK_DEADLOCK FALSE
