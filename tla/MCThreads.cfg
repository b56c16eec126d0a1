SPECIFICATION MCSpec
CONSTANTS
    a = a
    b = b
    c = c
    Name <- MCName
    Graph <- MCGraph
    RootList <- MCRootList
    Marker = Marker
    None = None
    w1 = w1
    w2 = w2
    Worker = {w1, w2}
    NoTask = NoTask
    vm1 = vm1
    vm2 = vm2
    p11 = p11
    p12 = p12
    p21 = p21
    p22 = p22
    small = small
    large = large
    Nil = Nil
    NoId = NoId
    NoVM = NoVM
    VM = {vm1, vm2}
    Proto = {p11, p12, p21, p22}
    Module = {m1, m2}
    Id = {small, large}
    owner <- Owners
    natives <- Natives
INVARIANTS
    BuildOrder
    CyclesCut
    CountsExact
    NoTaskLeft
    DoneMeansChecked
    RefcountExact
    TableExact
    NoLeak
    DestroysUnowned
PROPERTIES
    Terminates
    Drains
    Joins
CHECK_DEADLOCK FALSE
