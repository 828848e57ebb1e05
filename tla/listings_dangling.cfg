CONSTANTS
    h1 = h1
    h2 = h2
    k1 = k1
    k2 = k2
    k3 = k3
    k4 = k4
    Handlers <- TwoHandlers
    Items <- OneItem
    TableOf <- OneTable
    Keys <- FourKeys
    MaxImages = 3
    MaxFiles = 2
    Ops <- RaceOps
    Faults = FALSE
SPECIFICATION Spec
SYMMETRY Symmetry
INVARIANT
    NoDanglingKey
