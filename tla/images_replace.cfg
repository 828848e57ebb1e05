CONSTANTS
    h1 = h1
    h2 = h2
    h3 = h3
    k1 = k1
    k2 = k2
    k3 = k3
    k4 = k4
    k5 = k5
    Handlers <- ThreeHandlers
    Keys <- FiveKeys
    MaxFiles = 2
    Faults = TRUE
SPECIFICATION Spec
SYMMETRY Symmetry
INVARIANTS
    TypeOK
    RowIsServable
    NoOrphans
