\* Two requests of any kind at once, over a store product and a marketplace
\* product that may share photos, while the web drops photos.
CONSTANTS
    h1 = h1
    h2 = h2
    k1 = k1
    k2 = k2
    k3 = k3
    k4 = k4
    Handlers <- TwoHandlers
    Items <- StoreAndMarket
    TableOf <- StoreAndMarketTables
    Keys <- ThreeKeys
    MaxImages = 2
    MaxFiles = 2
    Ops <- AllOps
    Faults = TRUE
SPECIFICATION Spec
SYMMETRY Symmetry
INVARIANTS
    TypeOK
    NoneShownEmpty
    FreshListsServable
    OnlyTheShopExceeds
PROPERTIES
    SaveIsOneEdit
