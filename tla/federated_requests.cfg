\* Two requests at once, with credentials of every kind, of a seller and of an
\* admin whose standing changes.
CONSTANTS
    h1 = h1
    h2 = h2
    r1 = r1
    r2 = r2
    Sellers <- TheSellers
    Admins <- TheAdmins
    Scopes <- TheScopes
    None = None
    NoScope = NoScope
    NoToken = NoToken
    Forged = Forged
    Addresses <- TheAddresses
    Refs <- TwoRefs
    Failures <- SomeFailures
    Handlers <- TwoHandlers
    AccessTTL = 1
    MaxNow = 1
SPECIFICATION Spec
SYMMETRY Symmetry
INVARIANTS
    TypeOK
    IdentityWasProven
    
    ErrorsTraceable
PROPERTIES
    AccessFadesOut
