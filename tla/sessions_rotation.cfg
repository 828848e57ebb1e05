CONSTANTS
    h1 = h1
    h2 = h2
    Sellers <- TheSellers
    Admins <- NoAdmins
    Roles <- OneRole
    BusinessRoles <- NoRoles
    NoRole = "none"
    Nobody = Nobody
    NoToken = NoToken
    Handlers <- OneHandler
    RefreshTTL = 2
    Faults = FALSE
    MaxNow = 1
SPECIFICATION FairSpec
PROPERTY
    RotationCompletes
