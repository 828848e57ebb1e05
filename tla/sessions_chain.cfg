\* Two concurrent requests of a seller, races for one token included, with
\* failing awaits and restarts, over a chain of three tokens.
CONSTANTS
    h1 = h1
    h2 = h2
    Sellers <- TheSellers
    Admins <- NoAdmins
    Roles <- OneRole
    BusinessRoles <- NoRoles
    NoRole = "none"
    Nobody = Nobody
    NoToken = NoToken
    Handlers <- TwoHandlers
    RefreshTTL = 2
    Faults = TRUE
    MaxNow = 2
SPECIFICATION Spec
SYMMETRY HandlerSymmetry
INVARIANT
    OnlyContestedSpentTwice
PROPERTIES
    SessionsAreChains
    LogoutTerminates
