\* Two concurrent requests of a business admin whose standing changes, with
\* failing awaits and restarts.
CONSTANTS
    h1 = h1
    h2 = h2
    Sellers <- NoSellers
    Admins <- TheAdmins
    Roles <- TheRoles
    BusinessRoles <- TheBusinessRoles
    NoRole = "none"
    Nobody = Nobody
    NoToken = NoToken
    Handlers <- TwoHandlers
    RefreshTTL = 2
    Faults = TRUE
    MaxNow = 1
SPECIFICATION Spec
SYMMETRY HandlerSymmetry
INVARIANTS
    TypeOK
    ParentRevoked
    LateRefreshRefused
    ClaimsAreCurrent
PROPERTIES
    RevokedStaysRevoked
