CONSTANTS
    h1 = h1
    h2 = h2
    Admins <- ThreeAdmins
    Plans <- TwoPlans
    MaxSeats = 2
    Handlers <- TwoHandlers
SPECIFICATION Spec
SYMMETRY HandlerSymmetry
INVARIANTS
    TypeOK
    SeatsNotOversold
    NobodyIsOvertaken
    NobodyWaitsForNothing
    LapsedPlanRefuses
