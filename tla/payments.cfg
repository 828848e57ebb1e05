CONSTANTS
    h1 = h1
    h2 = h2
    Payments <- OneEach
    ProviderOf <- TheProviders
    Handlers <- TwoHandlers
SPECIFICATION FairSpec
INVARIANTS
    TypeOK
    NoPaymentForgotten
PROPERTIES
    NotificationComesBack
