\* A customer pays while the reconciler gives the session up.
SPECIFICATION Spec
CONSTANTS
    None = None
    SessionIds = {s1}
    MandateIds = {m1}
    ReservationIds = {r1}
    References = {}
    MaxDay = 0
    MaxLinks = 2
    MaxFailures = 0
    MaxUnheard = 0
    ProviderErrors = FALSE
    Threads = {t1}
    RefundAmounts = {}
    MaxCrashes = 0
    Terms <- TightTerms
    Serves <- Purchases
    Carts <- OneCart
    Shops <- SteadyShop
INVARIANTS
    PaidIsNotCanceled
CHECK_DEADLOCK FALSE
