\* Two sessions compete for the budget of one mandate over two days,
\* one request at a time.
SPECIFICATION Spec
CONSTANTS
    None = None
    SessionIds = {s1, s2}
    MandateIds = {m1}
    ReservationIds = {r1, r2}
    References = {}
    MaxDay = 1
    MaxLinks = 4
    MaxFailures = 0
    MaxUnheard = 0
    ProviderErrors = FALSE
    Threads = {t1}
    RefundAmounts = {}
    MaxCrashes = 0
    Terms <- TightTerms
    Serves <- Purchases
    Carts <- TwoCarts
    Shops <- SteadyShop
SYMMETRY SessionSymmetry
INVARIANTS
    CapsHold
    ReservedWhilePending
    PaymentsAreOwn
    OneLiveLink
PROPERTIES
    KeepsPromise
CHECK_DEADLOCK FALSE
