\* One session against a provider that fails, refuses and is late, and a
\* reconciler that comes back.
SPECIFICATION FairSpec
CONSTANTS
    None = None
    SessionIds = {s1}
    MandateIds = {m1}
    ReservationIds = {r1}
    References = {}
    MaxDay = 0
    MaxLinks = 2
    MaxFailures = 1
    MaxUnheard = 0
    ProviderErrors = TRUE
    Threads = {t1}
    RefundAmounts = {}
    MaxCrashes = 0
    Terms <- TightTerms
    Serves <- Purchases
    Carts <- TwoCarts
    Shops <- SteadyShop
INVARIANTS
    TypeOK
    RecordedCaptureCompletes
    PendingLinkIsCovered
    CanceledHoldsNothing
PROPERTIES
    LinkNeedsReservation
    KeepsPromise
    PendingEnds
    ReservationsSettle
CHECK_DEADLOCK FALSE
