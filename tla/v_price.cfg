\* A price goes up between the first attempt and the second.
SPECIFICATION Spec
CONSTANTS
    None = None
    SessionIds = {s1}
    MandateIds = {m1}
    ReservationIds = {r1}
    References = {}
    MaxDay = 0
    MaxLinks = 2
    MaxFailures = 0
    MaxUnheard = 0
    ProviderErrors = FALSE
    Threads = {t1}
    RefundAmounts = {}
    MaxCrashes = 0
    Terms <- TightTerms
    Serves <- Purchases
    Carts <- OneCart
    Shops <- DearerShop
INVARIANTS
    PendingLinkIsCovered
CHECK_DEADLOCK FALSE
