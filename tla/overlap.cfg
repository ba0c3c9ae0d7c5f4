\* Two handlers of one session overlap at every step and are killed once
\* at any of them.
SPECIFICATION Spec
CONSTANTS
    None = None
    SessionIds = {s1}
    MandateIds = {m1}
    ReservationIds = {r1, r2}
    References = {f1, f2}
    MaxDay = 0
    MaxLinks = 2
    MaxFailures = 0
    MaxUnheard = 0
    ProviderErrors = FALSE
    Threads = {t1, t2}
    RefundAmounts = {1}
    MaxCrashes = 1
    Terms <- TightTerms
    Serves <- Everything
    Carts <- OneCart
    Shops <- SteadyShop
SYMMETRY ThreadSymmetry
INVARIANTS
    CompletedWasPaid
    AtMostOneOpen
    RefundRowsBacked
    CommitsBackedByCaptures
PROPERTIES
    CommittedIsFinal
CHECK_DEADLOCK FALSE
