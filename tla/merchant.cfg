\* Orders wait for the merchant, who also changes prices, replaces the
\* mandate and refunds over three days.
SPECIFICATION Spec
CONSTANTS
    None = None
    SessionIds = {s1}
    MandateIds = {m1, m2}
    ReservationIds = {r1}
    References = {f1, f2}
    MaxDay = 2
    MaxLinks = 2
    MaxFailures = 0
    MaxUnheard = 1
    ProviderErrors = TRUE
    Threads = {t1}
    RefundAmounts = {1, 2}
    MaxCrashes = 0
    Terms <- RoomyTerms
    Serves <- Merchants
    Carts <- SmallAndLarge
    Shops <- ReviewShop
SYMMETRY MerchantSymmetry
INVARIANTS
    RefundsWithinCapture
    RefundsRecorded
PROPERTIES
    LinkNeedsApproval
CHECK_DEADLOCK FALSE
