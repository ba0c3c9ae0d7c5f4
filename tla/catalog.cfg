\* The catalog commands of one process beside the merchant's decisions.
SPECIFICATION Spec
CONSTANTS
    None = None
    Products = {"shoe", "p1"}
    Seeded = {"shoe"}
    ItemIds = {"i1"}
    ProductOf <- NewProducts
    Categories <- Names
    Prices = {1}
    Threads = {"shop", "merchant"}
    Serves <- Beside
    ProposalIds = {e1, e2}
    Policies <- TwoPolicies
    Lower <- Small
SYMMETRY ProposalSymmetry
INVARIANTS
    TypeOK
    FeedIsApproved
    OnePending
    OneProductPerItem
    OffersFit
PROPERTIES
    DecisionIsFinal
CHECK_DEADLOCK FALSE
