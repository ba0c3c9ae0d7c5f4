\* A synchronisation beside the merchant's decisions.
SPECIFICATION Spec
CONSTANTS
    None = None
    Products = {"shoe", "p1"}
    Seeded = {"shoe"}
    ItemIds = {"i1"}
    ProductOf <- NewProducts
    Categories <- Names
    Prices = {1}
    Threads = {"shop", "merchant"}
    Serves <- SyncBeside
    ProposalIds = {e1, e2}
    Policies <- TwoPolicies
    Lower <- Small
SYMMETRY ProposalSymmetry
PROPERTIES
    SyncPreserves
CHECK_DEADLOCK FALSE
