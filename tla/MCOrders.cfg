\* Art and a credit pack.
SPECIFICATION Spec
CONSTANTS
    User = {buyer, other}
    Buyer = buyer
    NoOne = NoOne
    Line = {1, 2}
    Kinds <- ArtAndGoods
    Catalogues <- FirstCatalogues
    PackLines = {2}
    Carries = {1}
    Outcomes = {"failed"}
    Proc = {p, q}
    CreditsPerPack = 10
    Ref <- References
    Amount = {3, 6, 10, 20}
    MaxRows = 1
    MaxJobs = 3
    MaxShopEvents = 1
SYMMETRY Symmetry
INVARIANTS
    NothingBeforePayment
    ReversalFollowsGrant
    PacksAreNotProduced
    CancelledInShopifyFirst
CHECK_DEADLOCK FALSE
