CONSTANTS
    Sku <- MCSku
    Listings <- MCListings
    FirstPrices <- MCFirstPrices
    Command = {c1, c2}
    MaxPrice = 3
    OddPrice = {3}
    MaxChanges = 1
SPECIFICATION EstimateSpec
SYMMETRY Symmetry
VIEW View
INVARIANTS
    QuoteIsGenuine
    RefreshIsCurrent
