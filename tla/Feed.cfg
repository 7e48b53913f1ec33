SPECIFICATION FeedSpec
CONSTANTS
    Lot <- MCLot
    DateOf <- MCDateOf
    RegionOf <- MCRegionOf
    AreaOf <- MCAreaOf
    Catalog <- MCCatalog
    None = None
    Filters <- MCFilters
    PageSize = 1
    MaxPending = 2
    Toggles = 1
INVARIANTS
    FeedTypeOK
    CardsInOrder
    NothingLost
    StreamMirrorsFeed
CHECK_DEADLOCK FALSE
