SPECIFICATION FairSpec
CONSTANTS
    home = home
    next = next
    Keys <- MCKeys
    FlipKeys <- MCFlipKeys
    Evictable <- MCFlipKeys
    None = None
    MaxGeneration = 2
    MaxVersion = 2
    MaxEpoch = 1
INVARIANTS
    HomeRowIsReconciled
    FeedIsReconciled
PROPERTIES
    NewerFetchStays
    RowsAreOfThisContext
    RefreshLands
