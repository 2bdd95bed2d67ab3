SPECIFICATION FairSpec
CONSTANTS
    None = None
    feed = feed
    post = post
    comments = comments
    Identities <- MCIdentities
    Groups <- MCGroups
    Profiles = {p1, p2}
    MaxGeneration = 3
    MaxEpoch = 2
INVARIANTS
    HandleMeansComing
    LiveReadsAreOfThisContext
PROPERTIES
    AwaitedReadLands
    ImplementsContract
