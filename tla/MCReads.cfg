SPECIFICATION ViewSpec
CONSTANTS
    a = a
    b = b
    home = home
    search = search
    alice = alice
    Posts <- MCPosts
    Queries <- MCQueries
    Identities <- AppIdentities
    Groups <- AppGroups
    Profiles <- MCProfiles
    None = None
    MaxGeneration = 3
    MaxEpoch = 1
SYMMETRY Symmetry
INVARIANTS
    ClosedThreadsStayClosed
