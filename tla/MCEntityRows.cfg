SPECIFICATION Spec
CONSTANTS
    post = post
    comments = comments
    all = all
    None = None
    Keys <- MCKeys
    Listings <- MCListings
    Bytes <- MCBytes
    Cap = 2
    MaxVersion = 3
    MaxClock = 1
    MaxReads = 1
INVARIANTS
    EditsOutliveTheSession
PROPERTIES
    NoUpdateIsLost
    FreshRowSurvives
