SPECIFICATION Spec
CONSTANTS
    home = home
    search = search
    Feeds <- MCFeeds
    LastPage = 3
    CachedPages = {0, 1, 2, 3}
    MaxHistory = 4
    None = None
INVARIANTS
    NextContinuesShown
    HistoryIsThePath
    CursorShowsThePage
