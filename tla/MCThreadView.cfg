SPECIFICATION ThreadSpec
CONSTANTS
    Ids = {1, 2, 3}
    Forests <- MCForests
    Lines <- MCLines
    HeaderLines = 2
    Drawn <- MCDrawn
    HeaderDrawn = 2
    HeaderEntries = 2
    Heights = {4, 9}
    Step = 10
    MaxCount = 2
    MaxScroll = 10
    NoComment = NoComment
INVARIANTS
    RowsAreTheThread
    FoldsHideReplies
PROPERTIES
    CursorIsFollowed
