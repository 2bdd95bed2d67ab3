SPECIFICATION Spec
CONSTANTS
    Profiles = {main, work}
    Posts = {p}
    Operations <- MCOperations
    Texts = {untitled, text}
    Untitled = untitled
    Blank = blank
    None = None
    Interfaces = {"key"}
    MaxDrafts = 2
    MaxSessions = 2
INVARIANTS
    PromptIsLive
    DraftsAreKept
PROPERTIES
    ConsentComesFirst
    ClosedStaysUnsent
