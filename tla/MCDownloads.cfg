SPECIFICATION FairSpec
CONSTANTS
    MaxDownloads = 2
    MaxAttempts = 2
    MaxRetries = 1
    MaxSuffix = 2
    Policies = {"prompt", "overwrite", "unique"}
    None = None
    Absent = Absent
    UserFiles = {f1}
INVARIANTS
    TypeOK
    TempsAreCleaned
    EveryAttemptIsHeld
    PromptsAreAnswerable
PROPERTIES
    UserFilesAreKept
    FoundFilesAreSafe
    DownloadsConclude
CHECK_DEADLOCK FALSE
