SPECIFICATION Spec
CONSTANTS
    MaxDownloads = 1
    MaxAttempts = 2
    MaxRetries = 1
    MaxSuffix = 2
    Policies = {"prompt", "overwrite", "unique"}
    None = None
    Absent = Absent
    UserFiles = {f1}
PROPERTY DeletesOnlyDownloads
CHECK_DEADLOCK FALSE
