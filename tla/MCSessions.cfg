SPECIFICATION Spec
CONSTANTS
    Profiles = {main, work}
    Instances = {a, b, http}
    Insecure = {http}
    Starter = main
    StarterUrl = a
    MaxLate = 2
    None = None
CHECK_DEADLOCK FALSE
INVARIANTS
    StoredFitsFile
    LoggedOutStaysOut
    ActiveIsConfigured
