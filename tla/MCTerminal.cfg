SPECIFICATION FairSpec
CONSTANTS
    Chars = {"j", "i", ":", "/", "q"}
    TextChars = {"j"}
    DigitValue <- MCDigitValue
    Bindings <- MCBindings
    Keymaps <- MCKeymaps
    Completions <- MCCompletions
    Startup <- MCStartup
    MaxCount = 2
    MaxLine = 2
    MaxQueue = 2
CHECK_DEADLOCK FALSE
INVARIANTS
    LineIsShown
PROPERTIES
    CountsEnd
    QuitEnds
