CONSTANTS
    Archives <- MCArchives
    Papers <- MCPapers
    ArchiveOf <- MCArchiveOf
    Wanted <- MCPapers
    Clears <- MCClears
    Days = 1
    WeekLen = 2
    Alarm = 2
    MaxDay = 3
    MaxSweeps = 3
    Freezes = TRUE
    Cuts = TRUE
SPECIFICATION Spec
INVARIANTS NothingStoredIsLost NoGapPassesForQuiet SilenceIsRed
PROPERTIES WeekNeverForgets
CHECK_DEADLOCK FALSE
