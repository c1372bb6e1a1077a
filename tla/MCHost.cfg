\* All transports at once: recv may time out, a send may time out.
CONSTANTS
    None = None
    Clients = {"mac"}
    ctrl = ctrl
    letter = letter
    here = here
    Keys <- SomeKeys
    Releasable <- KnownKeys
    IdleTimeout = 1
    BusyTimeout = 2
    StormThreshold = 2
    MaxReports = 1
    RecvBlocks = FALSE
    SendCanTimeOut = TRUE
    MaxProcs = 3
    Exes = {here}
    Users <- Starts
    Attempts = 3
    StopTicks = 1
SPECIFICATION MCSpec
INVARIANTS SlotsOfThisSession LegacyExclusive AnsweredInOpenersDialect ModifiersReleased OneHost
PROPERTIES EndToldOnce LastingSessionIsHeard ShellsKeepBeingPumped
           RestartLeavesAHost
