CONSTANTS
    Platforms <- MCPlatforms
    Mods <- MCMods
    Chords <- MCChords
    MaxTapEvents = 1
    Spots = {"desk", "side"}
    Far = {"side"}
    RESTORE_MAX_ATTEMPTS = 2
    MaxToggles = 3
    MaxEdits = 2
    Places <- MCPlaces
SPECIFICATION DeskSpec
CHECK_DEADLOCK FALSE
INVARIANTS ShownWhereItShould
PROPERTIES NoStepLeaksState
