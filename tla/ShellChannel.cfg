CONSTANTS
    None = None
    Runs = {ra, rb}
    Consoles = {console}
    MaxDrops = 1
    MaxUp = 1
    MaxDown = 1
SYMMETRY Alike
SPECIFICATION Spec
CHECK_DEADLOCK FALSE
INVARIANTS ClaimsHaveOneOwner NothingCrosses
PROPERTIES RunHearsOwnEnd
