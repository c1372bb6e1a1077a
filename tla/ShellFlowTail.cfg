CONSTANTS
    None = None
    Cap = 1
    PumpBudget = 2
    Payload = 2
    MaxRead = 2
    Stall = 1
    MaxOutput = 3
    MaxUp = 1
    MaxHellos = 2
SPECIFICATION Spec
PROPERTIES TailReachesClient
