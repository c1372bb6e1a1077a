SPECIFICATION FairSpec
CONSTANTS
    Total <- MCTotal
    Chunk = 2
    WireCap = 3
    MaxLoss = 1
    MaxSpawn = 2
    LossyResets = "no"

    
PROPERTIES
    ImplementsByteStream
    AllArrivesOrBreaks
    ClientWorkerEnds
CHECK_DEADLOCK FALSE
