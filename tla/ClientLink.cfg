CONSTANTS
    None = None
    MaxEvents = 2
SPECIFICATION FairSpec
INVARIANTS  ReceiverHasOneOwner GateIsTrue
 
