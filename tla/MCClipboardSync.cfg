SPECIFICATION FairSpec
CONSTANTS
  MacItems <- MCMac
  WinItems <- MCWin
  AtStart <- MCStart
  MacSends <- AllKinds
  Takes <- MCTakes
  TextHistory = 2
  MaxMessagesPerPoll = 2
  MaxCopies = 2
  MaxTroubles = 1
INVARIANTS WholePayload
PROPERTIES TrafficDies HeldShipsOnReconnect
CHECK_DEADLOCK FALSE
