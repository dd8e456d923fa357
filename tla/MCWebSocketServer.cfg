CONSTANTS
  p1 = p1
  p2 = p2
  Peers <- MCPeers
  MaxMsgs = 2
  BufSize = 1
SPECIFICATION FairSpec
INVARIANTS
  OnlyKnownStops
PROPERTIES
  OrderedDelivery
  NobodyMissed
  BroadcastReturns
  AskedIsListed
\* The process may stop, and clients and messages are finite.
CHECK_DEADLOCK FALSE
