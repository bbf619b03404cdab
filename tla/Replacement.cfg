\* A connection replaced by another at any time.
CONSTANTS
  MaxSessions = 2
  MaxFrames = 2
  MaxRequests = 0
  Frames <- OneFrame
  Requests = {"RequestLogin"}
  ServerIDs = {"WorldConnected"}
SPECIFICATION LayerSpec
INVARIANTS
  OneRead
  StaleDeliveryBounded
CHECK_DEADLOCK FALSE
