\* One connection, used to the full: three frames, two overlapping requests.
CONSTANTS
  MaxSessions = 1
  MaxFrames = 3
  MaxRequests = 2
  Frames <- MCFrames
  Requests = {"RequestLogin"}
  ServerIDs = {"WorldConnected"}
SPECIFICATION LayerSpec
INVARIANTS
  TypeOK
  Framed
  EventsInOrder
PROPERTY
  StreamSpec
CHECK_DEADLOCK FALSE
