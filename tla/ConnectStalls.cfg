\* The directory may close its connection at any time.
CONSTANTS
  MaxSessions = 3
  MaxFrames = 3
  MaxRequests = 3
  Frames <- MCFrames
  Requests <- MCRequests
  ServerIDs <- MCServerIDs
  Faults = {"close"}
SPECIFICATION Spec
PROPERTIES
  ConnectResolves
