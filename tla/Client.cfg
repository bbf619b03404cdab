\* The whole client, with every fault and without.
CONSTANTS
  MaxSessions = 3
  MaxFrames = 3
  MaxRequests = 3
  Frames <- MCFrames
  Requests <- MCRequests
  ServerIDs <- MCServerIDs
  Faults = {"refuse", "close", "resolve"}
SPECIFICATION Spec
INVARIANTS
  RequestsReachTheirServer
  WireWhole
  ExitDrained
PROPERTIES
  LayerRefined
  FailureResolved
  LoginCompletes
  ReplacedReleased
