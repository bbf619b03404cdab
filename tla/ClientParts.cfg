\* The parts of the client that share no state; the constants are those of LuaBridge, StreamBuffer, Registry, Wire and Protobuf.
CONSTANTS
  MinStack = 10
  BufferSize = 1
  Sizes <- MCSizes
  ArgLists <- MCArgLists
  MaxEntries = 3
  MaxAppended = 14
  Lengths <- MCLengths
  CaseInsensitive = TRUE
  Entries <- MCEntries
  MaxFaults = 2
  MaxLoads = 4
  Base = 2
  TypeCodes = {0}
  Payloads = {}
  ChunkSize = 1
  MaxWritten = 0
  Announced <- MCAnnounced
  Fill <- MCFill
  MaxSent = 2
  Schema <- MCSchema
  Types <- MCTypes
  Received <- MCReceived
  Buffers <- MCBuffers
  MaxEncoders = 2
SPECIFICATION MCSpec
INVARIANTS
  BytesInOrder
  EntriesBalanced
  StringsWhole
  ModulesSound
  BodiesAsSent
  ValuesComeBack
PROPERTIES
  AccessorsAsPromised
  ReadsWhatWasSent
CHECK_DEADLOCK FALSE
