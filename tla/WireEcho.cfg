\* Requests of every shape, sent back in any pieces.
CONSTANTS
  Base = 4
  TypeCodes <- MCTypeCodes
  Payloads <- MCPayloads
  ChunkSize = 2
  MaxWritten = 2
SPECIFICATION WireSpec
INVARIANTS
  InStep
PROPERTIES
  BytesSpec
  EchoedBack
CHECK_DEADLOCK FALSE
