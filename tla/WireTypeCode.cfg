\* The byte order of the type code against the comment on it.
CONSTANTS
  Base = 4
  TypeCodes <- MCTypeCodes
  Payloads <- MCPayloads
  ChunkSize = 2
  MaxWritten = 1
SPECIFICATION WireSpec
INVARIANT TypeCodeLittleEndian
CHECK_DEADLOCK FALSE
