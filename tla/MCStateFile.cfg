SPECIFICATION Spec
CONSTANTS
  Tokens <- MCTokens
  Printed <- MCPrinted
  Scanned <- MCScanned
  Octal <- MCOctal
  Decoded <- MCDecoded
  Nul = "NUL"
  StringLength = 2
  Tables <- MCTables
  Declarations <- MCDeclarations
  First <- MCFirst
  WrapLength = 3
  BufferSize = 19
  Inserts <- MCInserts
  MaxEdits = 1
  MaxRestarts = 1
CHECK_DEADLOCK FALSE
INVARIANTS
  TypeOK
  Restored
  NoFalseAlarm
PROPERTIES
  LoadEnds
