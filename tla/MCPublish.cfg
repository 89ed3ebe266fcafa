SPECIFICATION Spec
CONSTANTS
  PrefixLength = 6
  PrefixCount = 2
  SeparatorLength = 3
  Chars <- MCChars
  NamePrefixes <- MCNamePrefixes
  Separators <- MCSeparators
  Publications <- MCPublications
  Databases <- MCDatabases
  Requests <- MCRequests
  NoPV = "none"
  MaxRecords = 2
CHECK_DEADLOCK FALSE
INVARIANTS
  TypeOK
  PrefixIsStack
  BoundByName
  PersistentFits
