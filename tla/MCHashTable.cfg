SPECIFICATION Spec
CONSTANTS
  Keys <- MCKeys
  Values = {v1}
  NoKey = NoKey
  NoValue = NoValue
  RawHash <- MCHash
  HashMax <- MCHashMax
  Sizes = {16}
  MaxPerturb = 3
  TableSizes = {8, 16}
INVARIANTS
  TypeOK
  LookupEnds
  EachFound
PROPERTIES
  WalkVisitsOnce
  ImplementsDict
