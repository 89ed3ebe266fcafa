SPECIFICATION FairSpec
CONSTANTS
  Clients = {c1}
  Drivers = {d1, d2}
  Nobody = Nobody
  NoValue = NoValue
  Garbage = Garbage
  BindingErrors = TRUE
  MaxPuts = 3
  MaxRestarts = 1
INVARIANTS
  TypeOK
  RejectedIsRestored
  PersistMirrors
  ToldAsAsked
PROPERTIES
  PutEnds
