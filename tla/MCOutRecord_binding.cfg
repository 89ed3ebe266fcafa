SPECIFICATION Spec
CONSTANTS
  Clients = {c1}
  Drivers = {d1}
  Nobody = Nobody
  NoValue = NoValue
  Garbage = Garbage
  BindingErrors = TRUE
  MaxPuts = 2
  MaxRestarts = 0
INVARIANTS
  RejectedIsAlwaysRestored
