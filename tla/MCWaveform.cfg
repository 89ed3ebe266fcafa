SPECIFICATION Spec
CONSTANTS
  Clients = {c1}
  Drivers = {d1, d2}
  Scan = scan
  Nobody = Nobody
  MaxLength = 2
  MaxChanges = 3
  MaxRestarts = 1
CHECK_DEADLOCK FALSE
INVARIANTS
  TypeOK
  BothSidesAgree
  PersistFollows
