SPECIFICATION FairSpec
CONSTANTS
  Records = {r1, r2}
  MayLock = {r1}
  Relaxed = {r2}
  MaxWrites <- MCMaxWrites
CHECK_DEADLOCK FALSE
INVARIANTS
  TypeOK
  UpToDate
  SeverityNotOlder
  NotTorn
PROPERTIES
  WriteIsShown
