CONSTANTS
  Client = {c1, c2}
  Superuser = {c2}
  r1 = r1
  r2 = r2
  Row <- MCRows
  Script <- MCCrossed
  Opening <- MCFlags
  Nobody = nobody
  Lost = lost
  Faulty = TRUE
  Leaky = TRUE
  MaxTid = 3
SPECIFICATION TidSpec
INVARIANTS
  LocksAccounted
  ReadTellsOutcome
PROPERTIES
  WholeOrNothing
CHECK_DEADLOCK FALSE
